-------------------------- MODULE Signals_proofs ---------------------------
(***************************************************************************)
(* Proofs about Signals, for any bounds and any names of loops: the types, *)
(* what the store and the processing thread agree on, which loops may be   *)
(* removed, and that no history spans a replacement.                       *)
(*                                                                         *)
(* The graph's operators are recursive functions.  That they have the      *)
(* values their definitions say, and what those values are, is proved by   *)
(* taking the least number for which it fails (LeastElement).              *)
(***************************************************************************)
EXTENDS Signals, FiniteSetTheorems, WellFoundedInduction, TLAPS

-----------------------------------------------------------------------------
(***************************************************************************)
(* The least number principle, which stands in for induction where a proof *)
(* is about recursive data or a position that a search finds: of the       *)
(* numbers for which something fails, take the least.                      *)
(***************************************************************************)
\* The library theorem on minimal elements, for the naturals.
LEMMA WellFoundedMinimum ==
  ASSUME NEW T, T \subseteq Nat, T # {}, NEW R, IsWellFoundedOn(R, Nat)
  PROVE  \E x \in T : \A y \in T : ~ (<<y, x>> \in R)
BY WFMin, Zenon

\* Every non-empty set of naturals, finite or not, has a least element.
LEMMA LeastElement ==
  ASSUME NEW T, T \subseteq Nat, T # {}
  PROVE  \E x \in T : \A y \in T : x <= y
<1>1. PICK R : /\ IsWellFoundedOn(R, Nat)
               /\ \A y, x \in Nat : y < x => <<y, x>> \in R
  <2>1. \A y, x \in Nat : y < x => <<y, x>> \in OpToRel(<, Nat)
    <3> SUFFICES ASSUME NEW y \in Nat, NEW x \in Nat, y < x
                 PROVE  <<y, x>> \in OpToRel(<, Nat)
      OBVIOUS
    <3>1. <<y, x>> \in Nat \X Nat /\ <<y, x>>[1] < <<y, x>>[2]
      OBVIOUS
    <3> QED
      BY <3>1, Zenon DEF OpToRel
  <2>2. IsWellFoundedOn(OpToRel(<, Nat), Nat)
    BY NatLessThanWellFounded, Zenon
  <2> WITNESS OpToRel(<, Nat)
  <2> QED
    BY <2>1, <2>2, Zenon
<1>2. PICK x \in T : \A y \in T : ~ (<<y, x>> \in R)
  <2>1. IsWellFoundedOn(R, Nat)
    BY <1>1
  <2> QED
    BY <2>1, WellFoundedMinimum, Zenon
<1>3. ASSUME NEW y \in T PROVE ~ (y < x)
  BY <1>1, <1>2, Zenon
<1>4. \A y \in T : x <= y
  BY <1>3
<1> QED
  BY <1>4

-----------------------------------------------------------------------------
(***************************************************************************)
(* The inductive invariant, by parts.                                      *)
(***************************************************************************)
\* The command in execution: what was asked for, and how far it is.
TaskType ==
  {t \in [operation : Operation, signal : 0 .. MaxSignal,
          controller : Controllers \cup {""},
          todo : SUBSET Controllers, removed : SUBSET Signal] :
     t.operation = "Delete" => t.signal \in Signal}

\* A graph the store can have handed out identities for: a filter's output is
\* newer than its input, so no walk along the filters goes in circles.
Ordered(g) ==
  /\ Outputs(g) \subseteq Signal
  /\ \A o \in Outputs(g) : g[o] \in Node /\ g[o].input < o

Adding == task.operation \in {"AddFilter", "AddDiagnostic"}

\* Identities are never used again: all that refers to a series is older than
\* the next one, and the series being added is the newest and fed to nothing.
IdentitiesAreFresh ==
  /\ \A s \in DOMAIN store : s < next_id
  /\ \A s \in DOMAIN store : store[s].source = "Filtered" => store[s].input < s
  /\ \A c \in DOMAIN registry : registry[c].input < next_id
  /\ Adding =>
       /\ task.signal \in DOMAIN store /\ task.signal + 1 = next_id
       /\ \A o \in Outputs(graph) : o < task.signal
       /\ \A b \in bindings : b.output # task.signal
       /\ \A c \in DOMAIN registry : registry[c].input # task.signal
  /\ task.operation = "AddFilter" => store[task.signal].source = "Filtered"
  /\ task.operation = "AddDiagnostic" => store[task.signal].source # "Filtered"

\* The series whose filter is not installed yet, and those whose filter is gone.
BeingAdded == IF task.operation = "AddFilter" THEN {task.signal} ELSE {}

\* The store describes the filters of the graph, and what else it describes is
\* about to be installed or removed.
StoreFollowsGraph ==
  /\ \A o \in Outputs(graph) :
       /\ o \in DOMAIN store /\ o \notin task.removed
       /\ store[o].source = "Filtered"
       /\ store[o].input = graph[o].input /\ store[o].kind = graph[o].kind
  /\ \A s \in DOMAIN store :
       store[s].source = "Filtered" =>
         s \in Outputs(graph) \cup BeingAdded \cup task.removed

\* Every diagnostic belongs to a loop and has a series of its own, which stays.
BindingsFollowRegistry ==
  \A b \in bindings :
    /\ b.controller \in DOMAIN registry
    /\ b.output \in DOMAIN store /\ b.output \notin task.removed
    /\ store[b.output].source # "Filtered"
    /\ \A a \in bindings : a.output = b.output => a = b

Safe(c) == registry[c].state = "Paused" /\ registry[c].safe

\* The loops a command is about to remove.
Doomed ==
  CASE task.operation = "Delete" ->
         NamesFrom({task.signal} \cup RemovalSetFrom(graph, task.signal))
    [] task.operation = "Clear" -> DOMAIN registry
    [] task.operation = "Remove" -> {task.controller} \cap DOMAIN registry
    [] OTHER -> {}

\* They are paused with their safe value confirmed, or are still to be.
DoomedAreSafe ==
  /\ \A c \in Doomed : c \in task.todo \/ Safe(c)
  /\ task.removed # {} => task.operation = "Delete" /\ task.todo = {}
  /\ task.operation \in {"none", "AddFilter", "AddDiagnostic"} => task.todo = {}

\* What a loop's derivative refers to is on this side of every replacement.
BaselinesAreCurrent ==
  \A c \in DOMAIN registry :
    registry[c].baseline
      \in {NoBaseline, <<registry[c].input, Stamps(graph)[registry[c].input]>>}

IInv ==
  /\ TypeOK /\ task \in TaskType
  /\ Ordered(graph)
  /\ IdentitiesAreFresh
  /\ StoreFollowsGraph
  /\ BindingsFollowRegistry
  /\ DoomedAreSafe
  /\ HistoriesAreCurrent(graph)
  /\ BaselinesAreCurrent

-----------------------------------------------------------------------------
(***************************************************************************)
(* Recursive functions over the numbers up to MaxSignal.                   *)
(***************************************************************************)
\* What the definition of Stamps says of a signal.
StampBody(g, f, s) ==
  IF s \in Outputs(g)
  THEN g[s].revision + f[IF g[s].input < s THEN g[s].input ELSE 0]
  ELSE 0

\* What the definition of Reach says of a distance.
ReachBody(g, x, f, n) ==
  IF n = 0 THEN DependentsOf(g, {x}) ELSE f[n - 1] \cup DependentsOf(g, f[n - 1])

\* A function does satisfy the definition of Stamps, up to every signal.
LEMMA StampsExist ==
  ASSUME NEW g, Ordered(g)
  PROVE  \A n \in 0 .. MaxSignal : \E f : f = [s \in 0 .. n |-> StampBody(g, f, s)]
<1> USE SignalGraphAssumption
<1> DEFINE Good(n, f) == f = [s \in 0 .. n |-> StampBody(g, f, s)]
           Bad == {n \in 0 .. MaxSignal : ~ \E f : Good(n, f)}
<1>0. Outputs(g) \subseteq 1 .. MaxSignal /\ \A o \in Outputs(g) : g[o].input \in Nat
  BY DEF Ordered, Signal, Node
<1>1. Good(0, [s \in 0 .. 0 |-> 0])
  BY <1>0 DEF StampBody
<1>2. SUFFICES ASSUME Bad # {} PROVE FALSE
  OBVIOUS
<1>3. PICK n \in Bad : \A m \in Bad : n <= m
  <2>1. Bad \subseteq Nat OBVIOUS
  <2> HIDE DEF Bad
  <2> QED BY <2>1, <1>2, LeastElement
<1>4. n # 0 /\ n \in 0 .. MaxSignal
  BY <1>1
<1>5. n - 1 \in 0 .. MaxSignal /\ n - 1 \notin Bad
  BY <1>3, <1>4
<1>6. PICK f : Good(n - 1, f)
  BY <1>5
<1> DEFINE h == [s \in 0 .. n |-> IF s < n THEN f[s] ELSE StampBody(g, f, n)]
<1>7. ASSUME NEW s \in 0 .. n PROVE h[s] = StampBody(g, h, s)
  <2>1. StampBody(g, h, s) = StampBody(g, f, s)
    <3>1. CASE s \in Outputs(g)
      <4> DEFINE i == IF g[s].input < s THEN g[s].input ELSE 0
      <4>1. i \in 0 .. n /\ i < n BY <1>0, <3>1, <1>4
      <4>2. h[i] = f[i] BY <4>1
      <4> HIDE DEF h
      <4> QED BY <4>2 DEF StampBody
    <3>2. CASE s \notin Outputs(g)
      BY <3>2 DEF StampBody
    <3> QED BY <3>1, <3>2
  <2>2. CASE s < n
    <3>1. s \in 0 .. n - 1 BY <2>2, <1>4
    <3>2. f[s] = StampBody(g, f, s) BY <3>1, <1>6
    <3>3. h[s] = f[s] BY <2>2
    <3> QED BY <3>2, <3>3, <2>1
  <2>3. CASE s = n
    <3>1. h[s] = StampBody(g, f, n) BY <2>3, <1>4
    <3> QED BY <3>1, <2>1, <2>3
  <2> QED BY <2>2, <2>3, <1>4
<1>8. Good(n, h)
  <2>1. h = [s \in 0 .. n |-> h[s]] OBVIOUS
  <2> HIDE DEF h
  <2>2. [s \in 0 .. n |-> h[s]] = [s \in 0 .. n |-> StampBody(g, h, s)] BY <1>7
  <2> QED BY <2>1, <2>2
<1> HIDE DEF Good, h
<1> QED BY <1>3, <1>8

\* The stamp of a filter's output counts its own replacements and those of its
\* input; a series no filter computes has none.
LEMMA StampsEquation ==
  ASSUME NEW g, Ordered(g), NEW s \in 0 .. MaxSignal
  PROVE  /\ s \in Outputs(g) =>
              /\ g[s].input \in 0 .. MaxSignal
              /\ Stamps(g)[s] = g[s].revision + Stamps(g)[g[s].input]
         /\ s \notin Outputs(g) => Stamps(g)[s] = 0
<1> USE SignalGraphAssumption
<1> DEFINE P(h) == h = [k \in 0 .. MaxSignal |-> StampBody(g, h, k)]
<1>1. Stamps(g) = CHOOSE h : P(h)
  BY DEF Stamps, StampBody
<1>2. MaxSignal \in 0 .. MaxSignal OBVIOUS
<1>3. \E f : P(f)
  BY StampsExist, <1>2
<1>4. P(Stamps(g))
  <2> HIDE DEF P
  <2> QED BY <1>1, <1>3
<1>5. Stamps(g)[s] = StampBody(g, Stamps(g), s)
  <2> DEFINE t == Stamps(g)
  <2>1. t = [k \in 0 .. MaxSignal |-> StampBody(g, t, k)] BY <1>4
  <2> HIDE DEF t
  <2>2. t[s] = StampBody(g, t, s) BY <2>1
  <2> QED BY <2>2 DEF t
<1>6. s \in Outputs(g) => g[s].input \in 0 .. MaxSignal /\ g[s].input < s
  BY DEF Ordered, Node, Signal
<1> QED BY <1>5, <1>6 DEF StampBody

\* Stamps are numbers.
LEMMA StampsType ==
  ASSUME NEW g, Ordered(g)
  PROVE  \A s \in 0 .. MaxSignal : Stamps(g)[s] \in Nat
<1> DEFINE Bad == {s \in 0 .. MaxSignal : Stamps(g)[s] \notin Nat}
<1>1. SUFFICES ASSUME Bad # {} PROVE FALSE
  OBVIOUS
<1>2. PICK s \in Bad : \A m \in Bad : s <= m
  <2>1. Bad \subseteq Nat BY SignalGraphAssumption
  <2> HIDE DEF Bad
  <2> QED BY <2>1, <1>1, LeastElement
<1>3. s \in Outputs(g)
  BY StampsEquation
<1>4. g[s].input \in 0 .. MaxSignal /\ g[s].input < s /\ g[s].revision \in Nat
  BY <1>3, SignalGraphAssumption DEF Ordered, Node, Signal
<1>5. Stamps(g)[g[s].input] \in Nat
  BY <1>2, <1>4, SignalGraphAssumption
<1> QED BY <1>3, <1>4, <1>5, StampsEquation

\* Graphs with the same filters on a set that is closed under inputs give its
\* signals the same stamps.
LEMMA StampsAgree ==
  ASSUME NEW g, NEW h, Ordered(g), Ordered(h), NEW K \in SUBSET (0 .. MaxSignal),
         \A s \in K : s \in Outputs(g) <=> s \in Outputs(h),
         \A s \in K \cap Outputs(g) :
           /\ g[s].input = h[s].input /\ g[s].revision = h[s].revision
           /\ g[s].input \in K
  PROVE  \A s \in K : Stamps(g)[s] = Stamps(h)[s]
<1> DEFINE Bad == {s \in K : Stamps(g)[s] # Stamps(h)[s]}
<1>1. SUFFICES ASSUME Bad # {} PROVE FALSE
  OBVIOUS
<1>2. PICK s \in Bad : \A m \in Bad : s <= m
  <2>1. K \subseteq Nat /\ Bad \subseteq K BY SignalGraphAssumption
  <2> HIDE DEF Bad
  <2> QED BY <2>1, <1>1, LeastElement
<1>3. s \in K /\ s \in 0 .. MaxSignal /\ s \in Outputs(g) /\ s \in Outputs(h)
  BY StampsEquation
<1>4. g[s].input \in K /\ g[s].input < s /\ s \in Nat /\ g[s].input \in Nat
  BY <1>3, SignalGraphAssumption DEF Ordered, Node, Signal
<1>5. Stamps(g)[g[s].input] = Stamps(h)[g[s].input]
  BY <1>2, <1>4
<1>6. Stamps(g)[s] = g[s].revision + Stamps(g)[g[s].input]
  BY <1>3, StampsEquation
<1>7. Stamps(h)[s] = h[s].revision + Stamps(h)[h[s].input]
  BY <1>3, StampsEquation
<1> QED BY <1>3, <1>5, <1>6, <1>7

-----------------------------------------------------------------------------
(***************************************************************************)
(* What is downstream of a signal.                                         *)
(***************************************************************************)
\* A function does satisfy the definition of Reach, up to every distance.
LEMMA WithinExists ==
  ASSUME NEW g, NEW x
  PROVE  \A n \in 0 .. MaxSignal : \E f : f = [k \in 0 .. n |-> ReachBody(g, x, f, k)]
<1> USE SignalGraphAssumption
<1> DEFINE Good(n, f) == f = [k \in 0 .. n |-> ReachBody(g, x, f, k)]
           Bad == {n \in 0 .. MaxSignal : ~ \E f : Good(n, f)}
<1>1. Good(0, [k \in 0 .. 0 |-> DependentsOf(g, {x})])
  BY DEF ReachBody
<1>2. SUFFICES ASSUME Bad # {} PROVE FALSE
  OBVIOUS
<1>3. PICK n \in Bad : \A m \in Bad : n <= m
  <2>1. Bad \subseteq Nat OBVIOUS
  <2> HIDE DEF Bad
  <2> QED BY <2>1, <1>2, LeastElement
<1>4. n # 0 /\ n \in 0 .. MaxSignal
  BY <1>1
<1>5. n - 1 \in 0 .. MaxSignal /\ n - 1 \notin Bad
  BY <1>3, <1>4
<1>6. PICK f : Good(n - 1, f)
  BY <1>5
<1> DEFINE h == [k \in 0 .. n |-> IF k < n THEN f[k] ELSE ReachBody(g, x, f, n)]
<1>7. ASSUME NEW k \in 0 .. n PROVE h[k] = ReachBody(g, x, h, k)
  <2>1. ReachBody(g, x, h, k) = ReachBody(g, x, f, k)
    <3>1. CASE k # 0
      <4>1. k - 1 \in 0 .. n /\ k - 1 < n BY <3>1, <1>4
      <4>2. h[k - 1] = f[k - 1] BY <4>1
      <4> HIDE DEF h
      <4> QED BY <4>2 DEF ReachBody
    <3>2. CASE k = 0
      BY <3>2 DEF ReachBody
    <3> QED BY <3>1, <3>2
  <2>2. CASE k < n
    <3>1. k \in 0 .. n - 1 BY <2>2, <1>4
    <3>2. f[k] = ReachBody(g, x, f, k) BY <3>1, <1>6
    <3>3. h[k] = f[k] BY <2>2
    <3> QED BY <3>2, <3>3, <2>1
  <2>3. CASE k = n
    <3>1. h[k] = ReachBody(g, x, f, n) BY <2>3, <1>4
    <3> QED BY <3>1, <2>1, <2>3
  <2> QED BY <2>2, <2>3, <1>4
<1>8. Good(n, h)
  <2>1. h = [k \in 0 .. n |-> h[k]] OBVIOUS
  <2> HIDE DEF h
  <2>2. [k \in 0 .. n |-> h[k]] = [k \in 0 .. n |-> ReachBody(g, x, h, k)] BY <1>7
  <2> QED BY <2>1, <2>2
<1> HIDE DEF Good, h
<1> QED BY <1>3, <1>8

\* What is within n filters of a signal, for every n, and Reach the last of them.
Within(g, x, f) ==
  /\ f[0] = DependentsOf(g, {x})
  /\ \A n \in 1 .. MaxSignal : f[n] = f[n - 1] \cup DependentsOf(g, f[n - 1])
  /\ Reach(g, x) = f[MaxSignal]

LEMMA ReachEquation ==
  ASSUME NEW g, NEW x
  PROVE  \E f : Within(g, x, f)
<1> USE SignalGraphAssumption
<1> DEFINE P(h) == h = [k \in 0 .. MaxSignal |-> ReachBody(g, x, h, k)]
           f == CHOOSE h : P(h)
<1>1. Reach(g, x) = f[MaxSignal]
  BY DEF Reach, ReachBody
<1>2. MaxSignal \in 0 .. MaxSignal OBVIOUS
<1>3. \E h : P(h)
  BY WithinExists, <1>2
<1>4. P(f)
  <2> HIDE DEF P
  <2> QED BY <1>3
<1>5. \A k \in 0 .. MaxSignal : f[k] = ReachBody(g, x, f, k)
  <2> HIDE DEF f
  <2>1. f = [k \in 0 .. MaxSignal |-> ReachBody(g, x, f, k)] BY <1>4
  <2>2. \A F : F = [k \in 0 .. MaxSignal |-> ReachBody(g, x, f, k)] =>
          \A k \in 0 .. MaxSignal : F[k] = ReachBody(g, x, f, k)
    OBVIOUS
  <2> QED BY <2>1, <2>2
<1> HIDE DEF f
<1>6. f[0] = DependentsOf(g, {x})
  <2>1. f[0] = ReachBody(g, x, f, 0) BY <1>5
  <2> QED BY <2>1 DEF ReachBody
<1>7. ASSUME NEW n \in 1 .. MaxSignal
      PROVE  f[n] = f[n - 1] \cup DependentsOf(g, f[n - 1])
  <2>1. f[n] = ReachBody(g, x, f, n) BY <1>5
  <2> QED BY <2>1 DEF ReachBody
<1> QED BY <1>1, <1>6, <1>7 DEF Within

\* Reach lies within any set that has the dependents of the signal and of its
\* own members.
LEMMA ReachIsLeast ==
  ASSUME NEW g, NEW x, NEW S,
         DependentsOf(g, {x}) \subseteq S, DependentsOf(g, S) \subseteq S
  PROVE  Reach(g, x) \subseteq S
<1> USE SignalGraphAssumption
<1>1. PICK f : Within(g, x, f) BY ReachEquation
<1> DEFINE Bad == {n \in 0 .. MaxSignal : ~ (f[n] \subseteq S)}
<1>2. SUFFICES ASSUME Bad # {} PROVE FALSE
  BY <1>1 DEF Within
<1>3. PICK n \in Bad : \A m \in Bad : n <= m
  <2>1. Bad \subseteq Nat OBVIOUS
  <2> HIDE DEF Bad
  <2> QED BY <2>1, <1>2, LeastElement
<1>4. n \in 1 .. MaxSignal BY <1>1 DEF Within
<1>5. f[n - 1] \subseteq S BY <1>3, <1>4
<1>6. DependentsOf(g, f[n - 1]) \subseteq S BY <1>5 DEF DependentsOf
<1>7. f[n] = f[n - 1] \cup DependentsOf(g, f[n - 1]) BY <1>1, <1>4 DEF Within
<1> QED BY <1>5, <1>6, <1>7

\* Only outputs of filters are downstream of anything.
LEMMA ReachOfOutputs ==
  ASSUME NEW g, NEW x
  PROVE  Reach(g, x) \subseteq Outputs(g)
<1>1. \A T : DependentsOf(g, T) \subseteq Outputs(g) BY DEF DependentsOf
<1> QED BY <1>1, ReachIsLeast

\* What is near is among what is further.
LEMMA WithinGrows ==
  ASSUME NEW g, NEW x, NEW f, Within(g, x, f),
         NEW n \in 0 .. MaxSignal, NEW m \in 0 .. n
  PROVE  f[m] \subseteq f[n]
<1> USE SignalGraphAssumption
<1> DEFINE Bad == {k \in m .. MaxSignal : ~ (f[m] \subseteq f[k])}
<1>1. SUFFICES ASSUME Bad # {} PROVE FALSE
  OBVIOUS
<1>2. PICK k \in Bad : \A j \in Bad : k <= j
  <2>1. Bad \subseteq Nat OBVIOUS
  <2> HIDE DEF Bad
  <2> QED BY <2>1, <1>1, LeastElement
<1>3. k # m /\ k \in 1 .. MaxSignal OBVIOUS
<1>4. f[m] \subseteq f[k - 1] BY <1>2, <1>3
<1>5. f[k - 1] \subseteq f[k] BY <1>3 DEF Within
<1> QED BY <1>4, <1>5

\* An output downstream of a signal is within as many filters as its identity.
LEMMA WithinIdentity ==
  ASSUME NEW g, NEW x, NEW f, Ordered(g), Within(g, x, f)
  PROVE  \A o \in Reach(g, x) : o \in f[o]
<1> USE SignalGraphAssumption
<1>1. Reach(g, x) \subseteq Outputs(g) /\ Outputs(g) \subseteq 1 .. MaxSignal
  BY ReachOfOutputs DEF Ordered, Signal
<1>2. \A n \in 0 .. MaxSignal : f[n] \subseteq Reach(g, x)
  BY WithinGrows DEF Within
<1> DEFINE Bad == {o \in Reach(g, x) : o \notin f[o]}
<1>3. SUFFICES ASSUME Bad # {} PROVE FALSE
  OBVIOUS
<1>4. PICK o \in Bad : \A p \in Bad : o <= p
  <2>1. Bad \subseteq Nat BY <1>1
  <2> HIDE DEF Bad
  <2> QED BY <2>1, <1>3, LeastElement
<1>5. o \in 1 .. MaxSignal BY <1>1
<1> DEFINE Near == {n \in 0 .. MaxSignal : o \in f[n]}
<1>6. Near # {}
  <2>1. MaxSignal \in Near BY <1>4 DEF Within
  <2> QED BY <2>1
<1>7. PICK n \in Near : \A m \in Near : n <= m
  <2>1. Near \subseteq Nat OBVIOUS
  <2> HIDE DEF Near
  <2> QED BY <2>1, <1>6, LeastElement
<1>8. n # 0
  BY <1>5, <1>7, WithinGrows
<1>9. n \in 1 .. MaxSignal /\ n - 1 \in 0 .. MaxSignal /\ o \notin f[n - 1]
  BY <1>7, <1>8
<1>10. g[o].input \in f[n - 1]
  BY <1>7, <1>9 DEF Within, DependentsOf
<1> DEFINE i == g[o].input
<1>11. i \in Reach(g, x) BY <1>2, <1>9, <1>10
<1>12. i \in 1 .. MaxSignal /\ i < o BY <1>1, <1>4, <1>11 DEF Ordered
<1>13. i \in f[i] BY <1>4, <1>11, <1>12, <1>5
<1>14. i \in f[o - 1]
  <2>1. o - 1 \in 0 .. MaxSignal /\ i \in 0 .. o - 1 BY <1>5, <1>12
  <2> QED BY <2>1, <1>13, WithinGrows
<1>15. o \in f[o]
  BY <1>1, <1>4, <1>5, <1>14 DEF Within, DependentsOf
<1> QED BY <1>15

\* Whatever takes its input from the signal or from downstream of it is
\* downstream of it.
LEMMA ReachIsClosed ==
  ASSUME NEW g, NEW x, Ordered(g), NEW o \in Outputs(g),
         g[o].input \in {x} \cup Reach(g, x)
  PROVE  o \in Reach(g, x)
<1> USE SignalGraphAssumption
<1>1. PICK f : Within(g, x, f) BY ReachEquation
<1>2. o \in 1 .. MaxSignal /\ g[o].input \in 1 .. MaxSignal /\ g[o].input < o
  BY DEF Ordered, Signal, Node
<1>3. CASE g[o].input = x
  <2>1. o \in f[0] BY <1>1, <1>3 DEF Within, DependentsOf
  <2> QED BY <2>1, <1>1, WithinGrows DEF Within
<1>4. CASE g[o].input \in Reach(g, x)
  <2> DEFINE i == g[o].input
  <2>1. i \in f[i] BY <1>1, <1>4, WithinIdentity
  <2>2. i \in f[o - 1]
    <3>1. o - 1 \in 0 .. MaxSignal /\ i \in 0 .. o - 1 BY <1>2
    <3> QED BY <3>1, <2>1, <1>1, WithinGrows
  <2>3. o \in f[o] BY <1>1, <1>2, <2>2 DEF Within, DependentsOf
  <2>4. f[o] \subseteq f[MaxSignal] BY <1>1, <1>2, WithinGrows
  <2> QED BY <2>3, <2>4, <1>1 DEF Within
<1> QED BY <1>3, <1>4

\* What is downstream depends on the filters' inputs only.
LEMMA ReachAgrees ==
  ASSUME NEW g, NEW h, Outputs(g) = Outputs(h),
         \A o \in Outputs(g) : g[o].input = h[o].input,
         NEW x
  PROVE  Reach(g, x) = Reach(h, x)
<1>1. \A T : DependentsOf(g, T) = DependentsOf(h, T) BY DEF DependentsOf
<1> QED BY ZenonT(30), <1>1 DEF Reach

-----------------------------------------------------------------------------
(***************************************************************************)
(* What each operation on the graph leaves as it is.                       *)
(***************************************************************************)
SameFilter(m, n) == m.input = n.input /\ m.kind = n.kind /\ m.revision = n.revision

\* A sample changes histories only, each by the stamp its output has.
LEMMA PassKeeps ==
  ASSUME NEW g, Ordered(g), HistoriesAreCurrent(g), NEW s, NEW done,
         NEW h, h = Pass(g, s, done)
  PROVE  /\ Outputs(h) = Outputs(g)
         /\ \A o \in Outputs(g) : SameFilter(h[o], g[o])
         /\ Ordered(h)
         /\ HistoriesAreCurrent(h)
         /\ \A k \in 0 .. MaxSignal : Stamps(h)[k] = Stamps(g)[k]
         /\ \A x : Reach(h, x) = Reach(g, x)
<1>1. Outputs(h) = Outputs(g)
  BY DEF Pass, Outputs
<1>2. Outputs(g) \subseteq 0 .. MaxSignal
  BY SignalGraphAssumption DEF Ordered, Signal
<1>3. ASSUME NEW o \in Outputs(g)
      PROVE  /\ h[o] \in Node /\ SameFilter(h[o], g[o])
             /\ h[o].history \subseteq {Stamps(g)[o]}
  <2>1. g[o] \in Node /\ Stamps(g)[o] \in Nat BY <1>2, StampsType DEF Ordered
  <2>2. g[o].history \subseteq {Stamps(g)[o]} BY DEF HistoriesAreCurrent
  <2>3. h[o] = IF o \in done
               THEN [g[o] EXCEPT !.history = @ \cup {Stamps(g)[o]}] ELSE g[o]
    BY DEF Pass
  <2> QED BY <2>1, <2>2, <2>3 DEF Node, SameFilter
<1>4. Ordered(h)
  BY <1>1, <1>3 DEF Ordered, SameFilter
<1>5. \A k \in 0 .. MaxSignal : Stamps(h)[k] = Stamps(g)[k]
  <2> DEFINE K == 0 .. MaxSignal
  <2>1. \A k \in K \cap Outputs(h) :
          /\ h[k].input = g[k].input /\ h[k].revision = g[k].revision
          /\ h[k].input \in K
    BY <1>1, <1>3, SignalGraphAssumption DEF SameFilter, Ordered, Node, Signal
  <2>2. K \in SUBSET (0 .. MaxSignal) OBVIOUS
  <2> HIDE DEF K
  <2>3. \A k \in K : Stamps(h)[k] = Stamps(g)[k]
    BY <2>1, <2>2, <1>1, <1>4, StampsAgree
  <2> QED BY <2>3 DEF K
<1>6. HistoriesAreCurrent(h)
  <2> SUFFICES ASSUME NEW o \in Outputs(h) PROVE h[o].history \subseteq {Stamps(h)[o]}
    BY DEF HistoriesAreCurrent
  <2> QED BY <1>1, <1>2, <1>3, <1>5
<1>7. \A x : Reach(h, x) = Reach(g, x)
  BY <1>1, <1>3, ReachAgrees DEF SameFilter
<1> QED BY <1>1, <1>3, <1>4, <1>5, <1>6, <1>7

\* A new filter is fed by what was there, and feeds nothing yet.
LEMMA AddFilterKeeps ==
  ASSUME NEW g, Ordered(g), HistoriesAreCurrent(g), NEW s \in Signal,
         NEW input \in Signal, NEW kind \in FilterKind,
         input < s, \A o \in Outputs(g) : o < s,
         NEW h, h = AddFilter(g, input, s, kind)
  PROVE  /\ Outputs(h) = Outputs(g) \cup {s}
         /\ h[s].input = input /\ h[s].kind = kind
         /\ \A o \in Outputs(g) : h[o] = g[o]
         /\ Ordered(h)
         /\ HistoriesAreCurrent(h)
         /\ \A k \in (0 .. MaxSignal) \ {s} : Stamps(h)[k] = Stamps(g)[k]
<1>1. Outputs(h) = Outputs(g) \cup {s} /\ s \notin Outputs(g)
  <2>1. s \notin Outputs(g) BY SignalGraphAssumption DEF Signal
  <2> QED BY <2>1 DEF AddFilter, Outputs
<1>2. h[s] = NewNode(input, kind)
  BY <1>1 DEF AddFilter, Outputs
<1>3. \A o \in Outputs(g) : h[o] = g[o]
  BY <1>1 DEF AddFilter, Outputs
<1>4. NewNode(input, kind) \in Node
  BY DEF NewNode, Node
<1>5. Ordered(h)
  <2>1. h[s].input = input BY <1>2 DEF NewNode
  <2> QED BY <1>1, <1>2, <1>3, <1>4, <2>1 DEF Ordered
<1>6. \A k \in (0 .. MaxSignal) \ {s} : Stamps(h)[k] = Stamps(g)[k]
  <2> DEFINE K == (0 .. MaxSignal) \ {s}
  <2>1. ASSUME NEW k \in K \cap Outputs(h)
        PROVE  /\ h[k].input = g[k].input /\ h[k].revision = g[k].revision
               /\ h[k].input \in K
    <3>1. k \in Outputs(g) /\ h[k] = g[k] BY <1>1, <1>3
    <3>2. g[k].input < k /\ k < s /\ g[k].input \in Signal BY <3>1 DEF Ordered, Node
    <3> QED BY <3>1, <3>2, SignalGraphAssumption DEF Signal, Ordered
  <2>2. \A k \in K : k \in Outputs(h) <=> k \in Outputs(g) BY <1>1
  <2>3. K \in SUBSET (0 .. MaxSignal) OBVIOUS
  <2> HIDE DEF K
  <2>4. \A k \in K : Stamps(h)[k] = Stamps(g)[k]
    BY <2>1, <2>2, <2>3, <1>5, StampsAgree
  <2> QED BY <2>4 DEF K
<1>7. HistoriesAreCurrent(h)
  <2> SUFFICES ASSUME NEW o \in Outputs(h) PROVE h[o].history \subseteq {Stamps(h)[o]}
    BY DEF HistoriesAreCurrent
  <2>1. CASE o = s BY <2>1, <1>2 DEF NewNode
  <2>2. CASE o \in Outputs(g)
    <3>1. o \in (0 .. MaxSignal) \ {s}
      BY <2>2, <1>1, SignalGraphAssumption DEF Ordered, Signal
    <3> QED BY <3>1, <2>2, <1>3, <1>6 DEF HistoriesAreCurrent
  <2> QED BY <2>1, <2>2, <1>1
<1> QED BY <1>1, <1>2, <1>3, <1>5, <1>6, <1>7 DEF NewNode

\* A replacement that discards the filter's state changes the stamps of nothing
\* but the filter and what is downstream of it, which forget their samples.
LEMMA ReplaceFilterKeeps ==
  ASSUME NEW g, Ordered(g), HistoriesAreCurrent(g), NEW s \in Outputs(g),
         NEW kind \in FilterKind, ~ Preserves(g[s], kind),
         NEW h, h = ReplaceFilter(g, s, kind)
  PROVE  /\ Outputs(h) = Outputs(g)
         /\ h[s].input = g[s].input /\ h[s].kind = kind
         /\ \A o \in Outputs(g) \ {s} : SameFilter(h[o], g[o])
         /\ Ordered(h)
         /\ HistoriesAreCurrent(h)
         /\ \A k \in (0 .. MaxSignal) \ RemovalSetFrom(g, s) :
              Stamps(h)[k] = Stamps(g)[k]
<1> DEFINE node == g[s]
           fresh ==
             [node EXCEPT !.kind = kind, !.revision = node.revision + 1, !.history = {}]
           e == [g EXCEPT ![s] = fresh]
<1>1. h = ResetFrom(e, s)
  BY DEF ReplaceFilter
<1>2. g[s] \in Node /\ Outputs(g) \subseteq Signal
  BY DEF Ordered
<1>3. fresh \in Node /\ fresh.input = g[s].input /\ fresh.kind = kind /\ fresh.history = {}
  <2>1. node \in Node BY <1>2
  <2> HIDE DEF node
  <2>2. fresh \in Node
    <3> DEFINE r == node.revision + 1
    <3>1. r \in Nat BY <2>1 DEF Node
    <3> HIDE DEF r
    <3>2. [node EXCEPT !.kind = kind, !.revision = r, !.history = {}] \in Node
      BY <2>1, <3>1 DEF Node
    <3> QED BY <3>2 DEF r
  <2>3. fresh.input = node.input /\ fresh.kind = kind /\ fresh.history = {}
    BY <2>1 DEF Node
  <2> QED BY <2>2, <2>3 DEF node
<1>4. Outputs(e) = Outputs(g) /\ e[s] = fresh /\ \A o \in Outputs(g) \ {s} : e[o] = g[o]
  BY DEF Outputs
<1> HIDE DEF fresh, e
<1>5. Reach(e, s) = Reach(g, s)
  BY <1>3, <1>4, ReachAgrees
<1>6. Outputs(h) = Outputs(g)
  BY <1>1, <1>4 DEF ResetFrom, Outputs
<1>7. ASSUME NEW o \in Outputs(g)
      PROVE  /\ h[o] \in Node /\ SameFilter(h[o], e[o])
             /\ o \in Reach(g, s) => h[o].history = {}
             /\ o \notin Reach(g, s) => h[o] = e[o]
  <2>1. h[o] = IF o \in Reach(g, s) THEN [e[o] EXCEPT !.history = {}] ELSE e[o]
    BY <1>1, <1>4, <1>5 DEF ResetFrom
  <2>2. e[o] \in Node BY <1>3, <1>4 DEF Ordered
  <2> QED BY <2>1, <2>2 DEF Node, SameFilter
<1>8. Ordered(h)
  <2> SUFFICES ASSUME NEW o \in Outputs(g) PROVE h[o] \in Node /\ h[o].input < o
    BY <1>6, <1>2 DEF Ordered
  <2>1. h[o].input = g[o].input BY <1>3, <1>4, <1>7 DEF SameFilter
  <2> QED BY <2>1, <1>7 DEF Ordered
<1>9. \A k \in (0 .. MaxSignal) \ RemovalSetFrom(g, s) : Stamps(h)[k] = Stamps(g)[k]
  <2> DEFINE K == (0 .. MaxSignal) \ RemovalSetFrom(g, s)
  <2>1. ASSUME NEW k \in K \cap Outputs(h)
        PROVE  /\ h[k].input = g[k].input /\ h[k].revision = g[k].revision
               /\ h[k].input \in K
    <3>1. k \in Outputs(g) /\ k # s /\ k \notin Reach(g, s)
      BY <1>6 DEF RemovalSetFrom
    <3>2. h[k] = g[k] BY <3>1, <1>4, <1>7
    <3>3. g[k].input \notin {s} \cup Reach(g, s) BY <3>1, ReachIsClosed
    <3>4. g[k].input \in 0 .. MaxSignal
      BY <3>1, SignalGraphAssumption DEF Ordered, Node, Signal
    <3> QED BY <3>2, <3>3, <3>4 DEF RemovalSetFrom
  <2>2. \A k \in K : k \in Outputs(h) <=> k \in Outputs(g) BY <1>6
  <2>3. K \in SUBSET (0 .. MaxSignal) OBVIOUS
  <2> HIDE DEF K
  <2>4. \A k \in K : Stamps(h)[k] = Stamps(g)[k]
    BY <2>1, <2>2, <2>3, <1>8, StampsAgree
  <2> QED BY <2>4 DEF K
<1>10. HistoriesAreCurrent(h)
  <2> SUFFICES ASSUME NEW o \in Outputs(g) PROVE h[o].history \subseteq {Stamps(h)[o]}
    BY <1>6 DEF HistoriesAreCurrent
  <2>1. CASE o \in Reach(g, s) BY <2>1, <1>7
  <2>2. CASE o = s /\ o \notin Reach(g, s) BY <2>2, <1>3, <1>4, <1>7
  <2>3. CASE o # s /\ o \notin Reach(g, s)
    <3>1. o \in (0 .. MaxSignal) \ RemovalSetFrom(g, s)
      BY <2>3, <1>2, SignalGraphAssumption DEF RemovalSetFrom, Signal
    <3>2. h[o] = g[o] BY <2>3, <1>4, <1>7
    <3> QED BY <3>1, <3>2, <1>9 DEF HistoriesAreCurrent
  <2> QED BY <2>1, <2>2, <2>3
<1>11. /\ h[s].input = g[s].input /\ h[s].kind = kind
       /\ \A o \in Outputs(g) \ {s} : SameFilter(h[o], g[o])
  BY <1>3, <1>4, <1>7 DEF SameFilter
<1> QED BY <1>6, <1>8, <1>9, <1>10, <1>11

\* What is left when a branch goes has all that feeds it, and nothing of the
\* branch is left.
LEMMA RemoveFromKeeps ==
  ASSUME NEW g, Ordered(g), HistoriesAreCurrent(g), NEW s,
         NEW h, h = RemoveFrom(g, s)
  PROVE  /\ Outputs(h) = Outputs(g) \ RemovalSetFrom(g, s)
         /\ \A o \in Outputs(h) : h[o] = g[o]
         /\ Ordered(h)
         /\ HistoriesAreCurrent(h)
         /\ \A k \in (0 .. MaxSignal) \ RemovalSetFrom(g, s) :
              Stamps(h)[k] = Stamps(g)[k]
         /\ RemovalSetFrom(h, s) = {}
<1>1. Outputs(h) = Outputs(g) \ RemovalSetFrom(g, s)
  BY DEF RemoveFrom, Outputs
<1>2. \A o \in Outputs(h) : o \in Outputs(g) /\ h[o] = g[o]
  BY <1>1 DEF RemoveFrom, Outputs
<1>3. Ordered(h)
  BY <1>2 DEF Ordered
<1>4. ASSUME NEW o \in Outputs(h)
      PROVE  g[o].input \notin {s} \cup Reach(g, s)
  BY <1>1, <1>2, ReachIsClosed DEF RemovalSetFrom
<1>5. \A k \in (0 .. MaxSignal) \ RemovalSetFrom(g, s) : Stamps(h)[k] = Stamps(g)[k]
  <2> DEFINE K == (0 .. MaxSignal) \ RemovalSetFrom(g, s)
  <2>1. ASSUME NEW k \in K \cap Outputs(h)
        PROVE  /\ h[k].input = g[k].input /\ h[k].revision = g[k].revision
               /\ h[k].input \in K
    <3>1. g[k].input \in 0 .. MaxSignal
      BY <1>2, SignalGraphAssumption DEF Ordered, Node, Signal
    <3> QED BY <1>2, <1>4, <3>1 DEF RemovalSetFrom
  <2>2. \A k \in K : k \in Outputs(h) <=> k \in Outputs(g) BY <1>1
  <2>3. K \in SUBSET (0 .. MaxSignal) OBVIOUS
  <2> HIDE DEF K
  <2>4. \A k \in K : Stamps(h)[k] = Stamps(g)[k]
    BY <2>1, <2>2, <2>3, <1>3, StampsAgree
  <2> QED BY <2>4 DEF K
<1>6. HistoriesAreCurrent(h)
  <2> SUFFICES ASSUME NEW o \in Outputs(h) PROVE h[o].history \subseteq {Stamps(h)[o]}
    BY DEF HistoriesAreCurrent
  <2>1. o \in (0 .. MaxSignal) \ RemovalSetFrom(g, s)
    BY <1>1, <1>3, SignalGraphAssumption DEF Ordered, Signal
  <2> QED BY <2>1, <1>2, <1>5 DEF HistoriesAreCurrent
<1>7. RemovalSetFrom(h, s) = {}
  <2>1. DependentsOf(h, {s}) = {} BY <1>2, <1>4 DEF DependentsOf
  <2>2. DependentsOf(h, {}) = {} BY DEF DependentsOf
  <2>3. Reach(h, s) \subseteq {} BY <2>1, <2>2, ReachIsLeast
  <2> QED BY <2>3, <1>1 DEF RemovalSetFrom
<1> QED BY <1>1, <1>2, <1>3, <1>5, <1>6, <1>7

-----------------------------------------------------------------------------
(***************************************************************************)
(* The tables and the command.                                             *)
(***************************************************************************)
LEMMA WithoutValues ==
  ASSUME NEW table, NEW keys
  PROVE  /\ DOMAIN Without(table, keys) = DOMAIN table \ keys
         /\ \A k \in DOMAIN table \ keys : Without(table, keys)[k] = table[k]
BY DEF Without

LEMMA WithValues ==
  ASSUME NEW table, NEW key, NEW value
  PROVE  /\ DOMAIN With(table, key, value) = DOMAIN table \cup {key}
         /\ With(table, key, value)[key] = value
         /\ \A k \in DOMAIN table \ {key} : With(table, key, value)[k] = table[k]
BY DEF With

\* The fields of the command a handler starts, and of none.
LEMMA TaskFields ==
  ASSUME NEW operation, NEW signal, NEW todo
  PROVE  /\ Task(operation, signal, todo)
              = [operation |-> operation, signal |-> signal, controller |-> "",
                 todo |-> todo, removed |-> {}]
         /\ NoTask
              = [operation |-> "none", signal |-> 0, controller |-> "",
                 todo |-> {}, removed |-> {}]
BY DEF Task, NoTask

\* No command is a command.
LEMMA NoTaskType == NoTask \in TaskType
<1>1. 0 \in 0 .. MaxSignal BY SignalGraphAssumption
<1>2. "none" \in Operation BY DEF Operation
<1> QED BY <1>1, <1>2 DEF NoTask, Task, TaskType

\* Everything that is named is older than the next series.
LEMMA NamedIsOlder ==
  ASSUME IInv
  PROVE  /\ next_id \in Nat
         /\ \A s \in DOMAIN store : s \in Nat /\ s < next_id
         /\ \A o \in Outputs(graph) : o \in DOMAIN store
         /\ \A b \in bindings : b.output \in DOMAIN store
         /\ \A c \in DOMAIN registry :
              registry[c].input \in 0 .. MaxSignal /\ registry[c].input < next_id
<1> USE SignalGraphAssumption
<1>1. next_id \in Nat /\ \A s \in DOMAIN store : s \in Nat
  BY DEF IInv, TypeOK, Signal
<1>2. \A c \in DOMAIN registry : registry[c].input \in 0 .. MaxSignal
  BY DEF IInv, TypeOK, Loop, Signal
<1>3. \A s \in DOMAIN store : s < next_id
  BY DEF IInv, IdentitiesAreFresh
<1>4. \A o \in Outputs(graph) : o \in DOMAIN store
  BY DEF IInv, StoreFollowsGraph
<1>5. \A b \in bindings : b.output \in DOMAIN store
  BY DEF IInv, BindingsFollowRegistry
<1>6. \A c \in DOMAIN registry : registry[c].input < next_id
  BY DEF IInv, IdentitiesAreFresh
<1> QED BY <1>1, <1>2, <1>3, <1>4, <1>5, <1>6

\* The inductive invariant holds before the first command.
LEMMA InitKeeps == Init => IInv
<1> SUFFICES ASSUME Init PROVE IInv
  OBVIOUS
<1> USE SignalGraphAssumption DEF Init
<1>1. /\ DOMAIN store = {} /\ Outputs(graph) = {} /\ DOMAIN registry = {}
      /\ DOMAIN graph = {}
  BY DEF EmptyGraph, Outputs
<1>2. task = [operation |-> "none", signal |-> 0, controller |-> "",
              todo |-> {}, removed |-> {}]
  BY TaskFields
<1>3. task \in TaskType BY NoTaskType
<1>a. task.operation = "none" /\ task.todo = {} /\ task.removed = {}
  BY ONLY <1>2
<1>4. TypeOK
  <2>1. task.operation \in Operation /\ task.todo \subseteq Controllers
        /\ task.removed \subseteq Signal
    BY <1>a DEF Operation
  <2>2. next_id \in 1 .. MaxSignal + 1 /\ samples \in Seq(Signal)
        /\ processing_up \in BOOLEAN /\ bindings \subseteq Binding
    OBVIOUS
  <2> QED BY <1>1, <2>1, <2>2 DEF TypeOK
<1>5. Ordered(graph) BY <1>1 DEF Ordered
<1>6. IdentitiesAreFresh BY <1>1, <1>a DEF IdentitiesAreFresh, Adding
<1>7. StoreFollowsGraph BY <1>1 DEF StoreFollowsGraph
<1>8. BindingsFollowRegistry BY DEF BindingsFollowRegistry
<1>9. DoomedAreSafe BY <1>1, <1>a DEF DoomedAreSafe, Doomed
<1>10. HistoriesAreCurrent(graph) BY <1>1 DEF HistoriesAreCurrent
<1>11. BaselinesAreCurrent BY <1>1 DEF BaselinesAreCurrent
<1> QED BY <1>3, <1>4, <1>5, <1>6, <1>7, <1>8, <1>9, <1>10, <1>11 DEF IInv

-----------------------------------------------------------------------------
(***************************************************************************)
(* The commands that add a series.                                         *)
(***************************************************************************)
\* A new series is older than no other, and nothing refers to it; if it is to
\* be fed by a filter or a loop, the command says so.
LEMMA AdditionKeeps ==
  ASSUME IInv, Idle, NEW series \in Series, AddSeries(series),
         series.source = "Filtered" => series.input < next_id,
         UNCHANGED <<graph, registry, bindings, samples, processing_up>>,
         \/ task' = task /\ series.source # "Filtered"
         \/ /\ task' \in TaskType
            /\ task'.signal = next_id /\ task'.todo = {} /\ task'.removed = {}
            /\ \/ task'.operation = "AddFilter" /\ series.source = "Filtered"
               \/ task'.operation = "AddDiagnostic" /\ series.source # "Filtered"
  PROVE  IInv'
<1> USE SignalGraphAssumption
<1>1. /\ DOMAIN store' = DOMAIN store \cup {next_id} /\ store'[next_id] = series
      /\ \A s \in DOMAIN store \ {next_id} : store'[s] = store[s]
  BY DEF AddSeries, With
<1>2. next_id' = next_id + 1 /\ next_id \in Signal
  BY DEF AddSeries, IInv, TypeOK, Signal
<1>3. next_id \notin DOMAIN store
  BY NamedIsOlder
<1>4. \A s \in DOMAIN store : s # next_id /\ store'[s] = store[s]
  BY <1>1, <1>3
<1>5. task' \in TaskType
  BY DEF IInv
<1>6. TypeOK'
  <2>1. next_id' \in 1 .. MaxSignal + 1 BY <1>2 DEF Signal
  <2>2. DOMAIN store' \subseteq Signal /\ \A s \in DOMAIN store' : store'[s] \in Series
    BY <1>1, <1>2, <1>4 DEF IInv, TypeOK
  <2>3. task'.operation \in Operation /\ task'.todo \subseteq Controllers
        /\ task'.removed \subseteq Signal
    BY <1>5 DEF TaskType
  <2> QED BY <2>1, <2>2, <2>3 DEF IInv, TypeOK
<1>7. task.removed = {} /\ task.todo = {} /\ ~ Adding
  BY DEF Idle, Adding, IInv, DoomedAreSafe
<1>8. IdentitiesAreFresh'
  <2>1. \A s \in DOMAIN store' : s < next_id'
    BY <1>1, <1>2, NamedIsOlder
  <2>2. \A s \in DOMAIN store' : store'[s].source = "Filtered" => store'[s].input < s
    BY <1>1, <1>4 DEF IInv, IdentitiesAreFresh
  <2>3. \A c \in DOMAIN registry' : registry'[c].input < next_id'
    BY <1>2, NamedIsOlder
  <2>4. Adding' =>
          /\ task'.signal \in DOMAIN store' /\ task'.signal + 1 = next_id'
          /\ \A o \in Outputs(graph') : o < task'.signal
          /\ \A b \in bindings' : b.output # task'.signal
          /\ \A c \in DOMAIN registry' : registry'[c].input # task'.signal
    <3> SUFFICES ASSUME Adding'
                 PROVE  /\ task'.signal \in DOMAIN store' /\ task'.signal + 1 = next_id'
                        /\ \A o \in Outputs(graph') : o < task'.signal
                        /\ \A b \in bindings' : b.output # task'.signal
                        /\ \A c \in DOMAIN registry' : registry'[c].input # task'.signal
      OBVIOUS
    <3>1. task'.signal = next_id BY <1>7 DEF Adding
    <3>2. \A o \in Outputs(graph') : o < next_id BY NamedIsOlder
    <3>3. \A b \in bindings' : b.output # next_id BY <1>3, NamedIsOlder
    <3>4. \A c \in DOMAIN registry' : registry'[c].input # next_id BY NamedIsOlder
    <3> QED BY <1>1, <1>2, <3>1, <3>2, <3>3, <3>4
  <2>5. task'.operation = "AddFilter" => store'[task'.signal].source = "Filtered"
    BY <1>1 DEF Idle
  <2>6. task'.operation = "AddDiagnostic" => store'[task'.signal].source # "Filtered"
    BY <1>1 DEF Idle
  <2> QED BY <2>1, <2>2, <2>3, <2>4, <2>5, <2>6 DEF IdentitiesAreFresh
<1>9. task'.removed = {}
  BY <1>7
<1>10. StoreFollowsGraph'
  <2>1. \A o \in Outputs(graph') :
          /\ o \in DOMAIN store' /\ o \notin task'.removed
          /\ store'[o].source = "Filtered"
          /\ store'[o].input = graph'[o].input /\ store'[o].kind = graph'[o].kind
    BY <1>1, <1>4, <1>9 DEF IInv, StoreFollowsGraph
  <2>2. ASSUME NEW s \in DOMAIN store', store'[s].source = "Filtered"
        PROVE  s \in Outputs(graph') \cup BeingAdded' \cup task'.removed
    <3>1. CASE s \in DOMAIN store
      BY <2>2, <3>1, <1>4, <1>7 DEF IInv, StoreFollowsGraph, BeingAdded, Adding
    <3>2. CASE s = next_id
      BY <2>2, <3>2, <1>1 DEF BeingAdded
    <3> QED BY <3>1, <3>2, <1>1
  <2> QED BY <2>1, <2>2 DEF StoreFollowsGraph
<1>11. BindingsFollowRegistry'
  BY <1>1, <1>4, <1>9 DEF IInv, BindingsFollowRegistry
<1>12. DoomedAreSafe'
  <2>1. Doomed' = {} BY DEF Doomed, Idle
  <2>2. task'.todo = {} BY <1>7
  <2> QED BY <2>1, <2>2, <1>9 DEF DoomedAreSafe
<1>13. Ordered(graph') /\ HistoriesAreCurrent(graph') /\ BaselinesAreCurrent'
  BY DEF IInv, BaselinesAreCurrent
<1> QED BY <1>5, <1>6, <1>8, <1>10, <1>11, <1>12, <1>13 DEF IInv

\* Reading a raw series, or adding the series of a filter or a diagnostic.
LEMMA AddRawKeeps == IInv /\ AddRaw => IInv'
<1>1. RawSeries \in Series /\ RawSeries.source = "Raw"
  BY DEF RawSeries, Series
<1> QED BY <1>1, AdditionKeeps DEF AddRaw

LEMMA BeginAddFilterKeeps ==
  ASSUME IInv, NEW input \in Signal, NEW kind \in FilterKind, BeginAddFilter(input, kind)
  PROVE  IInv'
<1> DEFINE series == FilteredSeries(input, kind)
<1>1. series \in Series /\ series.source = "Filtered" /\ series.input = input
  BY DEF FilteredSeries, Series
<1>2. AddSeries(series) /\ Idle /\ input < next_id
  BY NamedIsOlder DEF BeginAddFilter, IdByName
<1>3. next_id \in 0 .. MaxSignal
  BY <1>2, SignalGraphAssumption DEF AddSeries, IInv, TypeOK
<1>4. task' = [operation |-> "AddFilter", signal |-> next_id, controller |-> "",
               todo |-> {}, removed |-> {}]
  BY TaskFields DEF BeginAddFilter
<1>5. task' \in TaskType
  BY <1>3, <1>4 DEF TaskType, Operation
<1>6. UNCHANGED <<graph, registry, bindings, samples, processing_up>>
  BY DEF BeginAddFilter
<1> HIDE DEF series
<1> QED BY <1>1, <1>2, <1>4, <1>5, <1>6, AdditionKeeps

LEMMA BeginAddDiagnosticKeeps ==
  ASSUME IInv, NEW c \in Controllers, BeginAddDiagnostic(c)
  PROVE  IInv'
<1>1. DiagnosticSeries \in Series /\ DiagnosticSeries.source = "ControllerDiagnostic"
  BY DEF DiagnosticSeries, Series
<1>2. AddSeries(DiagnosticSeries) /\ Idle
  BY DEF BeginAddDiagnostic
<1>3. next_id \in 0 .. MaxSignal
  BY <1>2, SignalGraphAssumption DEF AddSeries, IInv, TypeOK
<1>4. task' = [operation |-> "AddDiagnostic", signal |-> next_id, controller |-> c,
               todo |-> {}, removed |-> {}]
  BY DEF BeginAddDiagnostic, Task
<1>5. task' \in TaskType
  BY <1>3, <1>4 DEF TaskType, Operation
<1>6. UNCHANGED <<graph, registry, bindings, samples, processing_up>>
  BY DEF BeginAddDiagnostic
<1> QED BY <1>1, <1>2, <1>4, <1>5, <1>6, AdditionKeeps

\* The command that was being executed is over.
LEMMA TaskEnds ==
  ASSUME task' = NoTask
  PROVE  /\ task' \in TaskType
         /\ task'.operation = "none" /\ task'.todo = {} /\ task'.removed = {}
         /\ task'.operation \in Operation
         /\ Doomed' = {} /\ BeingAdded' = {} /\ ~ Adding'
<1>1. task'.operation = "none" /\ task'.todo = {} /\ task'.removed = {}
  BY DEF NoTask, Task
<1>2. Doomed' = {} BY <1>1 DEF Doomed
<1>3. BeingAdded' = {} /\ ~ Adding' BY <1>1 DEF BeingAdded, Adding
<1> QED BY <1>1, <1>2, <1>3, NoTaskType DEF Operation

\* Taking a series back that was added for a filter or a diagnostic.
LEMMA TakenBackKeeps ==
  ASSUME IInv, Adding, TakenBack, task' = NoTask,
         UNCHANGED <<next_id, graph, registry, bindings, samples, processing_up>>
  PROVE  IInv'
<1>1. /\ DOMAIN store' = DOMAIN store \ {task.signal}
      /\ \A s \in DOMAIN store' : store'[s] = store[s]
  BY DEF TakenBack, RemoveSeries, Without
<1>2. /\ \A o \in Outputs(graph) : o # task.signal
      /\ \A b \in bindings : b.output # task.signal
  BY SignalGraphAssumption DEF IInv, IdentitiesAreFresh, Ordered, Signal
<1>3. TypeOK'
  BY <1>1, TaskEnds DEF IInv, TypeOK
<1>4. IdentitiesAreFresh'
  BY <1>1, TaskEnds DEF IInv, IdentitiesAreFresh
<1>5. task.removed = {}
  BY DEF IInv, DoomedAreSafe, Adding
<1>6. StoreFollowsGraph'
  <2>1. \A o \in Outputs(graph') :
          /\ o \in DOMAIN store' /\ o \notin task'.removed
          /\ store'[o].source = "Filtered"
          /\ store'[o].input = graph'[o].input /\ store'[o].kind = graph'[o].kind
    BY <1>1, <1>2, TaskEnds DEF IInv, StoreFollowsGraph
  <2>2. ASSUME NEW s \in DOMAIN store', store'[s].source = "Filtered"
        PROVE  s \in Outputs(graph') \cup BeingAdded' \cup task'.removed
    BY <2>2, <1>1, <1>5 DEF IInv, StoreFollowsGraph, BeingAdded
  <2> QED BY <2>1, <2>2 DEF StoreFollowsGraph
<1>7. BindingsFollowRegistry'
  BY <1>1, <1>2, TaskEnds DEF IInv, BindingsFollowRegistry
<1>8. DoomedAreSafe'
  BY TaskEnds DEF DoomedAreSafe
<1>9. Ordered(graph') /\ HistoriesAreCurrent(graph') /\ BaselinesAreCurrent'
  BY DEF IInv, BaselinesAreCurrent
<1> QED BY <1>3, <1>4, <1>6, <1>7, <1>8, <1>9, TaskEnds DEF IInv

\* Installing the filter the series was added for, or taking the series back.
LEMMA InstallFilterKeeps == IInv /\ InstallFilter => IInv'
<1> SUFFICES ASSUME IInv, InstallFilter PROVE IInv'
  OBVIOUS
<1> USE SignalGraphAssumption
<1> DEFINE s == task.signal
           input == store[s].input
           kind == store[s].kind
<1>1. /\ task.operation = "AddFilter" /\ task' = NoTask
      /\ UNCHANGED <<next_id, registry, bindings, samples, processing_up>>
  BY DEF InstallFilter
<1>2. Adding /\ task.removed = {}
  BY <1>1 DEF Adding, IInv, DoomedAreSafe
<1>3. s \in DOMAIN store /\ store[s].source = "Filtered" /\ input < s
  BY <1>1, <1>2 DEF IInv, IdentitiesAreFresh
<1>4. s \in Signal /\ input \in Signal /\ kind \in FilterKind
  BY <1>3 DEF IInv, TypeOK, Series
<1>5. /\ \A o \in Outputs(graph) : o < s
      /\ \A b \in bindings : b.output # s
      /\ \A c \in DOMAIN registry : registry[c].input # s
  BY <1>2 DEF IInv, IdentitiesAreFresh
<1>6. CASE graph' = AddFilter(graph, input, s, kind) /\ UNCHANGED store
  <2>1. /\ Outputs(graph') = Outputs(graph) \cup {s}
        /\ graph'[s].input = input /\ graph'[s].kind = kind
        /\ \A o \in Outputs(graph) : graph'[o] = graph[o]
        /\ Ordered(graph')
        /\ HistoriesAreCurrent(graph')
        /\ \A k \in (0 .. MaxSignal) \ {s} : Stamps(graph')[k] = Stamps(graph)[k]
    <3> DEFINE h == AddFilter(graph, input, s, kind)
    <3>1. Ordered(graph) /\ HistoriesAreCurrent(graph) BY DEF IInv
    <3> HIDE DEF h, s, input, kind
    <3>2. /\ Outputs(h) = Outputs(graph) \cup {s}
          /\ h[s].input = input /\ h[s].kind = kind
          /\ \A o \in Outputs(graph) : h[o] = graph[o]
          /\ Ordered(h)
          /\ HistoriesAreCurrent(h)
          /\ \A k \in (0 .. MaxSignal) \ {s} : Stamps(h)[k] = Stamps(graph)[k]
      BY <3>1, <1>3, <1>4, <1>5, AddFilterKeeps DEF h
    <3>3. graph' = h BY <1>6 DEF h, s, input, kind
    <3> QED BY <3>2, <3>3
  <2>2. TypeOK'
    <3>1. DOMAIN graph' \subseteq Signal /\ \A o \in DOMAIN graph' : graph'[o] \in Node
      BY <2>1 DEF Ordered, Outputs
    <3> QED BY <3>1, <1>1, <1>6, TaskEnds DEF IInv, TypeOK
  <2>3. IdentitiesAreFresh'
    BY <1>1, <1>6, TaskEnds DEF IInv, IdentitiesAreFresh
  <2>4. StoreFollowsGraph'
    <3>1. ASSUME NEW o \in Outputs(graph')
          PROVE  /\ o \in DOMAIN store' /\ o \notin task'.removed
                 /\ store'[o].source = "Filtered"
                 /\ store'[o].input = graph'[o].input
                 /\ store'[o].kind = graph'[o].kind
      <4>1. CASE o = s
        BY <4>1, <1>1, <1>3, <1>6, <2>1, TaskEnds
      <4>2. CASE o \in Outputs(graph)
        BY <4>2, <1>1, <1>6, <2>1, TaskEnds DEF IInv, StoreFollowsGraph
      <4> QED BY <4>1, <4>2, <2>1
    <3>2. ASSUME NEW o \in DOMAIN store', store'[o].source = "Filtered"
          PROVE  o \in Outputs(graph') \cup BeingAdded' \cup task'.removed
      BY <3>2, <1>2, <1>6, <2>1 DEF IInv, StoreFollowsGraph, BeingAdded
    <3> QED BY <3>1, <3>2 DEF StoreFollowsGraph
  <2>5. BindingsFollowRegistry'
    BY <1>1, <1>6, TaskEnds DEF IInv, BindingsFollowRegistry
  <2>6. DoomedAreSafe'
    BY <1>1, TaskEnds DEF DoomedAreSafe
  <2>7. BaselinesAreCurrent'
    <3> SUFFICES ASSUME NEW c \in DOMAIN registry
                 PROVE  registry[c].baseline
                          \in {NoBaseline, <<registry[c].input,
                                             Stamps(graph')[registry[c].input]>>}
      BY <1>1 DEF BaselinesAreCurrent
    <3>1. registry[c].input \in (0 .. MaxSignal) \ {s}
      BY <1>5, NamedIsOlder
    <3> HIDE DEF s
    <3>2. Stamps(graph')[registry[c].input] = Stamps(graph)[registry[c].input]
      BY <3>1, <2>1
    <3> QED BY <3>2 DEF IInv, BaselinesAreCurrent
  <2> QED BY <2>1, <2>2, <2>3, <2>4, <2>5, <2>6, <2>7, <1>1, TaskEnds DEF IInv
<1>7. CASE TakenBack /\ UNCHANGED graph
  BY <1>1, <1>2, <1>7, TakenBackKeeps
<1> QED BY <1>6, <1>7 DEF InstallFilter

\* Binding the diagnostic the series was added for, or taking the series back.
LEMMA InstallDiagnosticKeeps == IInv /\ InstallDiagnostic => IInv'
<1> SUFFICES ASSUME IInv, InstallDiagnostic PROVE IInv'
  OBVIOUS
<1> DEFINE s == task.signal
           c == task.controller
           new == [controller |-> c, output |-> s]
<1>1. /\ task.operation = "AddDiagnostic" /\ task' = NoTask
      /\ UNCHANGED <<next_id, graph, registry, samples, processing_up>>
  BY DEF InstallDiagnostic
<1>2. Adding /\ task.removed = {} /\ BeingAdded = {}
  BY <1>1 DEF Adding, IInv, DoomedAreSafe, BeingAdded
<1>3. s \in DOMAIN store /\ store[s].source # "Filtered"
  BY <1>1, <1>2 DEF IInv, IdentitiesAreFresh
<1>4. \A b \in bindings : b.output # s
  BY <1>2 DEF IInv, IdentitiesAreFresh
<1>5. CASE /\ DiagnosticAccepted(c, s) /\ bindings' = bindings \cup {new}
           /\ UNCHANGED store
  <2>1. c \in DOMAIN registry BY <1>5 DEF DiagnosticAccepted
  <2>2. new.controller = c /\ new.output = s OBVIOUS
  <2>3. new \in Binding
    BY <2>1, <1>3 DEF IInv, TypeOK, Binding
  <2> HIDE DEF new, c, s
  <2>4. TypeOK'
    BY <1>1, <1>5, <2>3, TaskEnds DEF IInv, TypeOK
  <2>5. IdentitiesAreFresh'
    BY <1>1, <1>5, TaskEnds DEF IInv, IdentitiesAreFresh
  <2>6. StoreFollowsGraph'
    BY <1>1, <1>2, <1>5, TaskEnds DEF IInv, StoreFollowsGraph
  <2>7. BindingsFollowRegistry'
    <3> SUFFICES ASSUME NEW b \in bindings'
                 PROVE  /\ b.controller \in DOMAIN registry
                        /\ b.output \in DOMAIN store
                        /\ store[b.output].source # "Filtered"
                        /\ \A a \in bindings' : a.output = b.output => a = b
      BY <1>1, <1>5, TaskEnds DEF BindingsFollowRegistry
    <3>1. CASE b \in bindings
      BY <3>1, <1>4, <1>5, <2>2 DEF IInv, BindingsFollowRegistry
    <3>2. CASE b = new
      BY <3>2, <1>3, <1>4, <1>5, <2>1, <2>2
    <3> QED BY <3>1, <3>2, <1>5
  <2>8. DoomedAreSafe'
    BY <1>1, TaskEnds DEF DoomedAreSafe
  <2>9. Ordered(graph') /\ HistoriesAreCurrent(graph') /\ BaselinesAreCurrent'
    BY <1>1 DEF IInv, BaselinesAreCurrent
  <2> QED BY <2>4, <2>5, <2>6, <2>7, <2>8, <2>9, <1>1, TaskEnds DEF IInv
<1>6. CASE TakenBack /\ UNCHANGED bindings
  BY <1>1, <1>2, <1>6, TakenBackKeeps
<1> QED BY <1>5, <1>6 DEF InstallDiagnostic

-----------------------------------------------------------------------------
(***************************************************************************)
(* The commands on one filter or one loop.                                 *)
(***************************************************************************)
\* A filter is replaced, and the loops behind it start afresh.
LEMMA SetFilterKeeps ==
  ASSUME IInv, NEW s \in Signal, NEW kind \in FilterKind, SetFilter(s, kind)
  PROVE  IInv'
<1> USE SignalGraphAssumption
<1>1. /\ Idle /\ s \in DOMAIN store /\ store[s].source = "Filtered" /\ s \in Outputs(graph)
      /\ graph' = ReplaceFilter(graph, s, kind)
      /\ registry' = ReplacedLoops(s, kind)
      /\ UNCHANGED <<next_id, bindings, samples, processing_up, task>>
  BY DEF SetFilter, IdByName
<1>2. /\ DOMAIN store' = DOMAIN store
      /\ store'[s] = [store[s] EXCEPT !.kind = kind]
      /\ \A k \in DOMAIN store \ {s} : store'[k] = store[k]
  BY <1>1 DEF SetFilter
<1>3. /\ store[s] \in Series /\ store'[s] \in Series
      /\ store'[s].source = "Filtered" /\ store'[s].kind = kind
      /\ store'[s].input = store[s].input
  <2>1. store[s] \in [source : {"Filtered"}, input : Signal, kind : FilterKind]
    BY <1>1 DEF IInv, TypeOK, Series
  <2>2. store'[s] \in [source : {"Filtered"}, input : Signal, kind : FilterKind]
        /\ store'[s].kind = kind /\ store'[s].input = store[s].input
    BY <2>1, <1>2
  <2> QED BY <2>1, <2>2 DEF Series
<1>4. Ordered(graph) /\ HistoriesAreCurrent(graph)
  BY DEF IInv
<1>5. /\ Outputs(graph') = Outputs(graph)
      /\ graph'[s].input = graph[s].input /\ graph'[s].kind = kind
      /\ \A o \in Outputs(graph) \ {s} :
           graph'[o].input = graph[o].input /\ graph'[o].kind = graph[o].kind
      /\ Ordered(graph')
      /\ HistoriesAreCurrent(graph')
  <2>1. CASE Preserves(graph[s], kind)
    <3>1. graph' = graph BY <1>1, <2>1 DEF ReplaceFilter
    <3> QED BY <3>1, <1>4, <2>1 DEF Preserves
  <2>2. CASE ~ Preserves(graph[s], kind)
    <3> DEFINE h == ReplaceFilter(graph, s, kind)
    <3> HIDE DEF h
    <3>1. /\ Outputs(h) = Outputs(graph)
          /\ h[s].input = graph[s].input /\ h[s].kind = kind
          /\ \A o \in Outputs(graph) \ {s} : SameFilter(h[o], graph[o])
          /\ Ordered(h) /\ HistoriesAreCurrent(h)
      BY <1>1, <1>4, <2>2, ReplaceFilterKeeps DEF h
    <3>2. graph' = h BY <1>1 DEF h
    <3> QED BY <3>1, <3>2 DEF SameFilter
  <2> QED BY <2>1, <2>2
<1>6. DOMAIN registry' = DOMAIN registry
  BY <1>1 DEF ReplacedLoops, ResynchronizeFrom
<1>7. ASSUME NEW c \in DOMAIN registry
      PROVE  /\ registry'[c] \in Loop /\ registry'[c].input = registry[c].input
             /\ registry'[c].baseline
                  \in {NoBaseline, <<registry[c].input, Stamps(graph')[registry[c].input]>>}
  <2>1. registry[c] \in Loop BY DEF IInv, TypeOK
  <2>2. registry[c].baseline
          \in {NoBaseline, <<registry[c].input, Stamps(graph)[registry[c].input]>>}
    BY DEF IInv, BaselinesAreCurrent
  <2>3. CASE Preserves(graph[s], kind)
    <3>1. graph' = graph /\ registry' = registry
      BY <1>1, <2>3 DEF ReplaceFilter, ReplacedLoops
    <3> QED BY <3>1, <2>1, <2>2
  <2>4. CASE ~ Preserves(graph[s], kind) /\ registry[c].input \in RemovalSetFrom(graph, s)
    <3>1. registry'[c] = [registry[c] EXCEPT !.baseline = NoBaseline]
      BY <1>1, <2>4 DEF ReplacedLoops, ResynchronizeFrom, Resynchronized
    <3>2. NoBaseline \in (0 .. MaxSignal) \X Nat BY DEF NoBaseline
    <3> QED BY <2>1, <3>1, <3>2 DEF Loop
  <2>5. CASE ~ Preserves(graph[s], kind) /\ registry[c].input \notin RemovalSetFrom(graph, s)
    <3>1. registry'[c] = registry[c]
      BY <1>1, <2>5 DEF ReplacedLoops, ResynchronizeFrom
    <3>2. registry[c].input \in (0 .. MaxSignal) \ RemovalSetFrom(graph, s)
      BY <2>5, NamedIsOlder
    <3> DEFINE h == ReplaceFilter(graph, s, kind)
    <3> HIDE DEF h
    <3>3. \A k \in (0 .. MaxSignal) \ RemovalSetFrom(graph, s) :
            Stamps(h)[k] = Stamps(graph)[k]
      BY <1>1, <1>4, <2>5, ReplaceFilterKeeps DEF h
    <3>4. graph' = h BY <1>1 DEF h
    <3> QED BY <2>1, <2>2, <3>1, <3>2, <3>3, <3>4
  <2> QED BY <2>3, <2>4, <2>5
<1>8. TypeOK'
  <2>1. DOMAIN graph' \subseteq Signal /\ \A o \in DOMAIN graph' : graph'[o] \in Node
    BY <1>5 DEF Ordered, Outputs
  <2>2. \A k \in DOMAIN store' : store'[k] \in Series
    BY <1>2, <1>3 DEF IInv, TypeOK
  <2> QED BY <1>1, <1>2, <1>6, <1>7, <2>1, <2>2 DEF IInv, TypeOK
<1>9. ~ Adding /\ BeingAdded = {} /\ task.removed = {} /\ task.todo = {}
  BY <1>1 DEF Idle, Adding, BeingAdded, IInv, DoomedAreSafe
<1>10. IdentitiesAreFresh'
  <2>1. ~ Adding' BY <1>1, <1>9 DEF Adding
  <2>2. task'.operation \notin {"AddFilter", "AddDiagnostic"} BY <2>1 DEF Adding
  <2>3. \A k \in DOMAIN store' : k < next_id'
    BY <1>1, <1>2 DEF IInv, IdentitiesAreFresh
  <2>4. \A k \in DOMAIN store' : store'[k].source = "Filtered" => store'[k].input < k
    BY <1>1, <1>2, <1>3 DEF IInv, IdentitiesAreFresh
  <2>5. \A c \in DOMAIN registry' : registry'[c].input < next_id'
    BY <1>1, <1>6, <1>7 DEF IInv, IdentitiesAreFresh
  <2> QED BY <2>1, <2>2, <2>3, <2>4, <2>5 DEF IdentitiesAreFresh
<1>11. StoreFollowsGraph'
  <2>1. ASSUME NEW o \in Outputs(graph')
        PROVE  /\ o \in DOMAIN store' /\ o \notin task'.removed
               /\ store'[o].source = "Filtered"
               /\ store'[o].input = graph'[o].input
               /\ store'[o].kind = graph'[o].kind
    <3>1. /\ o \in DOMAIN store /\ store[o].source = "Filtered"
          /\ store[o].input = graph[o].input /\ store[o].kind = graph[o].kind
      BY <1>5 DEF IInv, StoreFollowsGraph
    <3>2. CASE o = s BY <3>1, <3>2, <1>1, <1>2, <1>3, <1>5, <1>9
    <3>3. CASE o # s BY <3>1, <3>3, <1>1, <1>2, <1>5, <1>9
    <3> QED BY <3>2, <3>3
  <2>2. ASSUME NEW o \in DOMAIN store', store'[o].source = "Filtered"
        PROVE  o \in Outputs(graph')
    <3>1. o \in DOMAIN store /\ store[o].source = "Filtered"
      BY <2>2, <1>1, <1>2
    <3> QED BY <3>1, <1>5, <1>9 DEF IInv, StoreFollowsGraph
  <2> QED BY <2>1, <2>2 DEF StoreFollowsGraph
<1>12. BindingsFollowRegistry'
  <2>1. \A k \in DOMAIN store : store'[k].source = store[k].source
    BY <1>1, <1>2, <1>3
  <2> QED BY <2>1, <1>1, <1>2, <1>6 DEF IInv, BindingsFollowRegistry
<1>13. DoomedAreSafe'
  <2>1. Doomed' = {} BY <1>1 DEF Doomed, Idle
  <2> QED BY <2>1, <1>1, <1>9 DEF DoomedAreSafe
<1>14. BaselinesAreCurrent'
  BY <1>6, <1>7 DEF BaselinesAreCurrent
<1> QED BY <1>1, <1>5, <1>8, <1>10, <1>11, <1>12, <1>13, <1>14 DEF IInv

\* A loop is added, or one that was there starts afresh.
LEMMA LoopEditKeeps ==
  ASSUME IInv, Idle,
         UNCHANGED <<store, next_id, graph, bindings, samples, processing_up, task>>,
         DOMAIN registry \subseteq DOMAIN registry', DOMAIN registry' \subseteq Controllers,
         \A c \in DOMAIN registry' :
           \/ c \in DOMAIN registry /\ registry'[c] = registry[c]
           \/ /\ registry'[c] \in Loop /\ registry'[c].input < next_id
              /\ registry'[c].baseline = NoBaseline
  PROVE  IInv'
<1>1. \A c \in DOMAIN registry' :
        registry'[c] \in Loop /\ registry'[c].input < next_id
  BY DEF IInv, TypeOK, IdentitiesAreFresh
<1>2. TypeOK' BY <1>1 DEF IInv, TypeOK
<1>3. ~ Adding' BY DEF Idle, Adding
<1>4. IdentitiesAreFresh'
  BY <1>1, <1>3 DEF IInv, IdentitiesAreFresh, Adding
<1>5. StoreFollowsGraph' BY DEF IInv, StoreFollowsGraph, BeingAdded
<1>6. BindingsFollowRegistry' BY DEF IInv, BindingsFollowRegistry
<1>7. DoomedAreSafe'
  <2>1. Doomed' = {} BY DEF Doomed, Idle
  <2> QED BY <2>1 DEF IInv, DoomedAreSafe
<1>8. BaselinesAreCurrent' BY DEF IInv, BaselinesAreCurrent
<1> QED BY <1>2, <1>4, <1>5, <1>6, <1>7, <1>8 DEF IInv

\* A loop starts without a baseline.
LEMMA NoBaselineType == NoBaseline \in (0 .. MaxSignal) \X Nat
BY SignalGraphAssumption DEF NoBaseline

LEMMA AddControllerKeeps ==
  ASSUME IInv, NEW c \in Controllers, NEW input \in Signal, AddController(c, input)
  PROVE  IInv'
<1>1. /\ Idle /\ input < next_id /\ c \notin DOMAIN registry
      /\ UNCHANGED <<store, next_id, graph, bindings, samples, processing_up, task>>
  BY NamedIsOlder DEF AddController, IdByName
<1>2. /\ DOMAIN registry' = DOMAIN registry \cup {c} /\ registry'[c] = NewLoop(input)
      /\ \A k \in DOMAIN registry \ {c} : registry'[k] = registry[k]
  BY DEF AddController, With
<1>3. /\ NewLoop(input) \in Loop /\ NewLoop(input).input = input
      /\ NewLoop(input).baseline = NoBaseline
  BY NoBaselineType DEF NewLoop, Loop
<1>4. DOMAIN registry' \subseteq Controllers BY <1>2 DEF IInv, TypeOK
<1> QED BY <1>1, <1>2, <1>3, <1>4, LoopEditKeeps

\* One loop that exists is changed.
LEMMA SetLoopKeeps ==
  ASSUME IInv, Idle,
         UNCHANGED <<store, next_id, graph, bindings, samples, processing_up, task>>,
         NEW c \in DOMAIN registry, NEW loop, SetLoop(c, loop),
         \/ loop = registry[c]
         \/ loop \in Loop /\ loop.input < next_id /\ loop.baseline = NoBaseline
  PROVE  IInv'
<1>1. /\ DOMAIN registry' = DOMAIN registry /\ registry'[c] = loop
      /\ \A k \in DOMAIN registry \ {c} : registry'[k] = registry[k]
  BY DEF SetLoop
<1>2. DOMAIN registry' \subseteq Controllers BY <1>1 DEF IInv, TypeOK
<1> QED BY <1>1, <1>2, LoopEditKeeps

LEMMA SetControllerInputKeeps ==
  ASSUME IInv, NEW c \in Controllers, NEW input \in Signal, SetControllerInput(c, input)
  PROVE  IInv'
<1> DEFINE loop == Moved(registry[c], input)
<1>1. /\ Idle /\ input < next_id /\ c \in DOMAIN registry /\ SetLoop(c, loop)
      /\ UNCHANGED <<store, next_id, graph, bindings, samples, processing_up, task>>
  BY NamedIsOlder DEF SetControllerInput, IdByName
<1>2. registry[c] \in Loop BY <1>1 DEF IInv, TypeOK
<1>3. CASE registry[c].input # input
  <2>1. loop = [[registry[c] EXCEPT !.input = input] EXCEPT !.baseline = NoBaseline]
    BY <1>3 DEF Moved, Resynchronized
  <2>2. loop \in Loop /\ loop.input = input /\ loop.baseline = NoBaseline
    BY <2>1, <1>2, NoBaselineType DEF Loop
  <2> HIDE DEF loop
  <2> QED BY <1>1, <2>2, SetLoopKeeps
<1>4. CASE registry[c].input = input
  <2>1. loop = registry[c] BY <1>4 DEF Moved
  <2> HIDE DEF loop
  <2> QED BY <1>1, <2>1, SetLoopKeeps
<1> QED BY <1>3, <1>4

LEMMA ResumeControllerKeeps ==
  ASSUME IInv, NEW c \in Controllers, ResumeController(c)
  PROVE  IInv'
<1> DEFINE fresh == Resynchronized(registry[c])
           loop == [fresh EXCEPT !.state = "Running", !.safe = FALSE]
<1>1. /\ Idle /\ c \in DOMAIN registry /\ SetLoop(c, loop)
      /\ UNCHANGED <<store, next_id, graph, bindings, samples, processing_up, task>>
  BY DEF ResumeController
<1>2. registry[c] \in Loop /\ registry[c].input < next_id
  BY <1>1, NamedIsOlder DEF IInv, TypeOK
<1>3. fresh \in Loop /\ fresh.input = registry[c].input /\ fresh.baseline = NoBaseline
  BY <1>2, NoBaselineType DEF Loop, Resynchronized
<1> HIDE DEF fresh
<1>4. loop \in Loop /\ loop.input = registry[c].input /\ loop.baseline = NoBaseline
  BY <1>3 DEF Loop
<1> HIDE DEF loop
<1> QED BY <1>1, <1>2, <1>4, SetLoopKeeps

LEMMA RestartLoopKeeps ==
  ASSUME IInv, NEW c \in Controllers, RestartLoop(c)
  PROVE  IInv'
<1> DEFINE loop == Resynchronized(registry[c])
<1>1. /\ Idle /\ c \in DOMAIN registry /\ SetLoop(c, loop)
      /\ UNCHANGED <<store, next_id, graph, bindings, samples, processing_up, task>>
  BY DEF RestartLoop
<1>2. registry[c] \in Loop /\ registry[c].input < next_id
  BY <1>1, NamedIsOlder DEF IInv, TypeOK
<1>3. loop \in Loop /\ loop.input = registry[c].input /\ loop.baseline = NoBaseline
  BY <1>2, NoBaselineType DEF Loop, Resynchronized
<1> HIDE DEF loop
<1> QED BY <1>1, <1>2, <1>3, SetLoopKeeps

-----------------------------------------------------------------------------
(***************************************************************************)
(* The commands that pause loops before they remove them.                  *)
(***************************************************************************)
\* A command starts with every loop it is going to remove still to be paused.
LEMMA BeginKeeps ==
  ASSUME IInv,
         UNCHANGED <<store, next_id, graph, registry, bindings, samples, processing_up>>,
         Idle, task' \in TaskType, task'.removed = {},
         task'.operation \notin {"none", "AddFilter", "AddDiagnostic"},
         Doomed' \subseteq task'.todo
  PROVE  IInv'
<1>1. task.removed = {} /\ ~ Adding /\ BeingAdded = {}
  BY DEF Idle, Adding, BeingAdded, IInv, DoomedAreSafe
<1>2. ~ Adding' /\ BeingAdded' = {}
  BY DEF Adding, BeingAdded
<1>3. TypeOK' BY DEF IInv, TypeOK, TaskType
<1>4. IdentitiesAreFresh' BY <1>2 DEF IInv, IdentitiesAreFresh, Adding
<1>5. StoreFollowsGraph' BY <1>1, <1>2 DEF IInv, StoreFollowsGraph
<1>6. BindingsFollowRegistry' BY <1>1 DEF IInv, BindingsFollowRegistry
<1>7. DoomedAreSafe' BY DEF DoomedAreSafe
<1>8. BaselinesAreCurrent' BY DEF IInv, BaselinesAreCurrent
<1> QED BY <1>3, <1>4, <1>5, <1>6, <1>7, <1>8 DEF IInv

\* The loops named from any signals are loops that exist.
LEMMA NamesFromType ==
  ASSUME IInv, NEW signals
  PROVE  NamesFrom(signals) \subseteq Controllers
BY DEF NamesFrom, IInv, TypeOK

LEMMA BeginPausingKeeps ==
  ASSUME IInv, NEW operation, NEW signal \in 0 .. MaxSignal, NEW loops \in SUBSET Controllers,
         BeginPausing(operation, signal, loops),
         \/ operation = "Delete" /\ signal \in Signal
            /\ loops = ControllersAffectedByRemoval(signal)
         \/ operation = "Clear" /\ loops = DOMAIN registry
         \/ operation = "Pause"
  PROVE  IInv'
<1>1. /\ Idle
      /\ UNCHANGED <<store, next_id, graph, registry, bindings, samples, processing_up>>
  BY DEF BeginPausing
<1>2. task' = [operation |-> operation, signal |-> signal, controller |-> "",
               todo |-> loops, removed |-> {}]
  BY DEF BeginPausing, Task
<1>3. /\ task'.operation = operation /\ task'.signal = signal
      /\ task'.todo = loops /\ task'.removed = {}
  BY <1>2
<1>4. task' \in TaskType
  BY <1>2 DEF TaskType, Operation
<1>5. Doomed' \subseteq task'.todo
  <2>1. CASE operation = "Delete"
    <3>1. Doomed' = NamesFrom({signal} \cup RemovalSetFrom(graph, signal))
      BY <2>1, <1>1, <1>3 DEF Doomed, NamesFrom
    <3>2. loops = NamesFrom({signal} \cup RemovalSetFrom(graph, signal))
      BY <2>1 DEF ControllersAffectedByRemoval
    <3> QED BY <3>1, <3>2, <1>3
  <2>2. CASE operation = "Clear"
    <3>1. loops = DOMAIN registry BY <2>2
    <3>2. Doomed' = DOMAIN registry BY <2>2, <1>1, <1>3 DEF Doomed
    <3> QED BY <3>1, <3>2, <1>3
  <2>3. CASE operation = "Pause"
    BY <2>3, <1>3 DEF Doomed
  <2> QED BY <2>1, <2>2, <2>3
<1> QED BY <1>1, <1>3, <1>4, <1>5, BeginKeeps

LEMMA DeleteKeeps ==
  ASSUME IInv, NEW s \in Signal, Delete(s)
  PROVE  IInv'
<1>1. s \in 0 .. MaxSignal BY SignalGraphAssumption DEF Signal
<1>2. ControllersAffectedByRemoval(s) \in SUBSET Controllers
  BY NamesFromType DEF ControllersAffectedByRemoval
<1> QED BY <1>1, <1>2, BeginPausingKeeps DEF Delete

LEMMA ClearKeeps == IInv /\ Clear => IInv'
<1> SUFFICES ASSUME IInv, Clear PROVE IInv'
  OBVIOUS
<1>1. 0 \in 0 .. MaxSignal BY SignalGraphAssumption
<1>2. DOMAIN registry \in SUBSET Controllers BY DEF IInv, TypeOK
<1> QED BY <1>1, <1>2, BeginPausingKeeps DEF Clear

LEMMA PauseControllerKeeps ==
  ASSUME IInv, NEW c \in Controllers, PauseController(c)
  PROVE  IInv'
<1>1. 0 \in 0 .. MaxSignal BY SignalGraphAssumption
<1>2. {c} \in SUBSET Controllers OBVIOUS
<1> QED BY <1>1, <1>2, BeginPausingKeeps DEF PauseController

LEMMA RemoveControllerKeeps ==
  ASSUME IInv, NEW c \in Controllers, RemoveController(c)
  PROVE  IInv'
<1>1. /\ Idle
      /\ UNCHANGED <<store, next_id, graph, registry, bindings, samples, processing_up>>
  BY DEF RemoveController
<1>2. task' = [operation |-> "Remove", signal |-> 0, controller |-> c,
               todo |-> {c}, removed |-> {}]
  BY DEF RemoveController, Task
<1>3. /\ task'.operation = "Remove" /\ task'.controller = c
      /\ task'.todo = {c} /\ task'.removed = {}
  BY <1>2
<1>4. task' \in TaskType
  <2>1. 0 \in 0 .. MaxSignal BY SignalGraphAssumption
  <2>2. "Remove" \in Operation BY DEF Operation
  <2> QED BY <1>2, <2>1, <2>2 DEF TaskType
<1>5. Doomed' \subseteq task'.todo
  BY <1>3 DEF Doomed
<1> QED BY <1>1, <1>3, <1>4, <1>5, BeginKeeps

\* One of the loops is paused: with its safe value written and the command
\* going on, it is safe; otherwise the command ends.
LEMMA PauseNextKeeps == IInv /\ PauseNext => IInv'
<1> SUFFICES ASSUME IInv, PauseNext PROVE IInv'
  OBVIOUS
<1>1. UNCHANGED <<store, next_id, graph, bindings, samples, processing_up>>
  BY DEF PauseNext
<1>2. PICK c \in task.todo, written \in BOOLEAN :
        /\ task' = AfterPause(c, written)
        /\ IF processing_up
           THEN SetLoop(c, [registry[c] EXCEPT !.state = "Paused", !.safe = written])
           ELSE UNCHANGED registry
  BY DEF PauseNext
<1>3. ~ Adding /\ BeingAdded = {} /\ task.removed = {}
  BY <1>2 DEF IInv, DoomedAreSafe, Adding, BeingAdded
<1>4. DOMAIN registry' = DOMAIN registry
  BY <1>2 DEF SetLoop
<1>5. ASSUME NEW k \in DOMAIN registry
      PROVE  /\ registry'[k] \in Loop /\ registry'[k].input = registry[k].input
             /\ registry'[k].baseline = registry[k].baseline
             /\ k # c => registry'[k] = registry[k]
             /\ k = c /\ processing_up /\ written =>
                  registry'[k].state = "Paused" /\ registry'[k].safe
  <2>1. registry[k] \in Loop BY DEF IInv, TypeOK
  <2>2. CASE processing_up /\ k = c
    <3>1. registry'[k] = [registry[k] EXCEPT !.state = "Paused", !.safe = written]
      BY <1>2, <2>2 DEF SetLoop
    <3>2. /\ registry'[k] \in Loop /\ registry'[k].input = registry[k].input
          /\ registry'[k].baseline = registry[k].baseline
          /\ registry'[k].state = "Paused" /\ registry'[k].safe = written
      BY <2>1, <3>1 DEF Loop
    <3> QED BY <3>2, <2>2
  <2>3. CASE ~ (processing_up /\ k = c)
    <3>1. registry'[k] = registry[k] BY <1>2, <2>3 DEF SetLoop
    <3> QED BY <2>1, <2>3, <3>1
  <2> QED BY <2>2, <2>3
<1>6. CASE task' = NoTask
  <2>1. TypeOK' BY <1>1, <1>4, <1>5, <1>6, TaskEnds DEF IInv, TypeOK
  <2>2. IdentitiesAreFresh'
    BY <1>1, <1>4, <1>5, <1>6, TaskEnds DEF IInv, IdentitiesAreFresh
  <2>3. StoreFollowsGraph' BY <1>1, <1>3, <1>6, TaskEnds DEF IInv, StoreFollowsGraph
  <2>4. BindingsFollowRegistry'
    BY <1>1, <1>4, <1>6, TaskEnds DEF IInv, BindingsFollowRegistry
  <2>5. DoomedAreSafe' BY <1>6, TaskEnds DEF DoomedAreSafe
  <2>6. BaselinesAreCurrent' BY <1>1, <1>4, <1>5 DEF IInv, BaselinesAreCurrent
  <2> QED BY <1>1, <2>1, <2>2, <2>3, <2>4, <2>5, <2>6, <1>6, TaskEnds DEF IInv
<1>7. CASE task' # NoTask
  <2>1. processing_up /\ written /\ task' = [task EXCEPT !.todo = @ \ {c}]
    BY <1>2, <1>7 DEF AfterPause
  <2>2. /\ task'.operation = task.operation /\ task'.signal = task.signal
        /\ task'.controller = task.controller /\ task'.removed = task.removed
        /\ task'.todo = task.todo \ {c} /\ task' \in TaskType
    BY <2>1 DEF IInv, TaskType
  <2>3. TypeOK' BY <1>1, <1>4, <1>5, <2>2 DEF IInv, TypeOK
  <2>4. ~ Adding' /\ BeingAdded' = {}
    BY <1>3, <2>2 DEF Adding, BeingAdded
  <2>5. IdentitiesAreFresh'
    BY <1>1, <1>4, <1>5, <2>4 DEF IInv, IdentitiesAreFresh, Adding
  <2>6. StoreFollowsGraph' BY <1>1, <1>3, <2>2, <2>4 DEF IInv, StoreFollowsGraph
  <2>7. BindingsFollowRegistry' BY <1>1, <1>4, <2>2 DEF IInv, BindingsFollowRegistry
  <2>8. DoomedAreSafe'
    <3>1. Doomed' = Doomed
      <4>1. \A signals : NamesFrom(signals)' = NamesFrom(signals)
        BY <1>4, <1>5 DEF NamesFrom
      <4> QED BY <4>1, <1>1, <1>4, <2>2 DEF Doomed, NamesFrom
    <3>2. ASSUME NEW k \in Doomed', k \notin task'.todo PROVE Safe(k)'
      <4>1. CASE k = c
        <5>1. c \in DOMAIN registry
          BY <3>1, <3>2, <4>1 DEF Doomed, NamesFrom
        <5> QED BY <5>1, <4>1, <1>5, <2>1 DEF Safe
      <4>2. CASE k # c
        <5>1. k \in DOMAIN registry /\ Safe(k)
          BY <3>1, <3>2, <4>2, <2>2 DEF Doomed, NamesFrom, IInv, DoomedAreSafe
        <5> QED BY <5>1, <4>2, <1>5 DEF Safe
      <4> QED BY <4>1, <4>2
    <3>3. task'.operation \in {"none", "AddFilter", "AddDiagnostic"} => task'.todo = {}
      BY <2>2 DEF IInv, DoomedAreSafe
    <3> QED BY <3>2, <3>3, <1>3, <2>2 DEF DoomedAreSafe
  <2>9. BaselinesAreCurrent' BY <1>1, <1>4, <1>5 DEF IInv, BaselinesAreCurrent
  <2> QED BY <1>1, <2>2, <2>3, <2>5, <2>6, <2>7, <2>8, <2>9 DEF IInv
<1> QED BY <1>6, <1>7

\* The processing thread drops a branch: what is left is consistent, and the
\* series of what it dropped are still to be removed.
LEMMA RemoveBranchKeeps == IInv /\ RemoveBranch => IInv'
<1> SUFFICES ASSUME IInv, RemoveBranch PROVE IInv'
  OBVIOUS
<1> USE SignalGraphAssumption
<1> DEFINE s == task.signal
           removed == RemovalSetFrom(graph, s)
           loops == NamesFrom({s} \cup removed)
           silenced == {b \in bindings : b.controller \in loops}
           gone == {s} \cup removed \cup {b.output : b \in silenced}
<1>1. /\ task.operation = "Delete" /\ task.todo = {} /\ task.removed = {}
      /\ UNCHANGED <<store, next_id, samples, processing_up>>
  BY DEF RemoveBranch, AllPaused
<1>2. ~ Adding /\ BeingAdded = {}
  BY <1>1 DEF Adding, BeingAdded
<1>3. CASE task' = NoTask /\ UNCHANGED <<graph, registry, bindings>>
  <2>1. TypeOK' BY <1>1, <1>3, TaskEnds DEF IInv, TypeOK
  <2>2. IdentitiesAreFresh' BY <1>1, <1>3, TaskEnds DEF IInv, IdentitiesAreFresh
  <2>3. StoreFollowsGraph' BY <1>1, <1>2, <1>3, TaskEnds DEF IInv, StoreFollowsGraph
  <2>4. BindingsFollowRegistry'
    BY <1>1, <1>3, TaskEnds DEF IInv, BindingsFollowRegistry
  <2>5. DoomedAreSafe' BY <1>3, TaskEnds DEF DoomedAreSafe
  <2>6. BaselinesAreCurrent' BY <1>1, <1>3 DEF IInv, BaselinesAreCurrent
  <2> QED BY <1>1, <1>3, <2>1, <2>2, <2>3, <2>4, <2>5, <2>6, TaskEnds DEF IInv
<1>4. CASE /\ graph' = RemoveFrom(graph, s)
           /\ registry' = Without(registry, loops)
           /\ bindings' = {b \in bindings : b.output # s} \ silenced
           /\ task' = [task EXCEPT !.removed = gone]
  <2>1. Ordered(graph) /\ HistoriesAreCurrent(graph)
    BY DEF IInv
  <2>2. /\ Outputs(graph') = Outputs(graph) \ removed
        /\ \A o \in Outputs(graph') : graph'[o] = graph[o]
        /\ Ordered(graph') /\ HistoriesAreCurrent(graph')
        /\ \A k \in (0 .. MaxSignal) \ removed : Stamps(graph')[k] = Stamps(graph)[k]
        /\ RemovalSetFrom(graph', s) = {}
    <3> DEFINE h == RemoveFrom(graph, s)
    <3> HIDE DEF h, s
    <3>1. /\ Outputs(h) = Outputs(graph) \ removed
          /\ \A o \in Outputs(h) : h[o] = graph[o]
          /\ Ordered(h) /\ HistoriesAreCurrent(h)
          /\ \A k \in (0 .. MaxSignal) \ removed : Stamps(h)[k] = Stamps(graph)[k]
          /\ RemovalSetFrom(h, s) = {}
      BY <2>1, RemoveFromKeeps DEF h
    <3>2. graph' = h BY <1>4 DEF h
    <3> QED BY <3>1, <3>2
  <2>3. removed \subseteq Outputs(graph)
    BY ReachOfOutputs DEF RemovalSetFrom
  <2>4. /\ DOMAIN registry' = DOMAIN registry \ loops
        /\ \A c \in DOMAIN registry' : registry'[c] = registry[c]
    BY <1>4 DEF Without
  <2>5. \A c \in DOMAIN registry : c \in loops <=> registry[c].input \in {s} \cup removed
    BY DEF NamesFrom
  <2>6. s \in Outputs(graph) => s \in removed
    BY DEF RemovalSetFrom
  <2>7. \A b \in bindings :
          /\ b.controller \in DOMAIN registry
          /\ b.output \in DOMAIN store /\ store[b.output].source # "Filtered"
          /\ \A a \in bindings : a.output = b.output => a = b
    BY DEF IInv, BindingsFollowRegistry
  <2>8. gone \subseteq Signal
    <3>1. s \in Signal
      BY <1>1 DEF IInv, TaskType
    <3>2. removed \subseteq Signal BY <2>1, <2>3 DEF Ordered
    <3>3. \A b \in bindings : b.output \in Signal
      BY DEF IInv, TypeOK, Binding
    <3> QED BY <3>1, <3>2, <3>3
  <2>9. \A o \in Outputs(graph) :
          /\ o \in DOMAIN store /\ store[o].source = "Filtered"
          /\ store[o].input = graph[o].input /\ store[o].kind = graph[o].kind
    BY DEF IInv, StoreFollowsGraph
  <2>10. gone \cap Outputs(graph) = removed
    BY <2>3, <2>6, <2>7, <2>9
  <2>11. /\ task'.operation = "Delete" /\ task'.signal = s /\ task'.todo = {}
         /\ task'.removed = gone /\ task' \in TaskType
    <3> HIDE DEF gone
    <3> QED BY <1>1, <1>4, <2>8 DEF IInv, TaskType
  <2> HIDE DEF gone, removed, loops
  <2>12. TypeOK'
    <3>1. DOMAIN graph' \subseteq Signal /\ \A o \in DOMAIN graph' : graph'[o] \in Node
      BY <2>2 DEF Ordered, Outputs
    <3>2. bindings' \subseteq bindings BY <1>4
    <3>3. task'.operation \in Operation /\ task'.todo \subseteq Controllers
          /\ task'.removed \subseteq Signal
      BY <2>11 DEF TaskType
    <3> QED BY <1>1, <2>4, <3>1, <3>2, <3>3 DEF IInv, TypeOK
  <2>13. ~ Adding' /\ BeingAdded' = {}
    BY <2>11 DEF Adding, BeingAdded
  <2>14. IdentitiesAreFresh'
    BY <1>1, <2>4, <2>13 DEF IInv, IdentitiesAreFresh, Adding
  <2>15. StoreFollowsGraph'
    <3>1. ASSUME NEW o \in Outputs(graph')
          PROVE  /\ o \in DOMAIN store' /\ o \notin task'.removed
                 /\ store'[o].source = "Filtered"
                 /\ store'[o].input = graph'[o].input
                 /\ store'[o].kind = graph'[o].kind
      BY <1>1, <2>2, <2>9, <2>10, <2>11
    <3>2. ASSUME NEW o \in DOMAIN store', store'[o].source = "Filtered"
          PROVE  o \in Outputs(graph') \cup BeingAdded' \cup task'.removed
      <4>1. o \in Outputs(graph)
        BY <3>2, <1>1, <1>2 DEF IInv, StoreFollowsGraph
      <4> QED BY <4>1, <2>2, <2>10, <2>11
    <3> QED BY <3>1, <3>2 DEF StoreFollowsGraph
  <2>16. BindingsFollowRegistry'
    <3> SUFFICES ASSUME NEW b \in bindings'
                 PROVE  /\ b.controller \in DOMAIN registry'
                        /\ b.output \in DOMAIN store /\ b.output \notin gone
                        /\ store[b.output].source # "Filtered"
                        /\ \A a \in bindings' : a.output = b.output => a = b
      BY <1>1, <2>11 DEF BindingsFollowRegistry
    <3>1. b \in bindings /\ b.output # s /\ b.controller \notin loops
      BY <1>4
    <3>2. \A a \in silenced : a.output # b.output
      BY <3>1, <2>7
    <3>3. b.output \notin removed
      BY <3>1, <2>3, <2>7, <2>9
    <3>4. b.output \notin gone
      BY <3>1, <3>2, <3>3 DEF gone
    <3> QED BY <3>1, <3>4, <2>4, <2>7, <1>4
  <2>17. DoomedAreSafe'
    <3>1. Doomed' = NamesFrom({s})'
      BY <2>2, <2>11 DEF Doomed
    <3>2. NamesFrom({s})' = {}
      BY <2>4, <2>5, <2>11 DEF NamesFrom
    <3> QED BY <3>1, <3>2, <2>11 DEF DoomedAreSafe
  <2>18. BaselinesAreCurrent'
    <3> SUFFICES ASSUME NEW c \in DOMAIN registry'
                 PROVE  registry'[c].baseline
                          \in {NoBaseline, <<registry'[c].input,
                                             Stamps(graph')[registry'[c].input]>>}
      BY DEF BaselinesAreCurrent
    <3>1. c \in DOMAIN registry /\ registry'[c] = registry[c] /\ c \notin loops
      BY <2>4
    <3>2. registry[c].input \in (0 .. MaxSignal) \ removed
      BY <3>1, <2>5, NamedIsOlder
    <3>3. Stamps(graph')[registry[c].input] = Stamps(graph)[registry[c].input]
      BY <3>2, <2>2
    <3> QED BY <3>1, <3>3 DEF IInv, BaselinesAreCurrent
  <2> QED BY <2>2, <2>11, <2>12, <2>14, <2>15, <2>16, <2>17, <2>18 DEF IInv
<1> QED BY <1>3, <1>4 DEF RemoveBranch

\* The series of what was dropped follow.
LEMMA RemoveSeriesOfBranchKeeps == IInv /\ RemoveSeriesOfBranch => IInv'
<1> SUFFICES ASSUME IInv, RemoveSeriesOfBranch PROVE IInv'
  OBVIOUS
<1>1. /\ task.removed # {} /\ task' = NoTask
      /\ UNCHANGED <<next_id, graph, registry, bindings, samples, processing_up>>
      /\ DOMAIN store' = DOMAIN store \ task.removed
      /\ \A s \in DOMAIN store' : store'[s] = store[s]
  BY DEF RemoveSeriesOfBranch, RemoveSeries, Forgotten, Without
<1>2. ~ Adding /\ BeingAdded = {}
  BY <1>1 DEF Adding, BeingAdded, IInv, DoomedAreSafe
<1>3. TypeOK' BY <1>1, TaskEnds DEF IInv, TypeOK
<1>4. IdentitiesAreFresh' BY <1>1, TaskEnds DEF IInv, IdentitiesAreFresh
<1>5. StoreFollowsGraph' BY <1>1, <1>2, TaskEnds DEF IInv, StoreFollowsGraph
<1>6. BindingsFollowRegistry'
  BY <1>1, TaskEnds DEF IInv, BindingsFollowRegistry
<1>7. DoomedAreSafe' BY <1>1, TaskEnds DEF DoomedAreSafe
<1>8. BaselinesAreCurrent' BY <1>1 DEF IInv, BaselinesAreCurrent
<1> QED BY <1>1, <1>3, <1>4, <1>5, <1>6, <1>7, <1>8, TaskEnds DEF IInv

\* Everything goes at once, or nothing does.
LEMMA ClearProcessingKeeps == IInv /\ ClearProcessing => IInv'
<1> SUFFICES ASSUME IInv, ClearProcessing PROVE IInv'
  OBVIOUS
<1>1. /\ task.operation = "Clear" /\ task.removed = {} /\ task' = NoTask
      /\ UNCHANGED <<next_id, samples, processing_up>>
  BY DEF ClearProcessing, AllPaused
<1>2. BeingAdded = {}
  BY <1>1 DEF BeingAdded
<1>3. CASE UNCHANGED <<store, graph, registry, bindings>>
  <2>1. TypeOK' BY <1>1, <1>3, TaskEnds DEF IInv, TypeOK
  <2>2. IdentitiesAreFresh' BY <1>1, <1>3, TaskEnds DEF IInv, IdentitiesAreFresh
  <2>3. StoreFollowsGraph' BY <1>1, <1>2, <1>3, TaskEnds DEF IInv, StoreFollowsGraph
  <2>4. BindingsFollowRegistry'
    BY <1>1, <1>3, TaskEnds DEF IInv, BindingsFollowRegistry
  <2>5. DoomedAreSafe' BY <1>1, TaskEnds DEF DoomedAreSafe
  <2>6. BaselinesAreCurrent' BY <1>3 DEF IInv, BaselinesAreCurrent
  <2> QED BY <1>1, <1>3, <2>1, <2>2, <2>3, <2>4, <2>5, <2>6, TaskEnds DEF IInv
<1>4. CASE /\ graph' = EmptyGraph /\ registry' = Without(registry, DOMAIN registry)
           /\ bindings' = {} /\ store' = Without(store, DOMAIN store)
  <2>1. /\ Outputs(graph') = {} /\ DOMAIN graph' = {}
        /\ DOMAIN registry' = {} /\ DOMAIN store' = {}
    BY <1>4 DEF EmptyGraph, Outputs, Without
  <2>2. TypeOK' BY <1>1, <1>4, <2>1, TaskEnds DEF IInv, TypeOK
  <2>3. IdentitiesAreFresh' BY <1>1, <2>1, TaskEnds DEF IdentitiesAreFresh
  <2>4. StoreFollowsGraph' BY <2>1 DEF StoreFollowsGraph
  <2>5. BindingsFollowRegistry' BY <1>4 DEF BindingsFollowRegistry
  <2>6. DoomedAreSafe' BY <1>1, TaskEnds DEF DoomedAreSafe
  <2>7. Ordered(graph') BY <2>1 DEF Ordered
  <2>8. HistoriesAreCurrent(graph') BY <2>1 DEF HistoriesAreCurrent
  <2>9. BaselinesAreCurrent' BY <2>1 DEF BaselinesAreCurrent
  <2> QED BY <1>1, <2>2, <2>3, <2>4, <2>5, <2>6, <2>7, <2>8, <2>9, TaskEnds DEF IInv
<1> QED BY <1>3, <1>4 DEF ClearProcessing

\* One loop goes with its diagnostics; their series stay.
LEMMA DetachLoopKeeps == IInv /\ DetachLoop => IInv'
<1> SUFFICES ASSUME IInv, DetachLoop PROVE IInv'
  OBVIOUS
<1> DEFINE c == task.controller
<1>1. /\ task.operation = "Remove" /\ task.removed = {} /\ task' = NoTask
      /\ UNCHANGED <<store, next_id, graph, samples, processing_up>>
  BY DEF DetachLoop, AllPaused
<1>2. BeingAdded = {}
  BY <1>1 DEF BeingAdded
<1>3. /\ DOMAIN registry' \subseteq DOMAIN registry /\ bindings' \subseteq bindings
      /\ \A k \in DOMAIN registry' : registry'[k] = registry[k]
      /\ \A b \in bindings' : b.controller \in DOMAIN registry => b.controller \in DOMAIN registry'
  <2>1. CASE registry' = Without(registry, {c}) /\ bindings' = Unbound(c)
    BY <2>1 DEF Without, Unbound
  <2>2. CASE UNCHANGED <<registry, bindings>>
    BY <2>2
  <2> QED BY <2>1, <2>2 DEF DetachLoop
<1>4. TypeOK' BY <1>1, <1>3, TaskEnds DEF IInv, TypeOK
<1>5. IdentitiesAreFresh' BY <1>1, <1>3, TaskEnds DEF IInv, IdentitiesAreFresh
<1>6. StoreFollowsGraph' BY <1>1, <1>2, TaskEnds DEF IInv, StoreFollowsGraph
<1>7. BindingsFollowRegistry'
  BY <1>1, <1>3, TaskEnds DEF IInv, BindingsFollowRegistry
<1>8. DoomedAreSafe' BY <1>1, TaskEnds DEF DoomedAreSafe
<1>9. BaselinesAreCurrent' BY <1>1, <1>3 DEF IInv, BaselinesAreCurrent
<1> QED BY <1>1, <1>4, <1>5, <1>6, <1>7, <1>8, <1>9, TaskEnds DEF IInv

-----------------------------------------------------------------------------
(***************************************************************************)
(* Samples.                                                                *)
(***************************************************************************)
\* Nothing but the waiting samples and the processing thread's being there.
LEMMA QuietKeeps ==
  ASSUME IInv, UNCHANGED <<store, next_id, graph, registry, bindings, task>>,
         samples' \in Seq(Signal), processing_up' \in BOOLEAN
  PROVE  IInv'
<1>1. TypeOK' BY DEF IInv, TypeOK
<1>2. IdentitiesAreFresh' BY DEF IInv, IdentitiesAreFresh, Adding
<1>3. StoreFollowsGraph' BY DEF IInv, StoreFollowsGraph, BeingAdded
<1>4. BindingsFollowRegistry' BY DEF IInv, BindingsFollowRegistry
<1>5. DoomedAreSafe' BY DEF IInv, DoomedAreSafe, Doomed, NamesFrom, Safe
<1>6. BaselinesAreCurrent' BY DEF IInv, BaselinesAreCurrent
<1> QED BY <1>1, <1>2, <1>3, <1>4, <1>5, <1>6 DEF IInv

LEMMA SampleKeeps ==
  ASSUME IInv, NEW s \in Signal, Sample(s)
  PROVE  IInv'
<1>1. samples' = Append(samples, s) /\ processing_up' = processing_up
      /\ UNCHANGED <<store, next_id, graph, registry, bindings, task>>
  BY DEF Sample
<1>2. samples \in Seq(Signal) /\ processing_up \in BOOLEAN BY DEF IInv, TypeOK
<1> QED BY <1>1, <1>2, QuietKeeps

LEMMA ProcessingEndsKeeps == IInv /\ ProcessingEnds => IInv'
<1> SUFFICES ASSUME IInv, ProcessingEnds PROVE IInv'
  OBVIOUS
<1>1. samples' = samples /\ processing_up' \in BOOLEAN
      /\ UNCHANGED <<store, next_id, graph, registry, bindings, task>>
  BY DEF ProcessingEnds
<1>2. samples \in Seq(Signal) BY DEF IInv, TypeOK
<1> QED BY <1>1, <1>2, QuietKeeps

\* A sample passes through some outputs and is seen by the loops on some
\* signals: the stamps are those of before, in histories and baselines alike,
\* and a loop that is paused sees nothing.
LEMMA PassingKeeps ==
  ASSUME IInv, TakeSample, NEW s, NEW done, graph' = Pass(graph, s, done),
         NEW signals, registry' = Computed(signals),
         UNCHANGED <<store, next_id, bindings, processing_up, task>>
  PROVE  IInv'
<1>1. samples' \in Seq(Signal)
  BY DEF TakeSample, IInv, TypeOK
<1>2. /\ Outputs(graph') = Outputs(graph)
      /\ \A o \in Outputs(graph) :
           graph'[o].input = graph[o].input /\ graph'[o].kind = graph[o].kind
      /\ Ordered(graph') /\ HistoriesAreCurrent(graph')
      /\ \A k \in 0 .. MaxSignal : Stamps(graph')[k] = Stamps(graph)[k]
      /\ \A x : Reach(graph', x) = Reach(graph, x)
  <2> DEFINE h == Pass(graph, s, done)
  <2> HIDE DEF h
  <2>1. Ordered(graph) /\ HistoriesAreCurrent(graph) BY DEF IInv
  <2>2. /\ Outputs(h) = Outputs(graph)
        /\ \A o \in Outputs(graph) : SameFilter(h[o], graph[o])
        /\ Ordered(h) /\ HistoriesAreCurrent(h)
        /\ \A k \in 0 .. MaxSignal : Stamps(h)[k] = Stamps(graph)[k]
        /\ \A x : Reach(h, x) = Reach(graph, x)
    BY <2>1, PassKeeps DEF h
  <2>3. graph' = h BY DEF h
  <2> QED BY <2>2, <2>3 DEF SameFilter
<1>3. DOMAIN registry' = DOMAIN registry
  BY DEF Computed
<1>4. ASSUME NEW c \in DOMAIN registry
      PROVE  /\ registry'[c] \in Loop /\ registry'[c].input = registry[c].input
             /\ registry'[c].baseline
                  \in {NoBaseline, <<registry[c].input, Stamps(graph')[registry[c].input]>>}
             /\ registry[c].state = "Paused" => registry'[c] = registry[c]
  <2> DEFINE k == registry[c].input
             seen == <<k, Stamps(graph)[k]>>
  <2>1. registry[c] \in Loop /\ k \in 0 .. MaxSignal
    BY NamedIsOlder DEF IInv, TypeOK
  <2>2. Stamps(graph')[k] = Stamps(graph)[k] BY <2>1, <1>2
  <2>3. CASE registry[c].state = "Running" /\ k \in signals
    <3>1. registry'[c] = [registry[c] EXCEPT !.safe = FALSE, !.baseline = seen]
      BY <2>3 DEF Computed
    <3>2. seen \in (0 .. MaxSignal) \X Nat
      BY <2>1, StampsType DEF IInv
    <3> HIDE DEF seen
    <3>3. /\ registry'[c] \in Loop /\ registry'[c].input = k
          /\ registry'[c].baseline = seen
      BY <2>1, <3>1, <3>2 DEF Loop
    <3> QED BY <3>3, <2>2, <2>3 DEF seen
  <2>4. CASE ~ (registry[c].state = "Running" /\ k \in signals)
    <3>1. registry'[c] = registry[c] BY <2>4 DEF Computed
    <3> QED BY <3>1, <2>1, <2>2 DEF IInv, BaselinesAreCurrent
  <2> QED BY <2>3, <2>4
<1>5. TypeOK'
  <2>1. DOMAIN graph' \subseteq Signal /\ \A o \in DOMAIN graph' : graph'[o] \in Node
    BY <1>2 DEF Ordered, Outputs
  <2> QED BY <1>1, <1>3, <1>4, <2>1 DEF IInv, TypeOK
<1>6. IdentitiesAreFresh'
  BY <1>2, <1>3, <1>4 DEF IInv, IdentitiesAreFresh, Adding
<1>7. StoreFollowsGraph'
  BY <1>2 DEF IInv, StoreFollowsGraph, BeingAdded
<1>8. BindingsFollowRegistry'
  BY <1>3 DEF IInv, BindingsFollowRegistry
<1>9. DoomedAreSafe'
  <2>1. \A x : RemovalSetFrom(graph', x) = RemovalSetFrom(graph, x)
    BY <1>2 DEF RemovalSetFrom
  <2>2. Doomed' = Doomed
    BY <2>1, <1>3, <1>4 DEF Doomed, NamesFrom
  <2>3. \A c \in Doomed : c \in DOMAIN registry
    BY DEF Doomed, NamesFrom
  <2>4. \A c \in DOMAIN registry : Safe(c) => Safe(c)'
    BY <1>4 DEF Safe
  <2> QED BY <2>2, <2>3, <2>4 DEF IInv, DoomedAreSafe
<1>10. BaselinesAreCurrent'
  BY <1>3, <1>4 DEF BaselinesAreCurrent
<1> QED BY <1>2, <1>5, <1>6, <1>7, <1>8, <1>9, <1>10 DEF IInv

LEMMA ProcessKeeps == IInv /\ Process => IInv'
BY PassingKeeps DEF Process

LEMMA ProcessFailsKeeps == IInv /\ ProcessFails => IInv'
<1> SUFFICES ASSUME IInv, ProcessFails PROVE IInv'
  OBVIOUS
<1>1. PICK done \in Interrupted(graph, Head(samples)) :
        graph' = Pass(graph, Head(samples), done)
  BY DEF ProcessFails
<1> QED BY <1>1, PassingKeeps DEF ProcessFails

-----------------------------------------------------------------------------
(***************************************************************************)
(* The theorems.                                                           *)
(***************************************************************************)
\* Every step keeps the inductive invariant.
LEMMA StepKeeps == IInv /\ [Next]_vars => IInv'
<1> SUFFICES ASSUME IInv, [Next]_vars PROVE IInv'
  OBVIOUS
<1>1. CASE UNCHANGED vars
  BY <1>1, QuietKeeps DEF vars, IInv, TypeOK
<1>2. CASE AddRaw BY <1>2, AddRawKeeps
<1>3. ASSUME NEW s \in Signal, NEW kind \in FilterKind,
             BeginAddFilter(s, kind) \/ SetFilter(s, kind)
      PROVE  IInv'
  BY <1>3, BeginAddFilterKeeps, SetFilterKeeps
<1>4. CASE InstallFilter BY <1>4, InstallFilterKeeps
<1>5. ASSUME NEW c \in Controllers, NEW s \in Signal,
             AddController(c, s) \/ SetControllerInput(c, s)
      PROVE  IInv'
  BY <1>5, AddControllerKeeps, SetControllerInputKeeps
<1>6. ASSUME NEW c \in Controllers,
             \/ ResumeController(c)
             \/ RestartLoop(c)
             \/ BeginAddDiagnostic(c)
             \/ RemoveController(c)
             \/ PauseController(c)
      PROVE  IInv'
  BY <1>6, ResumeControllerKeeps, RestartLoopKeeps, BeginAddDiagnosticKeeps,
     RemoveControllerKeeps, PauseControllerKeeps
<1>7. CASE InstallDiagnostic BY <1>7, InstallDiagnosticKeeps
<1>8. ASSUME NEW s \in Signal, Delete(s) PROVE IInv'
  BY <1>8, DeleteKeeps
<1>9. CASE Clear BY <1>9, ClearKeeps
<1>10. CASE PauseNext BY <1>10, PauseNextKeeps
<1>11. CASE RemoveBranch BY <1>11, RemoveBranchKeeps
<1>12. CASE RemoveSeriesOfBranch BY <1>12, RemoveSeriesOfBranchKeeps
<1>13. CASE ClearProcessing BY <1>13, ClearProcessingKeeps
<1>14. CASE DetachLoop BY <1>14, DetachLoopKeeps
<1>15. ASSUME NEW s \in Signal, Sample(s) PROVE IInv'
  BY <1>15, SampleKeeps
<1>16. CASE Process BY <1>16, ProcessKeeps
<1>17. CASE ProcessFails BY <1>17, ProcessFailsKeeps
<1>18. CASE ProcessingEnds BY <1>18, ProcessingEndsKeeps
<1> QED
  BY <1>1, <1>2, <1>3, <1>4, <1>5, <1>6, <1>7, <1>8, <1>9, <1>10, <1>11, <1>12,
     <1>13, <1>14, <1>15, <1>16, <1>17, <1>18 DEF Next

\* The inductive invariant always holds.
LEMMA Invariance == Spec => []IInv
<1>1. Init => IInv BY InitKeeps
<1>2. IInv /\ [Next]_vars => IInv' BY StepKeeps
<1> QED BY <1>1, <1>2, PTL DEF Spec

\* The state always has its types, whatever is added, replaced or deleted.
THEOREM TypeCorrect == Spec => []TypeOK
<1>1. IInv => TypeOK BY DEF IInv
<1> QED BY <1>1, Invariance, PTL

\* No filter's window and no loop's derivative ever spans a replacement of a
\* filter it depends on, for any graph the commands can build: what a reset
\* reaches is all that is downstream (ReplaceFilterKeeps), and what a removal
\* or an addition leaves has kept all that feeds it.
THEOREM NothingEverSpansAReplacement == Spec => []NothingSpansAReplacement
<1>1. IInv => NothingSpansAReplacement
  BY DEF IInv, BaselinesAreCurrent, NothingSpansAReplacement
<1> QED BY <1>1, Invariance, PTL

\* Between commands the store and the processing thread describe the same
\* filters, and every diagnostic has a loop and a series.
THEOREM StoreAlwaysMatchesGraph == Spec => []StoreMatchesGraph
<1>1. ASSUME IInv, Idle PROVE FiltersAreInStore /\ BindingsAreLive
  <2>1. task.removed = {} /\ BeingAdded = {}
    BY <1>1 DEF Idle, BeingAdded, IInv, DoomedAreSafe
  <2>2. {s \in DOMAIN store : store[s].source = "Filtered"} = Outputs(graph)
    BY <1>1, <2>1 DEF IInv, StoreFollowsGraph
  <2>3. \A s \in Outputs(graph) :
          store[s].input = graph[s].input /\ store[s].kind = graph[s].kind
    BY <1>1 DEF IInv, StoreFollowsGraph
  <2>4. BindingsAreLive
    BY <1>1 DEF IInv, BindingsFollowRegistry, BindingsAreLive
  <2> QED BY <2>2, <2>3, <2>4 DEF FiltersAreInStore
<1>2. IInv => StoreMatchesGraph
  BY <1>1 DEF StoreMatchesGraph
<1> QED BY <1>2, Invariance, PTL

\* A loop that goes was paused with its safe value confirmed: what the preview
\* of a removal named is what the processing thread then removes, although
\* samples were processed in between.
RemovesSafeLoops == \A c \in DOMAIN registry \ DOMAIN registry' : Safe(c)

LEMMA RemovalIsSafe == IInv /\ [Next]_vars => [RemovesSafeLoops]_vars
<1> SUFFICES ASSUME IInv, Next, NEW c \in DOMAIN registry \ DOMAIN registry' PROVE Safe(c)
  BY DEF RemovesSafeLoops
<1>1. c \in DOMAIN registry /\ c \notin DOMAIN registry' OBVIOUS
<1>2. c \in Doomed /\ task.todo = {}
  <2>1. CASE RemoveBranch
    BY <1>1, <2>1 DEF RemoveBranch, AllPaused, Without, Doomed
  <2>2. CASE ClearProcessing
    BY <1>1, <2>2 DEF ClearProcessing, AllPaused, Doomed
  <2>3. CASE DetachLoop
    BY <1>1, <2>3 DEF DetachLoop, AllPaused, Without, Doomed
  <2>4. ASSUME DOMAIN registry \subseteq DOMAIN registry' PROVE FALSE
    BY <1>1, <2>4
  <2>5. CASE AddRaw BY <2>4, <2>5 DEF AddRaw
  <2>6. ASSUME NEW s \in Signal, NEW kind \in FilterKind,
               BeginAddFilter(s, kind) \/ SetFilter(s, kind)
        PROVE  FALSE
    BY <2>4, <2>6 DEF BeginAddFilter, SetFilter, ReplacedLoops, ResynchronizeFrom
  <2>7. CASE InstallFilter BY <2>4, <2>7 DEF InstallFilter
  <2>8. ASSUME NEW k \in Controllers, NEW s \in Signal,
               AddController(k, s) \/ SetControllerInput(k, s)
        PROVE  FALSE
    BY <2>4, <2>8 DEF AddController, SetControllerInput, With, SetLoop
  <2>9. ASSUME NEW k \in Controllers,
               \/ ResumeController(k)
               \/ RestartLoop(k)
               \/ BeginAddDiagnostic(k)
               \/ RemoveController(k)
               \/ PauseController(k)
        PROVE  FALSE
    BY <2>4, <2>9 DEF ResumeController, RestartLoop, BeginAddDiagnostic,
       RemoveController, PauseController, BeginPausing, SetLoop
  <2>10. CASE InstallDiagnostic BY <2>4, <2>10 DEF InstallDiagnostic
  <2>11. ASSUME NEW s \in Signal, Delete(s) PROVE FALSE
    BY <2>4, <2>11 DEF Delete, BeginPausing
  <2>12. CASE Clear BY <2>4, <2>12 DEF Clear, BeginPausing
  <2>13. CASE PauseNext BY <2>4, <2>13 DEF PauseNext, SetLoop
  <2>14. CASE RemoveSeriesOfBranch BY <2>4, <2>14 DEF RemoveSeriesOfBranch
  <2>15. ASSUME NEW s \in Signal, Sample(s) PROVE FALSE
    BY <2>4, <2>15 DEF Sample
  <2>16. CASE Process BY <2>4, <2>16 DEF Process, Computed
  <2>17. CASE ProcessFails BY <2>4, <2>17 DEF ProcessFails, Computed
  <2>18. CASE ProcessingEnds BY <2>4, <2>18 DEF ProcessingEnds
  <2> QED
    BY <2>1, <2>2, <2>3, <2>5, <2>6, <2>7, <2>8, <2>9, <2>10, <2>11, <2>12,
       <2>13, <2>14, <2>15, <2>16, <2>17, <2>18 DEF Next
<1> QED BY <1>2 DEF IInv, DoomedAreSafe

\* A loop is removed only while it is paused with its safe value confirmed.
THEOREM OnlySafeLoopsAreEverRemoved == Spec => OnlySafeLoopsAreRemoved
<1>1. OnlySafeLoopsAreRemoved <=> [][RemovesSafeLoops]_vars
  BY DEF OnlySafeLoopsAreRemoved, RemovesSafeLoops, Safe
<1>2. IInv /\ [Next]_vars => [RemovesSafeLoops]_vars BY RemovalIsSafe
<1> HIDE DEF RemovesSafeLoops
<1> QED BY <1>1, <1>2, Invariance, PTL DEF Spec

=============================================================================

--------------------------- MODULE OutboundProofs ---------------------------
(***************************************************************************)
(* Proofs about OutboundManager and RoutedConnection, for any handlers,    *)
(* routings and numbers of goroutines.                                     *)
(*                                                                         *)
(* The first part is about the graphs of LoopGraph.  With fewer handlers   *)
(* there are fewer loops; and what a connection goes through, level by     *)
(* level and outbound by outbound, is a walk in the graphs, so that a walk *)
(* that comes back is a cycle.                                             *)
(*                                                                         *)
(* OutboundManager: a check and the publication of what it has checked are *)
(* apart, but what may come between them only takes handlers out of the    *)
(* registry.  The holder of the graph mutex has still checked what it      *)
(* publishes.                                                              *)
(*                                                                         *)
(* RoutedConnection: the loopbacks that a connection has passed lead to    *)
(* one another and to where it is now.  If it came to one of them again    *)
(* they would be a cycle, which the check refuses.                         *)
(***************************************************************************)
EXTENDS OutboundManager, RoutedConnection, TLAPS, FiniteSetTheorems, WellFoundedInduction

\* Induction, for a set of numbers.
LEMMA AllNumbers ==
    ASSUME NEW G \in SUBSET Nat, 0 \in G, \A k \in G : k + 1 \in G
    PROVE  G = Nat
<1> SUFFICES ASSUME Nat \ G # {} PROVE FALSE
  BY Zenon
<1>1. IsWellFoundedOn({ss \in Nat \X Nat : ss[1] < ss[2]}, Nat)
  BY NatLessThanWellFounded, Zenon DEF OpToRel
<1>2. PICK x \in Nat \ G : \A y \in Nat \ G : ~(<<y, x>> \in {ss \in Nat \X Nat : ss[1] < ss[2]})
  BY <1>1, WFMin, Zenon
<1>3. x \in Nat /\ x # 0 /\ x - 1 \in Nat /\ x - 1 \notin G
  BY <1>2
<1>4. <<x - 1, x>> \in {ss \in Nat \X Nat : ss[1] < ss[2]}
  BY <1>3
<1> QED BY Zenon, <1>2, <1>3, <1>4

\* The handlers that those of X dial through.
onward(A, X) == UNION {At(A, x.via) : x \in {y \in X : y.loop = NoState}}

\* The walk along dialerProxy links: what the recursion of hops computes.
LEMMA HopsDef ==
    ASSUME NEW A, NEW h, Cardinality(A) \in Nat
    PROVE  hops(A, h) = [i \in 0 .. Cardinality(A) |->
                            IF i = 0 THEN {h} ELSE onward(A, hops(A, h)[i - 1])]
<1> DEFINE Walk(k, f) == f = [i \in 0 .. k |-> IF i = 0 THEN {h} ELSE onward(A, f[i - 1])]
           G == {k \in Nat : \E f : Walk(k, f)}
<1>1. 0 \in G
  <2>1. Walk(0, [i \in 0 .. 0 |-> {h}])
    OBVIOUS
  <2> QED BY Zenon, <2>1
<1>2. ASSUME NEW k \in G PROVE k + 1 \in G
  <2>1. PICK f : Walk(k, f)
    BY Zenon
  <2> DEFINE g == [i \in 0 .. k + 1 |-> IF i = k + 1 THEN onward(A, f[k]) ELSE f[i]]
  <2>2. ASSUME NEW i \in 0 .. k + 1
        PROVE  g[i] = IF i = 0 THEN {h} ELSE onward(A, g[i - 1])
    <3>1. CASE i = k + 1
      BY <3>1
    <3>2. CASE i # k + 1
      <4>1. i \in 0 .. k /\ g[i] = f[i] /\ (i # 0 => g[i - 1] = f[i - 1])
        BY <3>2
      <4> QED BY Zenon, <4>1, <2>1
    <3> QED BY Zenon, <3>1, <3>2
  <2>3. Walk(k + 1, g)
    BY Zenon, <2>2
  <2>4. k + 1 \in Nat
    OBVIOUS
  <2> HIDE DEF g
  <2> QED BY <2>3, <2>4, Zenon
<1> HIDE DEF G
<1>3. G = Nat
  <2>1. G \in SUBSET Nat
    BY Zenon DEF G
  <2> QED BY Zenon, <1>1, <1>2, <2>1, AllNumbers
<1>4. \E f : Walk(Cardinality(A), f)
  BY Zenon, <1>3 DEF G
<1> QED BY Zenon, <1>4 DEF hops, onward

\* A walk over more handlers goes at least as far.
LEMMA HopsGrow ==
    ASSUME NEW A, NEW K, A \subseteq K, IsFiniteSet(K), NEW h
    PROVE  /\ 0 .. Cardinality(A) \subseteq 0 .. Cardinality(K)
           /\ \A i \in 0 .. Cardinality(A) : hops(A, h)[i] \subseteq hops(K, h)[i]
<1>1. /\ Cardinality(A) \in Nat /\ Cardinality(K) \in Nat
      /\ Cardinality(A) <= Cardinality(K)
  BY Zenon, FS_Subset, FS_CardinalityType
<1>2. 0 .. Cardinality(A) \subseteq 0 .. Cardinality(K)
  BY <1>1
<1>3. /\ hops(A, h) = [i \in 0 .. Cardinality(A) |->
                           IF i = 0 THEN {h} ELSE onward(A, hops(A, h)[i - 1])]
      /\ hops(K, h) = [i \in 0 .. Cardinality(K) |->
                           IF i = 0 THEN {h} ELSE onward(K, hops(K, h)[i - 1])]
  BY <1>1, HopsDef
<1> DEFINE a == hops(A, h)
           b == hops(K, h)
           G == {k \in Nat : k \in 0 .. Cardinality(A) => a[k] \subseteq b[k]}
<1>4. a[0] = {h} /\ b[0] = {h}
  BY <1>1, <1>3
<1>5. ASSUME NEW k \in Nat, k + 1 \in 0 .. Cardinality(A)
      PROVE  a[k + 1] = onward(A, a[k]) /\ b[k + 1] = onward(K, b[k])
  <2>1. k + 1 \in 0 .. Cardinality(K) /\ k + 1 # 0 /\ (k + 1) - 1 = k
    BY <1>2, <1>5
  <2> QED BY Zenon, <1>5, <1>3, <2>1
<1> HIDE DEF a, b
<1>6. ASSUME NEW X, NEW Y, X \subseteq Y PROVE onward(A, X) \subseteq onward(K, Y)
  BY <1>6 DEF onward, At
<1>7. ASSUME NEW k \in G PROVE k + 1 \in G
  <2> SUFFICES ASSUME k + 1 \in 0 .. Cardinality(A) PROVE a[k + 1] \subseteq b[k + 1]
    OBVIOUS
  <2>1. k \in Nat /\ k \in 0 .. Cardinality(A)
    BY <1>1
  <2> QED BY <2>1, <1>5, <1>6
<1>8. 0 \in G
  BY Zenon, <1>4
<1>9. G = Nat
  <2> HIDE DEF G
  <2>1. G \in SUBSET Nat
    BY Zenon DEF G
  <2> QED BY Zenon, <1>7, <1>8, <2>1, AllNumbers
<1>10. \A i \in 0 .. Cardinality(A) : a[i] \subseteq b[i]
  BY <1>1, <1>9
<1> QED BY Zenon, <1>2, <1>10 DEF a, b

\* A loopback that is reached is reached over more handlers, too.
LEMMA ReachedGrows ==
    ASSUME NEW A, NEW K, A \subseteq K, IsFiniteSet(K), NEW h
    PROVE  LoopbackReached(A, h) \subseteq LoopbackReached(K, h)
<1> SUFFICES ASSUME NEW i \in 0 .. Cardinality(A), NEW x \in hops(A, h)[i], x.loop # NoState
             PROVE  x.loop \in LoopbackReached(K, h)
  BY Zenon DEF LoopbackReached
<1>1. i \in 0 .. Cardinality(K) /\ x \in hops(K, h)[i]
  BY Zenon, HopsGrow
<1> QED BY Zenon, <1>1 DEF LoopbackReached

\* A cycle is one of every larger graph.
LEMMA CycleGrows ==
    ASSUME NEW f, NEW g, DOMAIN f \subseteq DOMAIN g,
           \A v \in DOMAIN f : f[v] \subseteq g[v], HasCycle(f)
    PROVE  HasCycle(g)
BY Zenon DEF HasCycle

\* checkLoops, S1: with fewer handlers there are fewer dialerProxy cycles.
LEMMA ProxyCycleGrows ==
    ASSUME NEW A, NEW K, A \subseteq K, dialerProxyCycle(A)
    PROVE  dialerProxyCycle(K)
<1> DEFINE f == [t \in {h.tag : h \in A} \ {NoTag} |-> DialsThrough(A, t)]
           g == [t \in {h.tag : h \in K} \ {NoTag} |-> DialsThrough(K, t)]
<1>1. DOMAIN f \subseteq DOMAIN g /\ \A v \in DOMAIN f : f[v] \subseteq g[v]
  BY Zenon DEF DialsThrough, At
<1>2. HasCycle(f)
  BY Zenon DEF dialerProxyCycle
<1> HIDE DEF f, g
<1>3. HasCycle(g)
  BY Zenon, <1>1, <1>2, CycleGrows
<1> QED BY Zenon, <1>3 DEF g, dialerProxyCycle

\* The outbounds of a balancer's own selectors and override, those that its
\* fallback tag stands for, and those that a rule leads to.
picked(A, B, x) == UNION {At(A, t) : t \in B[x].selects \cup {B[x].override}}
last(A, d, B, x) == IF B[x].fallback = NoTag THEN Default(d)
                    ELSE IF B[x].fallback \in DOMAIN B THEN {}
                    ELSE At(A, B[x].fallback)
leads(A, d, R, i) == IF R.rules[i].balancer = NoTag THEN At(A, R.rules[i].tag)
                     ELSE chain(A, d, R.balancers, R.rules[i].balancer)

\* chain in these terms.
LEMMA ChainIs ==
    ASSUME NEW A, NEW d, NEW B, NEW b
    PROVE  chain(A, d, B, b) = (UNION {picked(A, B, x) : x \in levels(B, b)})
                               \cup UNION {last(A, d, B, x) : x \in levels(B, b)}
BY Zenon DEF chain, picked, last

\* The outbounds of an inbound, rule by rule.
LEMMA OutboundsIs ==
    ASSUME NEW A, NEW d, NEW R, NEW s
    PROVE  outbounds(A, d, R, s) =
               (UNION {leads(A, d, R, i) : i \in Reachable(R.rules, s)})
               \cup (IF \E i \in DOMAIN R.rules : Ends(R.rules[i], s) THEN {} ELSE Default(d))
BY Zenon DEF outbounds, leads

\* What a routing leads to grows with the handlers and with a default outbound.
LEMMA FromGrows ==
    ASSUME NEW A, NEW K, A \subseteq K, IsFiniteSet(K), NEW d, NEW e, d \in {e, NoHandler},
           NEW R, NEW s
    PROVE  from(A, d, R, s) \subseteq from(K, e, R, s)
<1>1. Default(d) \subseteq Default(e)
  BY Zenon DEF Default
<1>2. ASSUME NEW t PROVE At(A, t) \subseteq At(K, t)
  BY Zenon DEF At
<1>3. ASSUME NEW B, NEW b PROVE chain(A, d, B, b) \subseteq chain(K, e, B, b)
  <2>1. ASSUME NEW x
        PROVE  /\ picked(A, B, x) \subseteq picked(K, B, x)
               /\ last(A, d, B, x) \subseteq last(K, e, B, x)
    BY Zenon, <1>1, <1>2 DEF picked, last
  <2>2. /\ chain(A, d, B, b) = (UNION {picked(A, B, x) : x \in levels(B, b)})
                                \cup UNION {last(A, d, B, x) : x \in levels(B, b)}
        /\ chain(K, e, B, b) = (UNION {picked(K, B, x) : x \in levels(B, b)})
                                \cup UNION {last(K, e, B, x) : x \in levels(B, b)}
    BY Zenon, ChainIs
  <2> QED BY <2>1, <2>2
<1>4. outbounds(A, d, R, s) \subseteq outbounds(K, e, R, s)
  <2> DEFINE ended == \E i \in DOMAIN R.rules : Ends(R.rules[i], s)
             rest(c) == IF ended THEN {} ELSE Default(c)
  <2>1. ASSUME NEW i PROVE leads(A, d, R, i) \subseteq leads(K, e, R, i)
    BY Zenon, <1>2, <1>3 DEF leads
  <2>2. rest(d) \subseteq rest(e)
    BY Zenon, <1>1
  <2>3. /\ outbounds(A, d, R, s) =
               (UNION {leads(A, d, R, i) : i \in Reachable(R.rules, s)}) \cup rest(d)
        /\ outbounds(K, e, R, s) =
               (UNION {leads(K, e, R, i) : i \in Reachable(R.rules, s)}) \cup rest(e)
    BY Zenon, OutboundsIs
  <2> HIDE DEF rest
  <2> QED BY Zenon, <2>1, <2>2, <2>3
<1>5. ASSUME NEW h PROVE LoopbackReached(A, h) \subseteq LoopbackReached(K, h)
  BY Zenon, ReachedGrows
<1> QED BY Zenon, <1>4, <1>5 DEF from

\* checkLoops, S2: with fewer handlers and no other default outbound there are
\* fewer loops through loopbacks.
LEMMA LoopGrows ==
    ASSUME NEW A, NEW K, A \subseteq K, IsFiniteSet(K), NEW d, NEW e, d \in {e, NoHandler},
           NEW R, loopbackLoop(A, d, R)
    PROVE  loopbackLoop(K, e, R)
<1> DEFINE f == [s \in {h.loop : h \in A} \ {NoState} |-> from(A, d, R, s)]
           g == [s \in {h.loop : h \in K} \ {NoState} |-> from(K, e, R, s)]
<1>1. DOMAIN f \subseteq DOMAIN g /\ \A v \in DOMAIN f : f[v] \subseteq g[v]
  BY FromGrows
<1>2. HasCycle(f)
  BY Zenon DEF loopbackLoop
<1> HIDE DEF f, g
<1>3. HasCycle(g)
  BY Zenon, <1>1, <1>2, CycleGrows
<1> QED BY Zenon, <1>3 DEF g, loopbackLoop

\* The two, as they are used: what is checked stays checked when handlers go.
LEMMA ChecksKeep ==
    ASSUME NEW A, NEW K, A \subseteq K, IsFiniteSet(K), NEW d, NEW e, d \in {e, NoHandler},
           NEW R
    PROVE  /\ ~dialerProxyCycle(K) => ~dialerProxyCycle(A)
           /\ ~loopbackLoop(K, e, R) => ~loopbackLoop(A, d, R)
<1>1. ~dialerProxyCycle(K) => ~dialerProxyCycle(A)
  BY Zenon, ProxyCycleGrows
<1>2. ~loopbackLoop(K, e, R) => ~loopbackLoop(A, d, R)
  <2>1. ASSUME loopbackLoop(A, d, R) PROVE loopbackLoop(K, e, R)
    BY <2>1, LoopGrows
  <2> QED BY Zenon, <2>1
<1> QED BY Zenon, <1>1, <1>2

\* Without its default outbound a registry has no loop that it did not have with it.
LEMMA NoDefaultKeeps ==
    ASSUME NEW K, IsFiniteSet(K), NEW e, NEW R, ~loopbackLoop(K, e, R)
    PROVE  ~loopbackLoop(K, NoHandler, R)
<1>1. K \subseteq K /\ NoHandler \in {e, NoHandler}
  BY Zenon
<1> QED BY <1>1, ChecksKeep

\* The balancers within a number of levels: what the recursion of within computes.
LEMMA WithinDef ==
    ASSUME NEW B, NEW b, Cardinality(DOMAIN B) \in Nat
    PROVE  within(B, b) = [i \in 0 .. Cardinality(DOMAIN B) |->
                              IF i = 0 THEN {b}
                              ELSE within(B, b)[i - 1]
                                   \cup UNION {below(B, x) : x \in within(B, b)[i - 1]}]
<1> DEFINE on(X) == X \cup UNION {below(B, x) : x \in X}
           Walk(k, f) == f = [i \in 0 .. k |-> IF i = 0 THEN {b} ELSE on(f[i - 1])]
           G == {k \in Nat : \E f : Walk(k, f)}
<1> HIDE DEF on
<1>1. 0 \in G
  <2>1. Walk(0, [i \in 0 .. 0 |-> {b}])
    OBVIOUS
  <2> QED BY Zenon, <2>1
<1>2. ASSUME NEW k \in G PROVE k + 1 \in G
  <2>1. PICK f : Walk(k, f)
    BY Zenon
  <2> DEFINE g == [i \in 0 .. k + 1 |-> IF i = k + 1 THEN on(f[k]) ELSE f[i]]
  <2>2. ASSUME NEW i \in 0 .. k + 1
        PROVE  g[i] = IF i = 0 THEN {b} ELSE on(g[i - 1])
    <3>1. CASE i = k + 1
      BY <3>1
    <3>2. CASE i # k + 1
      <4>1. i \in 0 .. k /\ g[i] = f[i] /\ (i # 0 => g[i - 1] = f[i - 1])
        BY <3>2
      <4> QED BY Zenon, <4>1, <2>1
    <3> QED BY Zenon, <3>1, <3>2
  <2>3. Walk(k + 1, g)
    BY Zenon, <2>2
  <2>4. k + 1 \in Nat
    OBVIOUS
  <2> HIDE DEF g
  <2> QED BY <2>3, <2>4, Zenon
<1> HIDE DEF G
<1>3. G = Nat
  <2>1. G \in SUBSET Nat
    BY Zenon DEF G
  <2> QED BY Zenon, <1>1, <1>2, <2>1, AllNumbers
<1>4. \E f : Walk(Cardinality(DOMAIN B), f)
  BY Zenon, <1>3 DEF G
<1> QED BY Zenon, <1>4 DEF within, on

\* A walk with no fewer steps than the graph has vertices comes back to one of
\* them: the graph has a cycle.
LEMMA WalkCycle ==
    ASSUME NEW f, IsFiniteSet(DOMAIN f), NEW n \in Nat, n >= Cardinality(DOMAIN f),
           NEW p \in [0 .. n -> DOMAIN f], \A i \in 0 .. n - 1 : p[i + 1] \in f[p[i]]
    PROVE  HasCycle(f)
<1>1. IsFiniteSet(0 .. n) /\ Cardinality(0 .. n) = n + 1 /\ Cardinality(DOMAIN f) \in Nat
  BY FS_Interval, FS_CardinalityType
<1>2. Cardinality(DOMAIN f) < Cardinality(0 .. n)
  BY <1>1
<1>3. \E x, y \in 0 .. n : x # y /\ p[x] = p[y]
  BY Zenon, <1>1, <1>2, FS_PigeonHole
<1>4. PICK i \in 0 .. n, j \in 0 .. n : i < j /\ p[i] = p[j]
  BY <1>3
<1> DEFINE C == {p[k] : k \in i .. j - 1}
<1>5. p[i] \in C /\ C \subseteq DOMAIN f
  BY <1>4
<1>6. ASSUME NEW v \in C PROVE f[v] \cap C # {}
  <2>1. PICK k \in i .. j - 1 : v = p[k]
    BY Zenon
  <2>2. p[k + 1] \in f[v]
    BY <1>4, <2>1
  <2>3. CASE k + 1 = j
    BY Zenon, <2>2, <2>3, <1>4, <1>5
  <2>4. CASE k + 1 # j
    <3>1. k + 1 \in i .. j - 1
      BY <2>4, <1>4
    <3> QED BY Zenon, <3>1, <2>2
  <2> QED BY Zenon, <2>3, <2>4
<1> HIDE DEF C
<1> QED BY Zenon, <1>5, <1>6 DEF HasCycle

\* resolveChain: where a walk of levels has come is on the chain.
LEMMA WalkWithin ==
    ASSUME NEW B, IsFiniteSet(DOMAIN B), NEW n \in 0 .. Cardinality(DOMAIN B),
           NEW p \in [0 .. n -> DOMAIN B], \A i \in 0 .. n - 1 : p[i + 1] \in below(B, p[i])
    PROVE  p[n] \in levels(B, p[0])
<1> DEFINE m == Cardinality(DOMAIN B)
           w == within(B, p[0])
           G == {k \in Nat : k <= m => \A i \in 0 .. n : i <= k => p[i] \in w[k]}
<1>1. m \in Nat
  BY Zenon, FS_CardinalityType
<1>2. w = [i \in 0 .. m |-> IF i = 0 THEN {p[0]}
                            ELSE w[i - 1] \cup UNION {below(B, x) : x \in w[i - 1]}]
  BY <1>1, WithinDef
<1> HIDE DEF m, w
<1> n \in 0 .. m
  BY Zenon DEF m
<1>3. 0 \in G
  BY <1>1, <1>2
<1>4. ASSUME NEW k \in G PROVE k + 1 \in G
  <2> SUFFICES ASSUME k + 1 <= m, NEW i \in 0 .. n, i <= k + 1 PROVE p[i] \in w[k + 1]
    BY DEF G
  <2>1. k \in Nat /\ k <= m /\ k + 1 \in 0 .. m /\ k + 1 # 0 /\ (k + 1) - 1 = k
    BY <1>1
  <2>2. w[k + 1] = w[k] \cup UNION {below(B, x) : x \in w[k]}
    BY Zenon, <1>2, <2>1
  <2>3. CASE i <= k
    <3>1. p[i] \in w[k]
      BY Zenon, <2>1, <2>3
    <3> QED BY Zenon, <3>1, <2>2
  <2>4. CASE ~(i <= k)
    <3>1. i = k + 1 /\ k \in 0 .. n - 1 /\ k \in 0 .. n /\ k <= k
      BY <2>1, <2>4
    <3>2. p[k] \in w[k] /\ p[i] \in below(B, p[k])
      BY Zenon, <3>1, <2>1
    <3> QED BY Zenon, <3>2, <2>2
  <2> QED BY Zenon, <2>3, <2>4
<1>5. G = Nat
  <2> HIDE DEF G
  <2>1. G \in SUBSET Nat
    BY Zenon DEF G
  <2> QED BY Zenon, <1>3, <1>4, <2>1, AllNumbers
<1>6. p[n] \in w[m]
  BY <1>1, <1>5
<1> QED BY Zenon, <1>6 DEF m, w, levels

\* The handlers that a connection may come to when it dials from p[0].
Dials(A, n, p) == \A i \in 0 .. n - 1 : p[i].loop = NoState /\ p[i + 1] \in At(A, p[i].via)

\* findLoopback: the loopback that dialing comes to is the one the check finds.
LEMMA DialsReach ==
    ASSUME NEW A, IsFiniteSet(A), NEW n \in 0 .. Cardinality(A), NEW p \in [0 .. n -> A],
           Dials(A, n, p), p[n].loop # NoState
    PROVE  p[n].loop \in LoopbackReached(A, p[0])
<1> DEFINE m == Cardinality(A)
           w == hops(A, p[0])
           G == {k \in Nat : k <= n => p[k] \in w[k]}
<1>1. m \in Nat
  BY Zenon, FS_CardinalityType
<1>2. w = [i \in 0 .. m |-> IF i = 0 THEN {p[0]} ELSE onward(A, w[i - 1])]
  BY <1>1, HopsDef
<1> HIDE DEF m, w
<1> n \in 0 .. m
  BY Zenon DEF m
<1>3. 0 \in G
  BY <1>1, <1>2
<1>4. ASSUME NEW k \in G PROVE k + 1 \in G
  <2> SUFFICES ASSUME k + 1 <= n PROVE p[k + 1] \in w[k + 1]
    BY DEF G
  <2>1. k \in Nat /\ k <= n /\ k \in 0 .. n - 1 /\ k + 1 \in 0 .. m /\ k + 1 # 0
        /\ (k + 1) - 1 = k
    BY <1>1
  <2>2. w[k + 1] = onward(A, w[k])
    BY Zenon, <1>2, <2>1
  <2>3. p[k] \in w[k] /\ p[k].loop = NoState /\ p[k + 1] \in At(A, p[k].via)
    BY Zenon, <2>1 DEF Dials
  <2> QED BY Zenon, <2>2, <2>3 DEF onward
<1>5. G = Nat
  <2> HIDE DEF G
  <2>1. G \in SUBSET Nat
    BY Zenon DEF G
  <2> QED BY Zenon, <1>3, <1>4, <2>1, AllNumbers
<1>6. n \in 0 .. m /\ p[n] \in w[n]
  BY <1>1, <1>5
<1> QED BY Zenon, <1>6 DEF m, w, LoopbackReached

\* checkLoops, S1: without a dialerProxy cycle dialing ends before it has been in
\* every handler.
LEMMA DialsEnd ==
    ASSUME NEW A, IsFiniteSet(A), ~dialerProxyCycle(A),
           NEW n \in 0 .. Cardinality(A), NEW p \in [0 .. n -> A], Dials(A, n, p)
    PROVE  n < Cardinality(A)
<1> DEFINE T == {h.tag : h \in A} \ {NoTag}
           f == [t \in T |-> DialsThrough(A, t)]
<1>1. Cardinality(A) \in Nat
  BY Zenon, FS_CardinalityType
<1> SUFFICES ASSUME n = Cardinality(A) PROVE HasCycle(f)
  BY <1>1 DEF dialerProxyCycle
<1>2. IsFiniteSet(0 .. n) /\ Cardinality(0 .. n) = n + 1
  BY <1>1, FS_Interval
<1>3. Cardinality(A) < Cardinality(0 .. n)
  BY <1>1, <1>2
<1>4. \E x, y \in 0 .. n : x # y /\ p[x] = p[y]
  BY ZenonT(40), <1>2, <1>3, FS_PigeonHole
<1>5. PICK i \in 0 .. n, j \in 0 .. n : i < j /\ p[i] = p[j]
  BY <1>4, <1>1
<1> DEFINE C == {p[k].tag : k \in i + 1 .. j}
<1>6. ASSUME NEW k \in 0 .. n - 1
      PROVE  /\ p[k + 1] \in A /\ p[k + 1].tag = p[k].via /\ p[k].via # NoTag
             /\ p[k + 1].tag \in T
  <2>1. p[k + 1] \in At(A, p[k].via)
    BY Zenon DEF Dials
  <2> QED BY Zenon, <2>1 DEF At
<1>7. ASSUME NEW k \in i + 1 .. j
      PROVE  k - 1 \in 0 .. n - 1 /\ (k - 1) + 1 = k /\ k \in 0 .. n
  BY <1>1, <1>5
<1>8. C \subseteq DOMAIN f
  <2>1. ASSUME NEW k \in i + 1 .. j PROVE p[k].tag \in T
    <3>1. p[(k - 1) + 1].tag \in T
      BY Zenon, <1>6, <1>7
    <3> QED BY <3>1, <1>7, Zenon
  <2> QED BY Zenon, <2>1
<1>9. i + 1 \in i + 1 .. j /\ i \in 0 .. n - 1
  BY <1>1, <1>5
<1>10. ASSUME NEW v \in C PROVE f[v] \cap C # {}
  <2>1. PICK k \in i + 1 .. j : v = p[k].tag
    BY Zenon
  <2>2. k \in 0 .. n /\ p[k] \in A /\ v \in T
    BY Zenon, <1>7, <2>1, <1>8
  <2>3. p[k].via # NoTag => p[k].via \in f[v]
    BY Zenon, <2>1, <2>2 DEF DialsThrough, At
  <2>4. CASE k = j
    <3>1. p[k].via = p[i + 1].tag /\ p[k].via # NoTag
      BY Zenon, <2>4, <1>5, <1>6, <1>9
    <3> QED BY Zenon, <3>1, <2>3, <1>9
  <2>5. CASE k # j
    <3>1. k \in 0 .. n - 1 /\ k + 1 \in i + 1 .. j
      BY <2>5, <1>1, <1>5
    <3>2. p[k + 1].tag = p[k].via /\ p[k].via # NoTag
      BY Zenon, <3>1, <1>6
    <3> QED BY Zenon, <3>1, <3>2, <2>3
  <2> QED BY Zenon, <2>4, <2>5
<1>11. C # {}
  BY Zenon, <1>9
<1> HIDE DEF C, f
<1> QED BY Zenon, <1>8, <1>10, <1>11 DEF HasCycle

\* A walk of balancer levels.
Descends(B, n, p) == \A i \in 0 .. n - 1 : p[i + 1] \in below(B, p[i])

\* What routing leads to, rule by rule.
LEMMA OutboundsOf ==
    ASSUME NEW A, NEW d, NEW R, NEW s
    PROVE  /\ \A i \in Reachable(R.rules, s) : leads(A, d, R, i) \subseteq outbounds(A, d, R, s)
           /\ (\A i \in DOMAIN R.rules : ~Ends(R.rules[i], s))
                  => Default(d) \subseteq outbounds(A, d, R, s)
<1> DEFINE led == UNION {leads(A, d, R, i) : i \in Reachable(R.rules, s)}
           ended == \E i \in DOMAIN R.rules : Ends(R.rules[i], s)
<1>1. outbounds(A, d, R, s) = led \cup (IF ended THEN {} ELSE Default(d))
  BY Zenon, OutboundsIs
<1>2. ASSUME NEW i \in Reachable(R.rules, s) PROVE leads(A, d, R, i) \subseteq led
  BY Zenon
<1> HIDE DEF led
<1> QED BY Zenon, <1>1, <1>2

\* It leads to handlers of the configuration; of those without a tag, only to the
\* default one.
LEMMA OutboundsAre ==
    ASSUME NEW A, NEW d \in A, NEW R, NEW s, NEW h \in outbounds(A, d, R, s)
    PROVE  h \in A /\ (h.tag = NoTag => h = d)
<1> DEFINE Good(x) == x \in A /\ (x.tag = NoTag => x = d)
<1>1. ASSUME NEW t, NEW x \in At(A, t) PROVE Good(x)
  BY Zenon DEF At
<1>2. ASSUME NEW x \in Default(d) PROVE Good(x)
  BY Zenon DEF Default
<1>3. ASSUME NEW B, NEW b, NEW x \in chain(A, d, B, b) PROVE Good(x)
  <2>1. PICK y \in levels(B, b) : x \in picked(A, B, y) \/ x \in last(A, d, B, y)
    <3>1. x \in (UNION {picked(A, B, y) : y \in levels(B, b)})
                \cup UNION {last(A, d, B, y) : y \in levels(B, b)}
      BY Zenon, <1>3, ChainIs
    <3> QED BY Zenon, <3>1
  <2> HIDE DEF Good
  <2> QED BY Zenon, <2>1, <1>1, <1>2 DEF picked, last
<1> HIDE DEF Good
<1>4. ASSUME NEW i, NEW x \in leads(A, d, R, i) PROVE Good(x)
  BY Zenon, <1>1, <1>3 DEF leads
<1>5. Good(h)
  <2>1. h \in Default(d) \/ \E i \in Reachable(R.rules, s) : h \in leads(A, d, R, i)
    <3> DEFINE ended == \E i \in DOMAIN R.rules : Ends(R.rules[i], s)
    <3>1. h \in (UNION {leads(A, d, R, i) : i \in Reachable(R.rules, s)})
                \cup (IF ended THEN {} ELSE Default(d))
      BY Zenon, OutboundsIs
    <3> QED BY Zenon, <3>1
  <2> QED BY Zenon, <2>1, <1>2, <1>4
<1> QED BY Zenon, <1>5 DEF Good

\* Balancer.pick: a tag that ends the walk of levels is on the chain, and so is
\* the default outbound when there is none.
LEMMA ChainEnds ==
    ASSUME NEW A, NEW d, NEW B, NEW b, NEW x \in levels(B, b)
    PROVE  /\ \A t \in B[x].selects \cup {B[x].override} : At(A, t) \subseteq chain(A, d, B, b)
           /\ B[x].fallback = NoTag => Default(d) \subseteq chain(A, d, B, b)
           /\ B[x].fallback \notin DOMAIN B /\ B[x].fallback # NoTag
                  => At(A, B[x].fallback) \subseteq chain(A, d, B, b)
<1>1. picked(A, B, x) \subseteq chain(A, d, B, b) /\ last(A, d, B, x) \subseteq chain(A, d, B, b)
  <2>1. chain(A, d, B, b) = (UNION {picked(A, B, y) : y \in levels(B, b)})
                            \cup UNION {last(A, d, B, y) : y \in levels(B, b)}
    BY Zenon, ChainIs
  <2> QED BY Zenon, <2>1
<1> QED BY Zenon, <1>1 DEF picked, last

-----------------------------------------------------------------------------
(* OutboundManager. *)

\* TypeOK in the groups of variables that the steps change.
RegistryShape ==
    /\ published \subseteq Handlers /\ defaultHandler \in Handlers \cup {NoHandler}
    /\ retiring \subseteq Retiring /\ closed \in BOOLEAN /\ routing \in Routings
MutexShape ==
    /\ graph \in Adders \cup Routers \cup {NoOwner}
    /\ \A g \in Adders \cup Routers :
          (graph = g) = (pc[g] \in {"default", "list", "publish"})
    /\ pc \in [Goroutines -> {"idle", "lock", "default", "list", "publish", "retire",
                              "drain", "close", "returned"}]
CallShape ==
    /\ arg \in [Adders \cup Removers -> Handlers]
    /\ def \in [Adders -> Handlers \cup {NoHandler}]
    /\ hs \in [Routers \cup Closers -> SUBSET Handlers]
    /\ prop \in [Routers -> Routings]
LifeShape ==
    /\ life \in [Handlers -> {"new", "used", "started", "closed"}]
    /\ checkedDefault \in BOOLEAN

Shape == RegistryShape /\ MutexShape /\ CallShape /\ LifeShape

\* NoUncheckedLoop, the routing part of which needs a third: without a default
\* outbound there is no loop even when the present default was never checked.
NoProxyCycle == ~dialerProxyCycle(published)
NoCheckedLoop == checkedDefault => ~loopbackLoop(published, defaultHandler, routing)
NoLoopBesidesDefault == ~loopbackLoop(published, NoHandler, routing)

\* The default outbound that AddHandler has read is still it, unless it is gone.
DefaultRead ==
    \A g \in Adders : pc[g] \in {"list", "publish"} => defaultHandler \in {def[g], NoHandler}

\* Before it publishes, AddHandler has checked the registry with its handler.
AddChecked ==
    \A g \in Adders : pc[g] = "publish" => ~loops(published \cup {arg[g]}, def[g], routing)

\* The handlers that guardRouting has listed include those published ...
StillListed ==
    \A g \in Routers : pc[g] \in {"default", "publish"} => published \subseteq hs[g]

\* ... and the routing is checked with them before it is published.
RouteChecked ==
    \A g \in Routers : pc[g] = "publish" => ~loopbackLoop(hs[g], defaultHandler, prop[g])

\* Close has set closed, and has closed or still holds every handler.
CloseHolds ==
    \A g \in Closers : pc[g] \in {"close", "returned"} =>
        closed /\ \A h \in published \cup retiring : life[h] = "closed" \/ h \in hs[g]
CloseReturned == \A g \in Closers : pc[g] = "returned" => hs[g] = {}

IInv ==
    /\ Shape
    /\ NoProxyCycle /\ NoCheckedLoop /\ NoLoopBesidesDefault
    /\ DefaultRead /\ AddChecked /\ StillListed /\ RouteChecked
    /\ CloseHolds /\ CloseReturned

\* The groups are the type invariant.
LEMMA TypeShape == TypeOK <=> Shape
BY Zenon DEF TypeOK, Shape, RegistryShape, MutexShape, CallShape, LifeShape

\* A subset of the handlers is finite.
LEMMA FiniteHandlers ==
    ASSUME NEW A, A \subseteq Handlers
    PROVE  IsFiniteSet(A)
BY Zenon, ManagerAssumption, FS_Subset

\* AddHandler is called, with a handler that was never used before.
LEMMA AddCallStep ==
    ASSUME NEW g \in Adders, NEW h \in Handlers, IInv, AddCall(g, h)
    PROVE  IInv'
<1> USE DEF IInv, Shape, Goroutines
<1> /\ pc[g] = "idle" /\ pc'[g] \in {"lock", "returned"} /\ g \in Goroutines
    /\ g \notin Routers /\ g \notin Closers /\ g \notin Removers
    /\ \A k \in Goroutines : k # g => pc'[k] = pc[k]
    /\ \A k \in Adders : k # g => arg'[k] = arg[k]
    /\ life[h] = "new" /\ \A x \in Handlers : x # h => life'[x] = life[x]
  BY ZenonT(40), ManagerAssumption DEF AddCall, Goto, MutexShape, CallShape, LifeShape,
     RegistryShape, Goroutines
<1> UNCHANGED <<published, defaultHandler, retiring, closed, routing, graph, def, hs, prop,
                checkedDefault>>
  BY Zenon DEF AddCall, Goto
<1>1. MutexShape'
  BY ManagerAssumption DEF AddCall, Goto, MutexShape, Goroutines
<1>2. CallShape'
  BY Zenon DEF AddCall, Goto, CallShape
<1>3. LifeShape'
  BY Zenon DEF AddCall, Goto, LifeShape
<1>4. RegistryShape'
  BY Zenon DEF RegistryShape
<1>5. NoProxyCycle' /\ NoCheckedLoop' /\ NoLoopBesidesDefault'
  BY Zenon DEF NoProxyCycle, NoCheckedLoop, NoLoopBesidesDefault
<1>6. DefaultRead'
  BY Zenon DEF DefaultRead
<1>7. AddChecked'
  BY Zenon DEF AddChecked
<1>8. StillListed'
  BY Zenon DEF StillListed
<1>9. RouteChecked'
  BY Zenon DEF RouteChecked
<1>10. CloseHolds'
  <2> SUFFICES ASSUME NEW k \in Closers, pc[k] \in {"close", "returned"},
                      NEW x \in published \cup retiring
               PROVE  closed /\ (life'[x] = "closed" \/ x \in hs[k])
    BY Zenon DEF CloseHolds, Goroutines
  <2> QED BY DEF CloseHolds, LifeShape, AddCall
<1>11. CloseReturned'
  BY Zenon DEF CloseReturned
<1> QED BY Zenon, <1>1, <1>2, <1>3, <1>4, <1>5, <1>6, <1>7, <1>8, <1>9, <1>10, <1>11

\* AddHandler takes the graph mutex, or finds the tag taken.
LEMMA AddLockStep == ASSUME NEW g \in Adders, IInv, AddLock(g) PROVE IInv'
<1> USE DEF IInv, Shape, Goroutines
<1> /\ pc[g] = "lock" /\ pc'[g] \in {"default", "returned"} /\ g \in Goroutines
    /\ g \notin Routers /\ g \notin Closers /\ g \notin Removers
    /\ \A k \in Goroutines : k # g => pc'[k] = pc[k]
  BY ZenonT(40), ManagerAssumption DEF AddLock, Goto, mayLock, MutexShape, CallShape,
     LifeShape, RegistryShape, Goroutines
<1> UNCHANGED <<published, defaultHandler, retiring, closed, routing, arg, def, hs, prop, life,
                checkedDefault>>
  BY Zenon DEF AddLock, Goto
<1>1. MutexShape'
  BY ManagerAssumption DEF AddLock, Goto, mayLock, MutexShape, Goroutines
<1>2. RegistryShape' /\ CallShape' /\ LifeShape'
  BY Zenon DEF RegistryShape, CallShape, LifeShape
<1>3. NoProxyCycle' /\ NoCheckedLoop' /\ NoLoopBesidesDefault'
  BY Zenon DEF NoProxyCycle, NoCheckedLoop, NoLoopBesidesDefault
<1>4. DefaultRead'
  BY Zenon DEF DefaultRead
<1>5. AddChecked'
  BY Zenon DEF AddChecked
<1>6. StillListed'
  BY Zenon DEF StillListed
<1>7. RouteChecked'
  BY Zenon DEF RouteChecked
<1>8. CloseHolds'
  BY Zenon DEF CloseHolds
<1>9. CloseReturned'
  BY Zenon DEF CloseReturned
<1> QED BY Zenon, <1>1, <1>2, <1>3, <1>4, <1>5, <1>6, <1>7, <1>8, <1>9

\* AddHandler reads the default outbound.
LEMMA AddDefaultStep == ASSUME NEW g \in Adders, IInv, AddDefault(g) PROVE IInv'
<1> USE DEF IInv, Shape, Goroutines
<1> /\ pc[g] = "default" /\ pc'[g] = "list" /\ g \in Goroutines /\ g \notin Routers
    /\ g \notin Closers /\ g \notin Removers
    /\ \A k \in Goroutines : k # g => pc'[k] = pc[k]
    /\ \A k \in Adders : k # g => def'[k] = def[k]
    /\ defaultHandler \in {def'[g], NoHandler}
  BY ZenonT(40), ManagerAssumption DEF AddDefault, Goto, MutexShape, CallShape, LifeShape,
     RegistryShape, Goroutines
<1> UNCHANGED <<published, defaultHandler, retiring, closed, routing, graph, arg, hs, prop,
                life, checkedDefault>>
  BY Zenon DEF AddDefault, Goto
<1>1. MutexShape'
  BY ZenonT(40), ManagerAssumption DEF AddDefault, Goto, MutexShape, Goroutines
<1>2. CallShape'
  BY Zenon DEF AddDefault, Goto, CallShape, RegistryShape
<1>3. RegistryShape' /\ LifeShape'
  BY Zenon DEF RegistryShape, LifeShape
<1>4. NoProxyCycle' /\ NoCheckedLoop' /\ NoLoopBesidesDefault'
  BY Zenon DEF NoProxyCycle, NoCheckedLoop, NoLoopBesidesDefault
<1>5. DefaultRead'
  BY Zenon DEF DefaultRead
<1>6. AddChecked'
  BY Zenon DEF AddChecked
<1>7. StillListed'
  BY Zenon DEF StillListed
<1>8. RouteChecked'
  BY Zenon DEF RouteChecked
<1>9. CloseHolds'
  BY Zenon DEF CloseHolds
<1>10. CloseReturned'
  BY Zenon DEF CloseReturned
<1> QED BY Zenon, <1>1, <1>2, <1>3, <1>4, <1>5, <1>6, <1>7, <1>8, <1>9, <1>10

\* AddHandler checks the handlers listed now with its own.
LEMMA AddCheckStep == ASSUME NEW g \in Adders, IInv, AddCheck(g) PROVE IInv'
<1> USE DEF IInv, Shape, Goroutines
<1> /\ pc[g] = "list" /\ pc'[g] \in {"publish", "returned"} /\ g \in Goroutines
    /\ g \notin Routers /\ g \notin Closers /\ g \notin Removers
    /\ \A k \in Goroutines : k # g => pc'[k] = pc[k]
    /\ pc'[g] = "publish" => ~loops(published \cup {arg[g]}, def[g], routing)
  BY ManagerAssumption DEF AddCheck, Goto, unlock, MutexShape, CallShape, LifeShape,
     RegistryShape, Goroutines
<1> UNCHANGED <<published, defaultHandler, retiring, closed, routing, arg, def, hs, prop, life,
                checkedDefault>>
  BY Zenon DEF AddCheck, Goto, unlock
<1>1. MutexShape'
  BY ManagerAssumption DEF AddCheck, Goto, unlock, MutexShape, Goroutines
<1>2. RegistryShape' /\ CallShape' /\ LifeShape'
  BY Zenon DEF RegistryShape, CallShape, LifeShape
<1>3. NoProxyCycle' /\ NoCheckedLoop' /\ NoLoopBesidesDefault'
  BY Zenon DEF NoProxyCycle, NoCheckedLoop, NoLoopBesidesDefault
<1>4. DefaultRead'
  BY Zenon DEF DefaultRead
<1>5. AddChecked'
  BY Zenon DEF AddChecked
<1>6. StillListed'
  BY Zenon DEF StillListed
<1>7. RouteChecked'
  BY Zenon DEF RouteChecked
<1>8. CloseHolds'
  BY Zenon DEF CloseHolds
<1>9. CloseReturned'
  BY Zenon DEF CloseReturned
<1> QED BY Zenon, <1>1, <1>2, <1>3, <1>4, <1>5, <1>6, <1>7, <1>8, <1>9

\* What AddHandler publishes is part of what it has checked.
LEMMA AddPublishStep == ASSUME NEW g \in Adders, IInv, AddPublish(g) PROVE IInv'
<1> USE DEF IInv, Shape, Goroutines
<1> /\ pc[g] = "publish" /\ pc'[g] = "returned" /\ g \in Goroutines /\ g \notin Routers
    /\ g \notin Closers /\ g \notin Removers
    /\ \A k \in Goroutines : k # g => pc'[k] = pc[k]
    /\ \A k \in Adders \cup Routers : k # g => pc'[k] \notin {"default", "list", "publish"}
    /\ \/ UNCHANGED <<published, life, defaultHandler, checkedDefault>>
       \/ /\ ~closed /\ published' = published \cup {arg[g]}
          /\ \/ /\ defaultHandler' = defaultHandler /\ defaultHandler = def[g]
                /\ checkedDefault' = checkedDefault
             \/ checkedDefault' => def[g] = defaultHandler'
  <2>1. g \in Goroutines /\ g \notin Routers /\ g \notin Closers /\ g \notin Removers
    BY Zenon, ManagerAssumption DEF Goroutines
  <2>2. graph = g /\ \A k \in Adders \cup Routers : k # g => k \in Goroutines /\ graph # k
    BY Zenon DEF MutexShape, AddPublish, Goroutines
  <2>3. defaultHandler \in {def[g], NoHandler}
    BY Zenon DEF DefaultRead, AddPublish
  <2> QED BY Zenon, <2>1, <2>2, <2>3 DEF AddPublish, Goto, MutexShape
<1> UNCHANGED <<retiring, closed, routing, arg, def, hs, prop>>
  BY Zenon DEF AddPublish, Goto
<1>1. RegistryShape'
  BY ZenonT(40) DEF AddPublish, Goto, RegistryShape, CallShape
<1>2. MutexShape'
  BY ManagerAssumption DEF AddPublish, Goto, MutexShape, Goroutines
<1>3. LifeShape'
  BY Zenon DEF AddPublish, Goto, LifeShape
<1>4. CallShape'
  BY Zenon DEF CallShape
<1>5. NoProxyCycle'
  BY Zenon DEF NoProxyCycle, AddChecked, loops
<1>6. NoCheckedLoop'
  BY Zenon DEF NoCheckedLoop, AddChecked, loops
<1>7. NoLoopBesidesDefault'
  <2>1. IsFiniteSet(published \cup {arg[g]})
    BY Zenon, FiniteHandlers DEF RegistryShape, CallShape
  <2>2. ~loopbackLoop(published \cup {arg[g]}, def[g], routing)
    BY Zenon DEF AddChecked, loops
  <2>3. ~loopbackLoop(published \cup {arg[g]}, NoHandler, routing)
    BY Zenon, <2>1, <2>2, NoDefaultKeeps
  <2>4. published' \in {published, published \cup {arg[g]}} /\ routing' = routing
    BY Zenon
  <2> QED BY Zenon, <2>3, <2>4 DEF NoLoopBesidesDefault
<1>8. DefaultRead'
  BY Zenon DEF DefaultRead
<1>9. AddChecked'
  BY Zenon DEF AddChecked
<1>10. StillListed'
  BY Zenon DEF StillListed
<1>11. RouteChecked'
  BY Zenon DEF RouteChecked
<1>12. CloseHolds'
  <2>1. ASSUME NEW k \in Closers, pc'[k] \in {"close", "returned"}
        PROVE  closed /\ pc[k] \in {"close", "returned"}
    BY Zenon, <2>1, ManagerAssumption DEF CloseHolds, Goroutines
  <2>2. ASSUME NEW k \in Closers, pc'[k] \in {"close", "returned"}
        PROVE  UNCHANGED <<published, life>>
    BY Zenon, <2>1, <2>2
  <2> QED BY Zenon, <2>1, <2>2 DEF CloseHolds
<1>13. CloseReturned'
  BY Zenon DEF CloseReturned
<1> QED BY Zenon, <1>1, <1>2, <1>3, <1>4, <1>5, <1>6, <1>7, <1>8, <1>9, <1>10, <1>11, <1>12,
    <1>13

\* RemoveHandler makes the registry smaller, and takes the default outbound
\* away if that is the one.
LEMMA RemoveCallStep ==
    ASSUME NEW g \in Removers, NEW h \in Handlers, IInv, RemoveCall(g, h)
    PROVE  IInv'
<1> USE DEF IInv, Shape, Goroutines
<1> /\ pc'[g] \in {"retire", "returned"} /\ g \in Goroutines /\ g \notin Adders
    /\ g \notin Closers /\ g \notin Routers
    /\ \A k \in Goroutines : k # g => pc'[k] = pc[k]
    /\ \A k \in Adders : k # g => arg'[k] = arg[k]
    /\ published' \subseteq published
    /\ published' \cup retiring' \subseteq published \cup retiring
    /\ defaultHandler' \in {defaultHandler, NoHandler}
    /\ \/ defaultHandler' = NoHandler
       \/ defaultHandler' = defaultHandler /\ checkedDefault' = checkedDefault
    /\ IsFiniteSet(published)
  <2>1. g \in Goroutines /\ g \notin Adders /\ g \notin Closers /\ g \notin Routers
    BY Zenon, ManagerAssumption DEF Goroutines
  <2>2. IsFiniteSet(published)
    BY Zenon, FiniteHandlers DEF RegistryShape
  <2> QED BY <2>1, <2>2 DEF RemoveCall, Goto, MutexShape, CallShape, LifeShape, defaultWithout
<1> UNCHANGED <<closed, routing, graph, def, hs, prop, life>>
  BY Zenon DEF RemoveCall, Goto
<1>1. RegistryShape'
  BY Zenon DEF RemoveCall, Goto, defaultWithout, RegistryShape
<1>2. MutexShape'
  BY ManagerAssumption DEF RemoveCall, Goto, defaultWithout, MutexShape, Goroutines
<1>3. CallShape'
  BY Zenon DEF RemoveCall, Goto, defaultWithout, CallShape
<1>4. LifeShape'
  BY Zenon DEF RemoveCall, Goto, defaultWithout, LifeShape
<1>5. NoProxyCycle'
  BY Zenon, ChecksKeep DEF NoProxyCycle
<1>6. NoCheckedLoop'
  <2>1. ~loopbackLoop(published', NoHandler, routing)
    BY Zenon, ChecksKeep DEF NoLoopBesidesDefault
  <2>2. ~loopbackLoop(published, defaultHandler, routing) =>
            ~loopbackLoop(published', defaultHandler, routing)
    BY ChecksKeep
  <2> QED BY Zenon, <2>1, <2>2 DEF NoCheckedLoop
<1>7. NoLoopBesidesDefault'
  BY Zenon, ChecksKeep DEF NoLoopBesidesDefault
<1>8. DefaultRead'
  BY Zenon DEF DefaultRead
<1>9. AddChecked'
  <2> SUFFICES ASSUME NEW k \in Adders, pc[k] = "publish"
               PROVE  ~loops(published' \cup {arg[k]}, def[k], routing)
    BY Zenon DEF AddChecked, Goroutines
  <2>1. IsFiniteSet(published \cup {arg[k]})
    BY Zenon, FiniteHandlers DEF RegistryShape, CallShape
  <2>2. published' \cup {arg[k]} \subseteq published \cup {arg[k]}
    BY Zenon
  <2> QED BY <2>1, <2>2, ChecksKeep DEF AddChecked, loops
<1>10. StillListed'
  BY Zenon DEF StillListed
<1>11. RouteChecked'
  <2> SUFFICES ASSUME NEW k \in Routers, pc[k] = "publish"
               PROVE  ~loopbackLoop(hs[k], defaultHandler', prop[k])
    BY Zenon DEF RouteChecked, Goroutines
  <2>1. IsFiniteSet(hs[k])
    BY Zenon, FiniteHandlers DEF CallShape
  <2>2. ~loopbackLoop(hs[k], defaultHandler, prop[k])
    BY Zenon DEF RouteChecked
  <2>3. hs[k] \subseteq hs[k]
    BY Zenon
  <2>4. defaultHandler' \in {defaultHandler, NoHandler}
    BY Zenon
  <2>5. ASSUME NEW d \in {defaultHandler, NoHandler} PROVE ~loopbackLoop(hs[k], d, prop[k])
    BY <2>1, <2>2, <2>3, LoopGrows
  <2> QED BY Zenon, <2>4, <2>5
<1>12. CloseHolds'
  BY Zenon DEF CloseHolds
<1>13. CloseReturned'
  BY Zenon DEF CloseReturned
<1> QED BY Zenon, <1>1, <1>2, <1>3, <1>4, <1>5, <1>6, <1>7, <1>8, <1>9, <1>10, <1>11, <1>12,
    <1>13

\* The handler is retired outside the lock.
LEMMA RetireStep == ASSUME NEW g \in Removers, IInv, Retire(g) PROVE IInv'
<1> USE DEF IInv, Shape, Goroutines
<1> /\ pc'[g] = "drain" /\ g \in Goroutines /\ g \notin Adders /\ g \notin Closers
    /\ g \notin Routers
    /\ \A k \in Goroutines : k # g => pc'[k] = pc[k]
  BY ZenonT(40), ManagerAssumption DEF Retire, Goto, MutexShape, CallShape, LifeShape,
     RegistryShape, Goroutines
<1> UNCHANGED <<published, defaultHandler, retiring, closed, routing, graph, arg, def, hs, prop,
                life, checkedDefault>>
  BY Zenon DEF Retire, Goto
<1>1. MutexShape'
  BY ZenonT(40), ManagerAssumption DEF Retire, Goto, MutexShape, Goroutines
<1>2. RegistryShape' /\ CallShape' /\ LifeShape'
  BY Zenon DEF RegistryShape, CallShape, LifeShape
<1>3. NoProxyCycle' /\ NoCheckedLoop' /\ NoLoopBesidesDefault'
  BY Zenon DEF NoProxyCycle, NoCheckedLoop, NoLoopBesidesDefault
<1>4. DefaultRead'
  BY Zenon DEF DefaultRead
<1>5. AddChecked'
  BY Zenon DEF AddChecked
<1>6. StillListed'
  BY Zenon DEF StillListed
<1>7. RouteChecked'
  BY Zenon DEF RouteChecked
<1>8. CloseHolds'
  BY Zenon DEF CloseHolds
<1>9. CloseReturned'
  BY Zenon DEF CloseReturned
<1> QED BY Zenon, <1>1, <1>2, <1>3, <1>4, <1>5, <1>6, <1>7, <1>8, <1>9

\* A retired handler owns nothing any more.
LEMMA DrainedStep == ASSUME NEW g \in Removers, IInv, Drained(g) PROVE IInv'
<1> USE DEF IInv, Shape, Goroutines
<1> /\ pc'[g] = "returned" /\ g \in Goroutines /\ g \notin Adders /\ g \notin Closers
    /\ g \notin Routers
    /\ \A k \in Goroutines : k # g => pc'[k] = pc[k]
    /\ retiring' \subseteq retiring
    /\ \A x \in Handlers : life'[x] \in {life[x], "closed"}
  BY ZenonT(40), ManagerAssumption DEF Drained, Goto, RegistryShape, MutexShape, LifeShape,
     CallShape, Goroutines
<1> UNCHANGED <<published, defaultHandler, closed, routing, graph, arg, def, hs, prop,
                checkedDefault>>
  BY Zenon DEF Drained, Goto
<1>1. RegistryShape'
  BY Zenon DEF Drained, Goto, RegistryShape
<1>2. MutexShape'
  BY ZenonT(40), ManagerAssumption DEF Drained, Goto, MutexShape, Goroutines
<1>3. LifeShape'
  BY Zenon DEF Drained, Goto, LifeShape
<1>4. CallShape'
  BY Zenon DEF CallShape
<1>5. NoProxyCycle' /\ NoCheckedLoop' /\ NoLoopBesidesDefault'
  BY Zenon DEF NoProxyCycle, NoCheckedLoop, NoLoopBesidesDefault
<1>6. DefaultRead'
  BY Zenon DEF DefaultRead
<1>7. AddChecked'
  BY Zenon DEF AddChecked
<1>8. StillListed'
  BY Zenon DEF StillListed
<1>9. RouteChecked'
  BY Zenon DEF RouteChecked
<1>10. CloseHolds'
  <2> SUFFICES ASSUME NEW k \in Closers, pc[k] \in {"close", "returned"},
                      NEW x \in published \cup retiring'
               PROVE  closed /\ (life'[x] = "closed" \/ x \in hs[k])
    BY Zenon DEF CloseHolds, Goroutines
  <2>1. closed /\ (life[x] = "closed" \/ x \in hs[k])
    BY Zenon DEF CloseHolds
  <2> QED BY <2>1 DEF Drained, LifeShape
<1>11. CloseReturned'
  BY Zenon DEF CloseReturned
<1> QED BY Zenon, <1>1, <1>2, <1>3, <1>4, <1>5, <1>6, <1>7, <1>8, <1>9, <1>10, <1>11

\* A change of routing is called.
LEMMA RouteCallStep ==
    ASSUME NEW g \in Routers, NEW R \in Routings, IInv, RouteCall(g, R)
    PROVE  IInv'
<1> USE DEF IInv, Shape, Goroutines
<1> /\ pc'[g] = "lock" /\ pc[g] = "idle" /\ g \in Goroutines /\ g \notin Adders
    /\ g \notin Closers /\ g \notin Removers
    /\ \A k \in Goroutines : k # g => pc'[k] = pc[k]
    /\ \A k \in Routers : k # g => prop'[k] = prop[k]
  BY ZenonT(40), ManagerAssumption DEF RouteCall, Goto, MutexShape, CallShape, LifeShape,
     RegistryShape, Goroutines
<1> UNCHANGED <<published, defaultHandler, retiring, closed, routing, graph, arg, def, hs, life,
                checkedDefault>>
  BY Zenon DEF RouteCall, Goto
<1>1. MutexShape'
  BY ManagerAssumption DEF RouteCall, Goto, MutexShape, Goroutines
<1>2. CallShape'
  BY Zenon DEF RouteCall, Goto, CallShape
<1>3. RegistryShape' /\ LifeShape'
  BY Zenon DEF RegistryShape, LifeShape
<1>4. NoProxyCycle' /\ NoCheckedLoop' /\ NoLoopBesidesDefault'
  BY Zenon DEF NoProxyCycle, NoCheckedLoop, NoLoopBesidesDefault
<1>5. DefaultRead'
  BY Zenon DEF DefaultRead
<1>6. AddChecked'
  BY Zenon DEF AddChecked
<1>7. StillListed'
  BY Zenon DEF StillListed
<1>8. RouteChecked'
  BY Zenon DEF RouteChecked
<1>9. CloseHolds'
  BY Zenon DEF CloseHolds
<1>10. CloseReturned'
  BY Zenon DEF CloseReturned
<1> QED BY Zenon, <1>1, <1>2, <1>3, <1>4, <1>5, <1>6, <1>7, <1>8, <1>9, <1>10

\* A change of routing takes the graph mutex.
LEMMA RouteLockStep == ASSUME NEW g \in Routers, IInv, RouteLock(g) PROVE IInv'
<1> USE DEF IInv, Shape, Goroutines
<1> /\ pc'[g] = "list" /\ pc[g] = "lock" /\ g \in Goroutines /\ g \notin Adders
    /\ g \notin Closers /\ g \notin Removers
    /\ \A k \in Goroutines : k # g => pc'[k] = pc[k]
  BY ZenonT(40), ManagerAssumption DEF RouteLock, Goto, mayLock, MutexShape, CallShape,
     LifeShape, RegistryShape, Goroutines
<1> UNCHANGED <<published, defaultHandler, retiring, closed, routing, arg, def, hs, prop, life,
                checkedDefault>>
  BY Zenon DEF RouteLock, Goto
<1>1. MutexShape'
  BY ZenonT(40), ManagerAssumption DEF RouteLock, Goto, mayLock, MutexShape, Goroutines
<1>2. RegistryShape' /\ CallShape' /\ LifeShape'
  BY Zenon DEF RegistryShape, CallShape, LifeShape
<1>3. NoProxyCycle' /\ NoCheckedLoop' /\ NoLoopBesidesDefault'
  BY Zenon DEF NoProxyCycle, NoCheckedLoop, NoLoopBesidesDefault
<1>4. DefaultRead'
  BY Zenon DEF DefaultRead
<1>5. AddChecked'
  BY Zenon DEF AddChecked
<1>6. StillListed'
  BY Zenon DEF StillListed
<1>7. RouteChecked'
  BY Zenon DEF RouteChecked
<1>8. CloseHolds'
  BY Zenon DEF CloseHolds
<1>9. CloseReturned'
  BY Zenon DEF CloseReturned
<1> QED BY Zenon, <1>1, <1>2, <1>3, <1>4, <1>5, <1>6, <1>7, <1>8, <1>9

\* guardRouting lists the handlers.
LEMMA RouteListStep == ASSUME NEW g \in Routers, IInv, RouteList(g) PROVE IInv'
<1> USE DEF IInv, Shape, Goroutines
<1> /\ pc'[g] = "default" /\ pc[g] = "list" /\ g \in Goroutines /\ g \notin Adders
    /\ g \notin Closers /\ g \notin Removers
    /\ \A k \in Goroutines : k # g => pc'[k] = pc[k]
    /\ hs'[g] = published
    /\ \A k \in Routers \cup Closers : k # g => hs'[k] = hs[k]
  BY ZenonT(40), ManagerAssumption DEF RouteList, Goto, MutexShape, CallShape, LifeShape,
     RegistryShape, Goroutines
<1> UNCHANGED <<published, defaultHandler, retiring, closed, routing, graph, arg, def, prop,
                life, checkedDefault>>
  BY Zenon DEF RouteList, Goto
<1>1. MutexShape'
  BY ZenonT(40), ManagerAssumption DEF RouteList, Goto, MutexShape, Goroutines
<1>2. CallShape'
  BY Zenon DEF RouteList, Goto, CallShape, RegistryShape
<1>3. RegistryShape' /\ LifeShape'
  BY Zenon DEF RegistryShape, LifeShape
<1>4. NoProxyCycle' /\ NoCheckedLoop' /\ NoLoopBesidesDefault'
  BY Zenon DEF NoProxyCycle, NoCheckedLoop, NoLoopBesidesDefault
<1>5. DefaultRead'
  BY Zenon DEF DefaultRead
<1>6. AddChecked'
  BY Zenon DEF AddChecked
<1>7. StillListed'
  BY Zenon DEF StillListed
<1>8. RouteChecked'
  BY Zenon DEF RouteChecked
<1>9. CloseHolds'
  BY Zenon DEF CloseHolds
<1>10. CloseReturned'
  BY Zenon DEF CloseReturned
<1> QED BY Zenon, <1>1, <1>2, <1>3, <1>4, <1>5, <1>6, <1>7, <1>8, <1>9, <1>10

\* guardRouting reads the default outbound and checks.
LEMMA RouteCheckStep == ASSUME NEW g \in Routers, IInv, RouteCheck(g) PROVE IInv'
<1> USE DEF IInv, Shape, Goroutines
<1> /\ pc'[g] \in {"publish", "returned"} /\ pc[g] = "default" /\ g \in Goroutines
    /\ g \notin Adders /\ g \notin Closers /\ g \notin Removers
    /\ \A k \in Goroutines : k # g => pc'[k] = pc[k]
    /\ pc'[g] = "publish" => ~loopbackLoop(hs[g], defaultHandler, prop[g])
  BY ManagerAssumption DEF RouteCheck, Goto, unlock, guardRouting, MutexShape, CallShape,
     LifeShape, RegistryShape, Goroutines
<1> UNCHANGED <<published, defaultHandler, retiring, closed, routing, arg, def, hs, prop, life,
                checkedDefault>>
  BY Zenon DEF RouteCheck, Goto, unlock
<1>1. MutexShape'
  BY ManagerAssumption DEF RouteCheck, Goto, unlock, guardRouting, MutexShape, Goroutines
<1>2. RegistryShape' /\ CallShape' /\ LifeShape'
  BY Zenon DEF RegistryShape, CallShape, LifeShape
<1>3. NoProxyCycle' /\ NoCheckedLoop' /\ NoLoopBesidesDefault'
  BY Zenon DEF NoProxyCycle, NoCheckedLoop, NoLoopBesidesDefault
<1>4. DefaultRead'
  BY Zenon DEF DefaultRead
<1>5. AddChecked'
  BY Zenon DEF AddChecked
<1>6. StillListed'
  BY Zenon DEF StillListed
<1>7. RouteChecked'
  BY Zenon DEF RouteChecked
<1>8. CloseHolds'
  BY Zenon DEF CloseHolds
<1>9. CloseReturned'
  BY Zenon DEF CloseReturned
<1> QED BY Zenon, <1>1, <1>2, <1>3, <1>4, <1>5, <1>6, <1>7, <1>8, <1>9

\* A routing is published over a part of the handlers it was checked with.
LEMMA RoutePublishStep == ASSUME NEW g \in Routers, IInv, RoutePublish(g) PROVE IInv'
<1> USE DEF IInv, Shape, Goroutines
<1> /\ pc'[g] = "returned" /\ pc[g] = "publish" /\ g \in Goroutines /\ g \notin Adders
    /\ g \notin Closers /\ g \notin Removers
    /\ \A k \in Goroutines : k # g => pc'[k] = pc[k]
    /\ \A k \in Routers \cup Closers : k # g => hs'[k] = hs[k]
    /\ \A k \in Adders \cup Routers : k # g => pc'[k] \notin {"default", "list", "publish"}
    /\ routing' = prop[g] /\ published \subseteq hs[g] /\ IsFiniteSet(hs[g])
    /\ ~loopbackLoop(hs[g], defaultHandler, routing')
  <2>1. g \in Goroutines /\ g \notin Adders /\ g \notin Closers /\ g \notin Removers
    BY Zenon, ManagerAssumption DEF Goroutines
  <2>2. graph = g /\ \A k \in Adders \cup Routers : k # g => k \in Goroutines /\ graph # k
    BY Zenon DEF MutexShape, RoutePublish, Goroutines
  <2>3. published \subseteq hs[g] /\ IsFiniteSet(hs[g])
    BY Zenon, FiniteHandlers DEF StillListed, RoutePublish, CallShape
  <2>4. ~loopbackLoop(hs[g], defaultHandler, prop[g])
    BY Zenon DEF RouteChecked, RoutePublish
  <2> QED BY Zenon, <2>1, <2>2, <2>3, <2>4 DEF RoutePublish, Goto, MutexShape, CallShape
<1> UNCHANGED <<published, defaultHandler, retiring, closed, arg, def, prop, life,
                checkedDefault>>
  BY Zenon DEF RoutePublish, Goto
<1>1. RegistryShape'
  BY DEF RoutePublish, Goto, RegistryShape, CallShape
<1>2. MutexShape'
  BY ManagerAssumption DEF RoutePublish, Goto, MutexShape, Goroutines
<1>3. CallShape'
  BY Zenon DEF RoutePublish, Goto, CallShape
<1>4. LifeShape'
  BY Zenon DEF LifeShape
<1>5. NoProxyCycle'
  BY Zenon DEF NoProxyCycle
<1>6. NoCheckedLoop'
  <2>1. ~loopbackLoop(published, defaultHandler, routing')
    BY LoopGrows
  <2> QED BY Zenon, <2>1 DEF NoCheckedLoop
<1>7. NoLoopBesidesDefault'
  <2>1. NoHandler \in {defaultHandler, NoHandler}
    BY Zenon
  <2>2. ~loopbackLoop(published, NoHandler, routing')
    BY <2>1, LoopGrows
  <2> QED BY Zenon, <2>2 DEF NoLoopBesidesDefault
<1>8. DefaultRead'
  BY Zenon DEF DefaultRead
<1>9. AddChecked'
  BY Zenon DEF AddChecked
<1>10. StillListed'
  BY Zenon DEF StillListed
<1>11. RouteChecked'
  BY Zenon DEF RouteChecked
<1>12. CloseHolds'
  BY Zenon DEF CloseHolds
<1>13. CloseReturned'
  BY Zenon DEF CloseReturned
<1> QED BY Zenon, <1>1, <1>2, <1>3, <1>4, <1>5, <1>6, <1>7, <1>8, <1>9, <1>10, <1>11, <1>12,
    <1>13

\* Close marks the manager closed and collects what it owns.
LEMMA CloseCallStep == ASSUME NEW g \in Closers, IInv, CloseCall(g) PROVE IInv'
<1> USE DEF IInv, Shape, Goroutines
<1> /\ pc'[g] = "close" /\ g \in Goroutines /\ g \notin Adders /\ g \notin Removers
    /\ g \notin Routers
    /\ \A k \in Goroutines : k # g => pc'[k] = pc[k]
    /\ \A k \in Routers \cup Closers : k # g => hs'[k] = hs[k]
    /\ closed' /\ hs'[g] = published \cup retiring
  BY ZenonT(40), ManagerAssumption DEF CloseCall, Goto, owned, RegistryShape, MutexShape,
     CallShape, LifeShape, Goroutines
<1> UNCHANGED <<published, defaultHandler, retiring, routing, graph, arg, def, prop, life,
                checkedDefault>>
  BY Zenon DEF CloseCall, Goto
<1>1. RegistryShape'
  BY Zenon DEF CloseCall, Goto, owned, RegistryShape
<1>2. MutexShape'
  BY ZenonT(40), ManagerAssumption DEF CloseCall, Goto, owned, MutexShape, Goroutines
<1>3. CallShape'
  <2>1. retiring \subseteq Handlers
    BY Zenon, ManagerAssumption DEF RegistryShape
  <2> QED BY Zenon, <2>1 DEF CloseCall, owned, CallShape, RegistryShape
<1>4. LifeShape'
  BY Zenon DEF LifeShape
<1>5. NoProxyCycle' /\ NoCheckedLoop' /\ NoLoopBesidesDefault'
  BY Zenon DEF NoProxyCycle, NoCheckedLoop, NoLoopBesidesDefault
<1>6. DefaultRead'
  BY Zenon DEF DefaultRead
<1>7. AddChecked'
  BY Zenon DEF AddChecked
<1>8. StillListed'
  BY Zenon DEF StillListed
<1>9. RouteChecked'
  BY Zenon DEF RouteChecked
<1>10. CloseHolds'
  BY Zenon DEF CloseHolds
<1>11. CloseReturned'
  BY Zenon DEF CloseReturned
<1> QED BY Zenon, <1>1, <1>2, <1>3, <1>4, <1>5, <1>6, <1>7, <1>8, <1>9, <1>10, <1>11

\* Close closes one handler.
LEMMA CloseNextStep ==
    ASSUME NEW g \in Closers, NEW h \in Handlers, IInv, CloseNext(g, h)
    PROVE  IInv'
<1> USE DEF IInv, Shape, Goroutines
<1> /\ g \in Goroutines /\ g \notin Adders /\ g \notin Removers /\ g \notin Routers
    /\ \A k \in Routers \cup Closers : k # g => hs'[k] = hs[k]
    /\ life'[h] = "closed" /\ hs'[g] = hs[g] \ {h}
    /\ \A x \in Handlers : x # h => life'[x] = life[x]
    /\ pc[g] = "close"
  BY ZenonT(40), ManagerAssumption DEF CloseNext, Goto, CallShape, LifeShape, MutexShape,
     RegistryShape, Goroutines
<1> UNCHANGED <<published, defaultHandler, retiring, closed, routing, graph, pc, arg, def, prop,
                checkedDefault>>
  BY Zenon DEF CloseNext, Goto
<1>1. CallShape'
  BY Zenon DEF CloseNext, Goto, CallShape
<1>2. LifeShape'
  BY Zenon DEF CloseNext, Goto, LifeShape
<1>3. RegistryShape' /\ MutexShape'
  BY Zenon DEF RegistryShape, MutexShape
<1>4. NoProxyCycle' /\ NoCheckedLoop' /\ NoLoopBesidesDefault' /\ DefaultRead' /\ AddChecked'
  BY Zenon DEF NoProxyCycle, NoCheckedLoop, NoLoopBesidesDefault, DefaultRead, AddChecked
<1>5. StillListed'
  BY Zenon DEF StillListed
<1>6. RouteChecked'
  BY Zenon DEF RouteChecked
<1>7. CloseHolds'
  <2> SUFFICES ASSUME NEW k \in Closers, pc[k] \in {"close", "returned"},
                      NEW x \in published \cup retiring
               PROVE  closed /\ (life'[x] = "closed" \/ x \in hs'[k])
    BY Zenon DEF CloseHolds
  <2>1. closed /\ (life[x] = "closed" \/ x \in hs[k])
    BY Zenon DEF CloseHolds
  <2> QED BY <2>1 DEF CloseNext, LifeShape, CallShape
<1>8. CloseReturned'
  BY Zenon DEF CloseReturned
<1> QED BY Zenon, <1>1, <1>2, <1>3, <1>4, <1>5, <1>6, <1>7, <1>8

\* Close returns when it holds no handler any more.
LEMMA CloseReturnsStep == ASSUME NEW g \in Closers, IInv, CloseReturns(g) PROVE IInv'
<1> USE DEF IInv, Shape, Goroutines
<1> /\ pc[g] = "close" /\ pc'[g] = "returned" /\ hs[g] = {} /\ g \in Goroutines
    /\ g \notin Adders /\ g \notin Removers /\ g \notin Routers
    /\ \A k \in Goroutines : k # g => pc'[k] = pc[k]
  BY ZenonT(40), ManagerAssumption DEF CloseReturns, Goto, MutexShape, CallShape, LifeShape,
     RegistryShape, Goroutines
<1> UNCHANGED <<published, defaultHandler, retiring, closed, routing, graph, arg, def, hs, prop,
                life, checkedDefault>>
  BY Zenon DEF CloseReturns, Goto
<1>1. MutexShape'
  BY ZenonT(40), ManagerAssumption DEF CloseReturns, Goto, MutexShape, Goroutines
<1>2. RegistryShape' /\ CallShape' /\ LifeShape'
  BY Zenon DEF RegistryShape, CallShape, LifeShape
<1>3. NoProxyCycle' /\ NoCheckedLoop' /\ NoLoopBesidesDefault'
  BY Zenon DEF NoProxyCycle, NoCheckedLoop, NoLoopBesidesDefault
<1>4. DefaultRead'
  BY Zenon DEF DefaultRead
<1>5. AddChecked'
  BY Zenon DEF AddChecked
<1>6. StillListed'
  BY Zenon DEF StillListed
<1>7. RouteChecked'
  BY Zenon DEF RouteChecked
<1>8. CloseHolds'
  BY Zenon DEF CloseHolds
<1>9. CloseReturned'
  BY Zenon DEF CloseReturned
<1> QED BY Zenon, <1>1, <1>2, <1>3, <1>4, <1>5, <1>6, <1>7, <1>8, <1>9

\* The registry that core.New has checked satisfies the inductive invariant.
LEMMA InitInv == Init => IInv
<1> SUFFICES ASSUME Init PROVE IInv
  BY Zenon
<1>1. RegistryShape /\ LifeShape
  BY Zenon DEF Init, RegistryShape, LifeShape
<1>2. MutexShape
  BY ManagerAssumption DEF Init, MutexShape, Goroutines
<1>3. CallShape
  <2>1. AnyHandler \in Handlers /\ AnyRouting \in Routings
    BY Zenon DEF Init, AnyHandler, AnyRouting
  <2> QED BY Zenon, <2>1 DEF Init, CallShape
<1>4. NoProxyCycle /\ NoCheckedLoop
  BY Zenon DEF Init, NoProxyCycle, NoCheckedLoop, loops
<1>5. NoLoopBesidesDefault
  <2>1. IsFiniteSet(published)
    BY Zenon, <1>1, FiniteHandlers DEF RegistryShape
  <2> QED BY <2>1, ChecksKeep DEF Init, NoLoopBesidesDefault, loops
<1>6. DefaultRead /\ AddChecked /\ StillListed /\ RouteChecked
  BY Zenon DEF Init, DefaultRead, AddChecked, StillListed, RouteChecked, Goroutines
<1>7. CloseHolds /\ CloseReturned
  BY Zenon DEF Init, CloseHolds, CloseReturned, Goroutines
<1> QED BY Zenon, <1>1, <1>2, <1>3, <1>4, <1>5, <1>6, <1>7 DEF IInv, Shape

\* Every step preserves the inductive invariant.
LEMMA InvStep == IInv /\ [Next]_vars => IInv'
<1> SUFFICES ASSUME IInv, [Next]_vars PROVE IInv'
  BY Zenon
<1>1. ASSUME NEW g \in Adders, AdderStep(g) \/ \E h \in Handlers : AddCall(g, h) PROVE IInv'
  BY Zenon, <1>1, AddCallStep, AddLockStep, AddDefaultStep, AddCheckStep, AddPublishStep
     DEF AdderStep
<1>2. ASSUME NEW g \in Removers, Retire(g) \/ Drained(g) \/ \E h \in Handlers : RemoveCall(g, h)
      PROVE  IInv'
  BY Zenon, <1>2, RemoveCallStep, RetireStep, DrainedStep
<1>3. ASSUME NEW g \in Routers, RouterStep(g) \/ \E R \in Routings : RouteCall(g, R) PROVE IInv'
  BY Zenon, <1>3, RouteCallStep, RouteLockStep, RouteListStep, RouteCheckStep,
     RoutePublishStep DEF RouterStep
<1>4. ASSUME NEW g \in Closers, CloseCall(g) \/ CloserStep(g) PROVE IInv'
  BY Zenon, <1>4, CloseCallStep, CloseNextStep, CloseReturnsStep DEF CloserStep
<1>5. CASE UNCHANGED vars
  <2> USE <1>5 DEF vars
  <2>1. Shape'
    BY Zenon DEF IInv, Shape, RegistryShape, MutexShape, CallShape, LifeShape
  <2>2. NoProxyCycle' /\ NoCheckedLoop' /\ NoLoopBesidesDefault' /\ DefaultRead' /\ AddChecked'
    BY Zenon DEF IInv, NoProxyCycle, NoCheckedLoop, NoLoopBesidesDefault, DefaultRead,
       AddChecked
  <2>3. StillListed' /\ RouteChecked' /\ CloseHolds' /\ CloseReturned'
    BY Zenon DEF IInv, StillListed, RouteChecked, CloseHolds, CloseReturned
  <2> QED BY Zenon, <2>1, <2>2, <2>3 DEF IInv
<1> QED BY Zenon, <1>1, <1>2, <1>3, <1>4, <1>5 DEF Next

\* The inductive invariant holds throughout.
LEMMA AlwaysInv == Spec => []IInv
<1>1. Init => IInv
  BY Zenon, InitInv
<1>2. IInv /\ [Next]_vars => IInv'
  BY Zenon, InvStep
<1> QED BY <1>1, <1>2, PTL DEF Spec

\* AddHandler, RemoveHandler and the router's changes never publish a dialerProxy
\* cycle, nor a loop through loopbacks as long as the default outbound is one that
\* a check has seen, whatever they are and however they interleave.
THEOREM OutboundNoUncheckedLoop == Spec => []NoUncheckedLoop
<1>1. IInv => NoUncheckedLoop
  BY Zenon DEF IInv, NoUncheckedLoop, NoProxyCycle, NoCheckedLoop
<1> QED BY <1>1, AlwaysInv, PTL

\* When Manager.Close has returned every handler that is published or drains is
\* closed, also one that was being added or removed meanwhile.
THEOREM OutboundCloseIsComplete == Spec => []CloseIsComplete
<1>1. IInv => CloseIsComplete
  BY Zenon, TypeShape DEF IInv, CloseHolds, CloseReturned, CloseIsComplete
<1> QED BY <1>1, AlwaysInv, PTL

-----------------------------------------------------------------------------
(* RoutedConnection: what an accepted configuration and its running share. *)

\* The outbounds that routing may have brought the connection to, and the
\* loopback inbounds that it may bring a connection of inbound s to.
Outs == outbounds(H, config.default, config.routing, inbound)
Onto(s) == from(H, config.default, config.routing, s)

\* The rules tried so far do not end the walk over the rules.
RulesTried ==
    step = "rules" =>
        rule \in 1 .. Len(rules) + 1 /\ \A j \in 1 .. rule - 1 : ~Ends(rules[j], inbound)

\* The levels of the pick so far go from the balancer of a rule that may match.
Picked ==
    step = "pick" =>
        /\ rule \in Reachable(rules, inbound) /\ rules[rule].balancer # NoTag
        /\ level \in 0 .. Cardinality(DOMAIN balancers)
        /\ \E p \in [0 .. level -> DOMAIN balancers] :
              /\ p[0] = rules[rule].balancer /\ p[level] = balancer
              /\ Descends(balancers, level, p)

\* What the pick ended with is among the outbounds.
Routed ==
    /\ step = "tag" => At(H, tag) \subseteq Outs
    /\ step = "default" => config.default \in Outs

\* The outbounds dialed through so far go from one of them.
Dialed ==
    step = "dial" =>
        \E n \in 0 .. Cardinality(H) : \E p \in [0 .. n -> H] :
            p[0] \in Outs /\ p[n] = at /\ Dials(H, n, p)

\* The loopbacks passed: each led to another one, or to where the connection is.
Ring(W) ==
    /\ passed = {h.tag : h \in W}
    /\ \A h \in W : h.loop # NoState /\ (h.tag = NoTag => h = config.default)
    /\ W # {} => inbound \in {h.loop : h \in W}
    /\ \A h \in W : h.loop = inbound \/ Onto(h.loop) \cap {w.loop : w \in W} # {}
Passed == \E W \in SUBSET H : Ring(W)

CInv ==
    /\ config \in Configs /\ accepted(config) /\ guard = "none"
    /\ RulesTried /\ Picked /\ Routed /\ Dialed /\ Passed

\* A sequence is a function on the numbers up to its length.
LEMMA SeqDomain == ASSUME NEW D, NEW s \in Seq(D) PROVE Len(s) \in Nat /\ DOMAIN s = 1 .. Len(s)
OBVIOUS

\* What a configuration that core.New accepts is like.
LEMMA ConfigIs ==
    ASSUME config \in Configs, accepted(config)
    PROVE  /\ IsFiniteSet(H) /\ config.default \in H /\ config.default # NoHandler
           /\ \A g, h \in H : g.tag = h.tag /\ g.tag # NoTag => g = h
           /\ Len(rules) \in Nat /\ DOMAIN rules = 1 .. Len(rules)
           /\ \A i \in DOMAIN rules : rules[i].balancer \in DOMAIN balancers \cup {NoTag}
           /\ IsFiniteSet(DOMAIN balancers) /\ NoTag \notin DOMAIN balancers
           /\ \A b \in DOMAIN balancers : NoTag \notin balancers[b].selects
           /\ \A b \in DOMAIN balancers : balancers[b].members \subseteq DOMAIN balancers
           /\ ~HasCycle([b \in DOMAIN balancers |->
                            balancers[b].members \cup {balancers[b].fallback}])
           /\ ~dialerProxyCycle(H)
           /\ ~loopbackLoop(H, config.default, config.routing)
<1>1. /\ IsFiniteSet(H) /\ config.default \in H /\ config.default # NoHandler
      /\ \A g, h \in H : g.tag = h.tag /\ g.tag # NoTag => g = h
      /\ rules \in Seq({rules[i] : i \in DOMAIN rules})
      /\ \A i \in DOMAIN rules : rules[i].balancer \in DOMAIN balancers \cup {NoTag}
      /\ IsFiniteSet(DOMAIN balancers) /\ NoTag \notin DOMAIN balancers
      /\ \A b \in DOMAIN balancers : NoTag \notin balancers[b].selects
  BY Zenon, RouteAssumption DEF H, rules, balancers
<1>2. Len(rules) \in Nat /\ DOMAIN rules = 1 .. Len(rules)
  BY Zenon, <1>1, SeqDomain
<1>3. /\ \A b \in DOMAIN balancers : balancers[b].members \subseteq DOMAIN balancers
      /\ ~HasCycle([b \in DOMAIN balancers |->
                       balancers[b].members \cup {balancers[b].fallback}])
      /\ ~dialerProxyCycle(H)
      /\ ~loopbackLoop(H, config.default, config.routing)
  BY Zenon DEF accepted, balancerGraphOK, H, balancers
<1> QED BY Zenon, <1>1, <1>2, <1>3

\* What a step that stays with the inbound leaves as it is.
LEMMA InboundStays ==
    ASSUME CInv, UNCHANGED <<config, inbound, passed>>
    PROVE  /\ Passed' /\ Outs' = Outs /\ config' \in Configs /\ accepted(config')
           /\ H' = H /\ rules' = rules /\ balancers' = balancers
BY Zenon DEF CInv, Passed, Ring, Onto, Outs, H, rules, balancers

\* A rule matches.
LEMMA MatchesStep == ASSUME CInv, Matches PROVE CInv'
<1> /\ Passed' /\ Outs' = Outs /\ config' \in Configs /\ accepted(config')
    /\ H' = H /\ rules' = rules /\ balancers' = balancers
  BY Zenon, InboundStays DEF Matches
<1> DEFINE b == rules[rule].balancer
<1>1. /\ step = "rules" /\ rule \in DOMAIN rules /\ rule \in Reachable(rules, inbound)
      /\ rule \in Nat
  <2>1. /\ step = "rules" /\ rule <= Len(rules) /\ Names(rules[rule], inbound)
        /\ Len(rules) \in Nat /\ DOMAIN rules = 1 .. Len(rules)
    BY Zenon, ConfigIs DEF CInv, Matches
  <2>2. rule \in 1 .. Len(rules) + 1 /\ \A j \in 1 .. rule - 1 : ~Ends(rules[j], inbound)
    BY Zenon, <2>1 DEF CInv, RulesTried
  <2>3. rule \in DOMAIN rules /\ rule \in Nat
    BY <2>1, <2>2
  <2> QED BY Zenon, <2>1, <2>2, <2>3 DEF Reachable
<1>2. CASE b = NoTag
  <2>1. step' = "tag" /\ tag' = rules[rule].tag
    BY Zenon, <1>2 DEF Matches
  <2>2. At(H, rules[rule].tag) \subseteq Outs
    BY Zenon, <1>1, <1>2, OutboundsOf DEF Outs, rules, leads
  <2> QED BY Zenon, <2>1, <2>2 DEF CInv, RulesTried, Picked, Routed, Dialed, Matches
<1>3. CASE b # NoTag
  <2>1. step' = "pick" /\ balancer' = b /\ level' = 0 /\ rule' = rule /\ inbound' = inbound
    BY Zenon, <1>3 DEF Matches
  <2>2. b \in DOMAIN balancers /\ Cardinality(DOMAIN balancers) \in Nat
    BY Zenon, <1>1, <1>3, ConfigIs, FS_CardinalityType DEF CInv
  <2> DEFINE p == [i \in 0 .. 0 |-> b]
  <2>3. /\ p \in [0 .. 0 -> DOMAIN balancers] /\ p[0] = b /\ Descends(balancers, 0, p)
        /\ 0 \in 0 .. Cardinality(DOMAIN balancers)
    BY <2>2 DEF Descends
  <2> HIDE DEF p
  <2>4. Picked'
    BY Zenon, <1>1, <1>3, <2>1, <2>3 DEF Picked
  <2> QED BY Zenon, <2>1, <2>4 DEF CInv, RulesTried, Routed, Dialed, Matches
<1> QED BY Zenon, <1>2, <1>3

\* A rule does not match; it is none that the inbound alone decides.
LEMMA NoMatchStep == ASSUME CInv, NoMatch PROVE CInv'
<1> /\ Passed' /\ Outs' = Outs /\ config' \in Configs /\ accepted(config')
    /\ H' = H /\ rules' = rules /\ balancers' = balancers
  BY Zenon, InboundStays DEF NoMatch
<1>1. ~Ends(rules[rule], inbound)
  BY Zenon DEF NoMatch, Ends, Names
<1>2. RulesTried'
  BY <1>1, ConfigIs DEF CInv, RulesTried, NoMatch
<1> QED BY Zenon, <1>2 DEF CInv, Picked, Routed, Dialed, NoMatch

\* The rules are tried again, with resolved addresses.
LEMMA AgainStep == ASSUME CInv, Again PROVE CInv'
<1> /\ Passed' /\ Outs' = Outs /\ config' \in Configs /\ accepted(config')
    /\ H' = H /\ rules' = rules /\ balancers' = balancers
  BY Zenon, InboundStays DEF Again
<1>1. RulesTried'
  <2>1. Len(rules) \in Nat /\ rule' = 1
    BY Zenon, ConfigIs DEF CInv, Again
  <2>2. 1 \in 1 .. Len(rules) + 1 /\ 1 .. 1 - 1 = {}
    BY <2>1
  <2> QED BY Zenon, <2>1, <2>2 DEF RulesTried
<1> QED BY Zenon, <1>1 DEF CInv, Picked, Routed, Dialed, Again

\* No rule matches: none of them is one that the inbound alone decides.
LEMMA NoClueStep == ASSUME CInv, NoClue PROVE CInv'
<1> /\ Passed' /\ Outs' = Outs /\ config' \in Configs /\ accepted(config')
    /\ H' = H /\ rules' = rules /\ balancers' = balancers
  BY Zenon, InboundStays DEF NoClue
<1>1. \A j \in DOMAIN rules : ~Ends(rules[j], inbound)
  <2>1. rule > Len(rules) /\ Len(rules) \in Nat /\ DOMAIN rules = 1 .. Len(rules)
    BY Zenon, ConfigIs DEF CInv, NoClue
  <2>2. rule \in 1 .. Len(rules) + 1 /\ \A j \in 1 .. rule - 1 : ~Ends(rules[j], inbound)
    BY Zenon DEF CInv, RulesTried, NoClue
  <2>3. \A j \in DOMAIN rules : j \in 1 .. rule - 1
    BY <2>1, <2>2
  <2> QED BY Zenon, <2>2, <2>3
<1>2. config.default \in Outs
  BY Zenon, <1>1, ConfigIs, OutboundsOf DEF CInv, Outs, rules, Default
<1> QED BY Zenon, <1>2 DEF CInv, RulesTried, Picked, Routed, Dialed, NoClue

\* resolveChain: a pick that has come n levels down is at a balancer of the chain,
\* and there are more balancers than that.
LEMMA PickedAt ==
    ASSUME CInv, step = "pick"
    PROVE  /\ balancer \in DOMAIN balancers
           /\ balancer \in levels(balancers, rules[rule].balancer)
           /\ level < Cardinality(DOMAIN balancers)
<1> DEFINE m == Cardinality(DOMAIN balancers)
           f == [b \in DOMAIN balancers |->
                    balancers[b].members \cup {balancers[b].fallback}]
<1>1. m \in Nat /\ IsFiniteSet(DOMAIN balancers) /\ ~HasCycle(f)
  BY Zenon, ConfigIs, FS_CardinalityType DEF CInv
<1>2. level \in 0 .. m
  BY Zenon DEF CInv, Picked
<1>3. PICK p \in [0 .. level -> DOMAIN balancers] :
          /\ p[0] = rules[rule].balancer /\ p[level] = balancer
          /\ Descends(balancers, level, p)
  BY Zenon DEF CInv, Picked
<1>4. level \in Nat /\ level \in 0 .. level
  BY <1>2, <1>1
<1>5. balancer \in DOMAIN balancers
  BY Zenon, <1>3, <1>4
<1>6. balancer \in levels(balancers, rules[rule].balancer)
  BY Zenon, <1>1, <1>2, <1>3, WalkWithin DEF Descends
<1>7. level < m
  <2> SUFFICES ASSUME level >= m PROVE HasCycle(f)
    BY <1>1, <1>4
  <2>1. DOMAIN f = DOMAIN balancers
    BY Zenon
  <2>2. ASSUME NEW i \in 0 .. level - 1 PROVE p[i + 1] \in f[p[i]]
    <3>1. p[i + 1] \in below(balancers, p[i]) /\ i \in 0 .. level
      BY <1>3, <1>4 DEF Descends
    <3> QED BY Zenon, <3>1 DEF below
  <2> HIDE DEF f
  <2> QED BY Zenon, <1>1, <1>3, <1>4, <2>1, <2>2, WalkCycle
<1> QED BY Zenon, <1>5, <1>6, <1>7

\* What a pick returns: the override, a candidate, or the fallback, and said so.
LEMMA PickIs ==
    ASSUME NEW b, NEW q \in picks(b)
    PROVE  \/ q.tag = b.override /\ q.tag # NoTag
           \/ q.tag \in b.selects \cup b.members
           \/ q.tag = b.fallback /\ q.fallback = (b.fallback # NoTag)
BY DEF picks

\* A level is picked.
LEMMA LevelStep ==
    ASSUME CInv, step = "pick", NEW q \in picks(balancers[balancer]), Level(q)
    PROVE  CInv'
<1> /\ Passed' /\ Outs' = Outs /\ config' \in Configs /\ accepted(config')
    /\ H' = H /\ rules' = rules /\ balancers' = balancers
  BY Zenon, InboundStays DEF Level
<1> DEFINE x == balancers[balancer]
           on == (q.fallback \/ q.tag \in x.members) /\ q.tag \in DOMAIN balancers
<1>1. /\ balancer \in DOMAIN balancers
      /\ balancer \in levels(balancers, rules[rule].balancer)
      /\ level < Cardinality(DOMAIN balancers) /\ level \in Nat
      /\ Cardinality(DOMAIN balancers) \in Nat
  <2>1. Cardinality(DOMAIN balancers) \in Nat
    BY Zenon, ConfigIs, FS_CardinalityType DEF CInv
  <2> QED BY <2>1, PickedAt DEF CInv, Picked
<1>2. chain(H, config.default, balancers, rules[rule].balancer) \subseteq Outs
  BY Zenon, OutboundsOf DEF CInv, Picked, Outs, rules, balancers, leads
<1>3. /\ rule' = rule /\ inbound' = inbound /\ level' = level + 1
      /\ step' = IF q.tag = NoTag THEN "default" ELSE IF ~on THEN "tag" ELSE "pick"
      /\ guard' = guard /\ balancer' = (IF on THEN q.tag ELSE balancer)
      /\ tag' = IF on THEN tag ELSE q.tag
  BY Zenon, <1>1 DEF Level, CInv
<1>4. \/ q.tag = x.override /\ q.tag # NoTag
      \/ q.tag \in x.selects \cup x.members
      \/ q.tag = x.fallback /\ q.fallback = (x.fallback # NoTag)
  BY Zenon, PickIs
<1>5. /\ x.members \subseteq DOMAIN balancers
      /\ NoTag \notin x.selects /\ NoTag \notin DOMAIN balancers
  BY Zenon, <1>1, ConfigIs DEF CInv
<1>6. CASE q.tag = NoTag
  <2>1. x.fallback = NoTag
    BY Zenon, <1>4, <1>5, <1>6
  <2>2. config.default \in Outs
    BY Zenon, <2>1, <1>1, <1>2, ChainEnds, ConfigIs DEF CInv, Default
  <2>3. step' = "default"
    BY Zenon, <1>3, <1>6
  <2> QED BY Zenon, <1>3, <2>2, <2>3 DEF CInv, RulesTried, Picked, Routed, Dialed, Level
<1>7. CASE q.tag # NoTag /\ ~on
  <2>1. \/ q.tag \in x.selects \cup {x.override}
        \/ q.tag = x.fallback /\ x.fallback \notin DOMAIN balancers /\ x.fallback # NoTag
    BY Zenon, <1>4, <1>5, <1>7
  <2>2. At(H, q.tag) \subseteq Outs
    BY Zenon, <2>1, <1>1, <1>2, ChainEnds
  <2>3. step' = "tag" /\ tag' = q.tag
    BY Zenon, <1>3, <1>7
  <2> QED BY Zenon, <1>3, <2>2, <2>3 DEF CInv, RulesTried, Picked, Routed, Dialed, Level
<1>8. CASE q.tag # NoTag /\ on
  <2>1. q.tag \in below(balancers, balancer)
    BY <1>4, <1>8 DEF below, picks
  <2>2. PICK p \in [0 .. level -> DOMAIN balancers] :
            /\ p[0] = rules[rule].balancer /\ p[level] = balancer
            /\ Descends(balancers, level, p)
    BY Zenon DEF CInv, Picked
  <2> DEFINE r == [i \in 0 .. level + 1 |-> IF i = level + 1 THEN q.tag ELSE p[i]]
  <2>3. r \in [0 .. level + 1 -> DOMAIN balancers]
    BY <1>1, <1>8, <2>2
  <2>4. r[0] = p[0] /\ r[level] = p[level] /\ r[level + 1] = q.tag
    BY <1>1
  <2>5. Descends(balancers, level + 1, r)
    <3> SUFFICES ASSUME NEW i \in 0 .. (level + 1) - 1 PROVE r[i + 1] \in below(balancers, r[i])
      BY Zenon DEF Descends
    <3>1. CASE i = level
      BY Zenon, <3>1, <2>1, <2>2, <2>4
    <3>2. CASE i # level
      <4>1. i \in 0 .. level - 1 /\ r[i] = p[i] /\ r[i + 1] = p[i + 1]
        BY <3>2, <1>1
      <4> QED BY Zenon, <4>1, <2>2 DEF Descends
    <3> QED BY Zenon, <3>1, <3>2
  <2>6. level + 1 \in 0 .. Cardinality(DOMAIN balancers)
    BY <1>1
  <2>7. step' = "pick" /\ balancer' = q.tag
    BY Zenon, <1>3, <1>8
  <2> HIDE DEF r
  <2>8. Picked'
    <3>1. r[0] = rules[rule].balancer
      BY Zenon, <2>2, <2>4
    <3>2. rule \in Reachable(rules, inbound) /\ rules[rule].balancer # NoTag
      BY Zenon DEF CInv, Picked
    <3> QED BY Zenon, <1>3, <2>3, <2>4, <2>5, <2>6, <2>7, <3>1, <3>2 DEF Picked
  <2> QED BY Zenon, <1>3, <2>7, <2>8 DEF CInv, RulesTried, Routed, Dialed, Level
<1> QED BY Zenon, <1>6, <1>7, <1>8

\* The dispatcher hands the connection to an outbound of the configuration.
LEMMA FirstDial ==
    ASSUME CInv, NEW h \in Outs
    PROVE  \E n \in 0 .. Cardinality(H) : \E p \in [0 .. n -> H] :
               p[0] \in Outs /\ p[n] = h /\ Dials(H, n, p)
<1>1. h \in H /\ Cardinality(H) \in Nat
  <2>1. h \in H
    BY Zenon, ConfigIs, OutboundsAre DEF CInv, Outs
  <2> QED BY Zenon, <2>1, ConfigIs, FS_CardinalityType DEF CInv
<1> DEFINE p == [i \in 0 .. 0 |-> h]
<1>2. /\ 0 \in 0 .. Cardinality(H) /\ p \in [0 .. 0 -> H] /\ p[0] = h /\ Dials(H, 0, p)
  BY <1>1 DEF Dials
<1> HIDE DEF p
<1> QED BY Zenon, <1>2

\* The outbound of the tag, or none.
LEMMA DetourStep == ASSUME CInv, Detour PROVE CInv'
<1> /\ Passed' /\ Outs' = Outs /\ config' \in Configs /\ accepted(config')
    /\ H' = H /\ rules' = rules /\ balancers' = balancers
  BY Zenon, InboundStays DEF Detour
<1>1. Dialed'
  BY Zenon, FirstDial DEF CInv, Routed, Detour, Dialed
<1> QED BY Zenon, <1>1 DEF CInv, RulesTried, Picked, Routed, Detour

\* The default outbound.
LEMMA DefaultRouteStep == ASSUME CInv, DefaultRoute PROVE CInv'
<1> /\ Passed' /\ Outs' = Outs /\ config' \in Configs /\ accepted(config')
    /\ H' = H /\ rules' = rules /\ balancers' = balancers
  BY Zenon, InboundStays DEF DefaultRoute
<1>1. Dialed'
  BY Zenon, FirstDial DEF CInv, Routed, DefaultRoute, Dialed
<1> QED BY Zenon, <1>1 DEF CInv, RulesTried, Picked, Routed, DefaultRoute

\* An outbound dials through another one, or out.
LEMMA DialStep == ASSUME CInv, Dial PROVE CInv'
<1> /\ Passed' /\ Outs' = Outs /\ config' \in Configs /\ accepted(config')
    /\ H' = H /\ rules' = rules /\ balancers' = balancers
  BY Zenon, InboundStays DEF Dial
<1>1. Dialed'
  <2> SUFFICES ASSUME NEW h \in At(H, at.via), at' = h, at.loop = NoState, step = "dial"
               PROVE  \E n \in 0 .. Cardinality(H) : \E p \in [0 .. n -> H] :
                          p[0] \in Outs /\ p[n] = h /\ Dials(H, n, p)
    BY Zenon DEF Dial, Dialed
  <2>1. PICK n \in 0 .. Cardinality(H) : \E p \in [0 .. n -> H] :
            p[0] \in Outs /\ p[n] = at /\ Dials(H, n, p)
    BY Zenon DEF CInv, Dialed
  <2>2. PICK p \in [0 .. n -> H] : p[0] \in Outs /\ p[n] = at /\ Dials(H, n, p)
    BY Zenon, <2>1
  <2>3. Cardinality(H) \in Nat /\ IsFiniteSet(H) /\ ~dialerProxyCycle(H)
    BY Zenon, ConfigIs, FS_CardinalityType DEF CInv
  <2>4. n \in Nat /\ n < Cardinality(H)
    BY <2>2, <2>3, DialsEnd
  <2> DEFINE r == [i \in 0 .. n + 1 |-> IF i = n + 1 THEN h ELSE p[i]]
  <2>5. r \in [0 .. n + 1 -> H] /\ n + 1 \in 0 .. Cardinality(H)
    <3>1. h \in H
      BY Zenon DEF At
    <3> QED BY <2>2, <2>3, <2>4, <3>1
  <2>6. r[0] = p[0] /\ r[n] = p[n] /\ r[n + 1] = h
    BY <2>4
  <2>7. Dials(H, n + 1, r)
    <3> SUFFICES ASSUME NEW i \in 0 .. (n + 1) - 1
                 PROVE  r[i].loop = NoState /\ r[i + 1] \in At(H, r[i].via)
      BY Zenon DEF Dials
    <3>1. CASE i = n
      BY Zenon, <3>1, <2>2, <2>6
    <3>2. CASE i # n
      <4>1. i \in 0 .. n - 1 /\ r[i] = p[i] /\ r[i + 1] = p[i + 1]
        BY <3>2, <2>4
      <4> QED BY Zenon, <4>1, <2>2 DEF Dials
    <3> QED BY Zenon, <3>1, <3>2
  <2> HIDE DEF r
  <2> QED BY Zenon, <2>2, <2>5, <2>6, <2>7
<1> QED BY Zenon, <1>1 DEF CInv, RulesTried, Picked, Routed, Dial

\* Loopback.Process: the inbound is one that the check has seen it lead to, and
\* the loopback has a tag unless it is the default outbound.
LEMMA LoopedFrom ==
    ASSUME CInv, step = "dial", at.loop # NoState
    PROVE  /\ at \in H /\ (at.tag = NoTag => at = config.default)
           /\ at.loop \in Onto(inbound)
<1>1. PICK n \in 0 .. Cardinality(H) : \E p \in [0 .. n -> H] :
          p[0] \in Outs /\ p[n] = at /\ Dials(H, n, p)
  BY Zenon DEF CInv, Dialed
<1>2. PICK p \in [0 .. n -> H] : p[0] \in Outs /\ p[n] = at /\ Dials(H, n, p)
  BY Zenon, <1>1
<1>3. IsFiniteSet(H) /\ config.default \in H /\ Cardinality(H) \in Nat
  BY Zenon, ConfigIs, FS_CardinalityType DEF CInv
<1>4. at.loop \in LoopbackReached(H, p[0])
  BY Zenon, <1>2, <1>3, DialsReach
<1>5. at.loop \in Onto(inbound)
  BY Zenon, <1>2, <1>4 DEF Onto, Outs, from
<1>6. n \in 0 .. n /\ (n # 0 => n - 1 \in 0 .. n - 1 /\ (n - 1) + 1 = n)
  BY <1>3
<1>7. at \in H
  BY Zenon, <1>2, <1>6
<1>8. at.tag = NoTag => at = config.default
  <2>1. CASE n = 0
    BY <2>1, <1>2, <1>3, OutboundsAre DEF Outs
  <2>2. CASE n # 0
    <3>1. p[(n - 1) + 1] \in At(H, p[n - 1].via)
      BY Zenon, <2>2, <1>2, <1>6 DEF Dials
    <3>2. at \in At(H, p[n - 1].via)
      BY <3>1, <2>2, <1>2, <1>6, Zenon
    <3> QED BY Zenon, <3>2 DEF At
  <2> QED BY Zenon, <2>1, <2>2
<1> QED BY Zenon, <1>5, <1>7, <1>8

\* A loopback takes the connection back to the rules.  It was not passed before:
\* the loopbacks passed since would be a loop that the check refuses.
LEMMA LoopbackStep == ASSUME CInv, Loopback PROVE CInv'
<1>1. /\ at \in H /\ (at.tag = NoTag => at = config.default)
      /\ at.loop # NoState /\ at.loop \in Onto(inbound)
  BY Zenon, LoopedFrom DEF Loopback
<1>2. PICK W \in SUBSET H : Ring(W)
  BY Zenon DEF CInv, Passed
<1>3. at.tag \notin passed
  <2> SUFFICES ASSUME at.tag \in passed PROVE FALSE
    BY Zenon
  <2>1. PICK w \in W : w.tag = at.tag
    BY Zenon, <1>2 DEF Ring
  <2>2. w = at
    BY Zenon, <2>1, <1>1, <1>2, ConfigIs DEF Ring, CInv
  <2> DEFINE f == [s \in {h.loop : h \in H} \ {NoState} |->
                       from(H, config.default, config.routing, s)]
             C == {h.loop : h \in W}
  <2>3. C \subseteq DOMAIN f /\ C # {}
    BY Zenon, <2>1, <1>2 DEF Ring
  <2>4. ASSUME NEW s \in C PROVE f[s] \cap C # {}
    <3>1. f[s] = Onto(s)
      BY Zenon, <2>3 DEF Onto
    <3>2. at.loop \in C
      BY Zenon, <2>1, <2>2
    <3> QED BY Zenon, <3>1, <3>2, <1>1, <1>2 DEF Ring
  <2>5. HasCycle(f)
    <3> HIDE DEF f, C
    <3> QED BY Zenon, <2>3, <2>4 DEF HasCycle
  <2> QED BY Zenon, <2>5, ConfigIs DEF CInv, loopbackLoop
<1>4. /\ passed' = passed \cup {at.tag} /\ inbound' = at.loop /\ config' = config
      /\ step' = "rules" /\ rule' = 1 /\ guard' = guard
  BY Zenon, <1>3 DEF Loopback
<1>5. /\ H' = H /\ rules' = rules
      /\ \A s : (Onto(s))' = Onto(s)
  BY Zenon, <1>4 DEF H, rules, Onto
<1>6. Passed'
  <2>1. PICK a : a = at
    BY Zenon
  <2> DEFINE V == W \cup {a}
  <2>2. V \in SUBSET H' /\ V # {} /\ a \in V /\ W \subseteq V
    BY Zenon, <1>1, <1>5, <2>1
  <2>3. passed' = {h.tag : h \in V}
    BY Zenon, <1>2, <1>4, <2>1 DEF Ring
  <2>4. \A h \in V : h.loop # NoState /\ (h.tag = NoTag => h = config'.default)
    BY Zenon, <1>1, <1>2, <1>4, <2>1 DEF Ring
  <2>5. a.loop \in {h.loop : h \in V} /\ {h.loop : h \in W} \subseteq {h.loop : h \in V}
    BY Zenon, <2>2
  <2>6. ASSUME NEW h \in V
        PROVE  h.loop = inbound' \/ Onto(h.loop) \cap {w.loop : w \in V} # {}
    BY Zenon, <1>1, <1>2, <1>4, <2>1, <2>5 DEF Ring
  <2> HIDE DEF V
  <2>7. Ring(V)'
    BY Zenon, <1>4, <1>5, <2>1, <2>3, <2>4, <2>5, <2>6 DEF Ring
  <2> QED BY Zenon, <2>2, <2>7 DEF Passed
<1>7. RulesTried'
  <2>1. Len(rules) \in Nat
    BY Zenon, ConfigIs DEF CInv
  <2> QED BY <1>4, <1>5, <2>1 DEF RulesTried
<1> QED BY Zenon, <1>4, <1>6, <1>7 DEF CInv, Picked, Routed, Dialed

\* The invariant holds in every state that a connection reaches.
LEMMA RouteInvariant == RouteSpec => []CInv
<1>1. RouteInit => CInv
  <2> SUFFICES ASSUME RouteInit PROVE CInv
    BY Zenon
  <2>1. Len(rules) \in Nat
    BY Zenon, ConfigIs DEF RouteInit
  <2>2. RulesTried
    BY <2>1 DEF RouteInit, RulesTried
  <2>3. Passed
    <3>1. Ring({}) /\ {} \in SUBSET H
      BY Zenon DEF RouteInit, Ring
    <3> QED BY Zenon, <3>1 DEF Passed
  <2> QED BY Zenon, <2>2, <2>3 DEF RouteInit, CInv, Picked, Routed, Dialed
<1>2. CInv /\ [RouteNext]_routeVars => CInv'
  <2> SUFFICES ASSUME CInv, [RouteNext]_routeVars PROVE CInv'
    BY Zenon
  <2>1. CASE Matches BY Zenon, <2>1, MatchesStep
  <2>2. CASE NoMatch BY Zenon, <2>2, NoMatchStep
  <2>3. CASE Again BY Zenon, <2>3, AgainStep
  <2>4. CASE NoClue BY Zenon, <2>4, NoClueStep
  <2>5. CASE \E p \in IF step = "pick" THEN picks(balancers[balancer]) ELSE {} : Level(p)
    BY Zenon, <2>5, LevelStep
  <2>6. CASE Detour BY Zenon, <2>6, DetourStep
  <2>7. CASE DefaultRoute BY Zenon, <2>7, DefaultRouteStep
  <2>8. CASE Dial BY Zenon, <2>8, DialStep
  <2>9. CASE Loopback BY Zenon, <2>9, LoopbackStep
  <2>10. CASE UNCHANGED routeVars
    BY Zenon, <2>10, InboundStays DEF routeVars, CInv, RulesTried, Picked, Routed, Dialed
  <2> QED BY Zenon, <2>1, <2>2, <2>3, <2>4, <2>5, <2>6, <2>7, <2>8, <2>9, <2>10 DEF RouteNext
<1> QED BY <1>1, <1>2, PTL DEF RouteSpec

\* In every configuration that checkBalancerGraph and checkLoops accept, whatever
\* rules match and strategies pick, a pick ends within as many levels as there are
\* balancers and no connection comes to a loopback twice: the guards in
\* resolveChain and Loopback.Process never act.
THEOREM RouteGuardsSilent == RouteSpec => []GuardsSilent
<1>1. CInv => GuardsSilent
  BY Zenon DEF CInv, GuardsSilent
<1> QED BY RouteInvariant, <1>1, PTL
=============================================================================

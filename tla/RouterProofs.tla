---------------------------- MODULE RouterProofs ----------------------------
(***************************************************************************)
(* Proofs about Router, for any changes and numbers of goroutines.         *)
(*                                                                         *)
(* The changes hold a mutex, and the picks none: what a pick has read      *)
(* stays valid because a balancer's map is only ever replaced by one that  *)
(* has the balancer.  A webhook is in a published rule, closed, or in the  *)
(* hands of the holder of r.mu.                                            *)
(***************************************************************************)
EXTENDS Router, TLAPS

RuleRecs == [by : Reloaders \cup {Boot}, n : Nat, ruleTag : AnyTag, hook : BOOLEAN,
             balancer : Balancers \cup {NoBalancer}]
HookRecs == {r \in RuleRecs : r.hook}
MuHolders == Changers \cup RouterClosers

RLockShape ==
    /\ graphMu \in Changers \cup {Unlocked} /\ mu \in MuHolders \cup {Unlocked}
    /\ \A g \in Changers : (graphMu = g) = (rpc[g] \notin {"idle", "returned"})
    /\ \A g \in MuHolders : (mu = g) = (rpc[g] \in {"peers", "rules", "close"})
    /\ rpc \in [RouterGoroutines -> {"idle", "locked", "peers", "rules", "close", "returned",
                                     "match", "map", "level", "cut", "fire", "fired", "post"}]
RPubShape ==
    /\ rules \subseteq RuleRecs /\ balancers \in Maps
    /\ peers \in [Balancers -> Maps \cup {NoMap}]
    /\ override \in [Balancers -> Tags \cup {"out", NoTag}]
RChangeShape ==
    /\ newRules \in [Changers -> SUBSET RuleRecs]
    /\ newBalancers \in [Reloaders -> Maps \cup {NoMap}]
    /\ dropped \in [MuHolders -> SUBSET HookRecs]
RPickShape ==
    /\ read \in [Pickers -> SUBSET RuleRecs] /\ rule \in [Pickers -> RuleRecs \cup {None}]
    /\ m \in [Pickers -> Maps \cup {NoMap}] /\ at \in [Pickers -> Balancers \cup {NoBalancer}]
    /\ trail \in [Pickers -> SUBSET Balancers]
RHookShape ==
    done \subseteq HookRecs /\ created \subseteq HookRecs /\ wg \subseteq HookRecs \X Pickers

RShape == RLockShape /\ RPubShape /\ RChangeShape /\ RPickShape /\ RHookShape

\* The map of a balancer has the balancer.
PeersOwn == \A b \in Balancers : peers[b] # NoMap => b \in Range(peers[b])

\* The balancer of a rule that can be found has a map.
Known(r) == r.balancer # NoBalancer => peers[r.balancer] # NoMap
RulesKnown == \A r \in rules : Known(r)
ReadKnown == \A p \in Pickers : \A r \in read[p] : Known(r)
MatchKnown ==
    \A p \in Pickers :
        /\ rpc[p] \in {"map", "level", "cut", "fire", "fired", "post"} => rule[p] \in RuleRecs
        /\ rpc[p] = "map" => rule[p].balancer # NoBalancer /\ Known(rule[p])

\* A pick is in the map it has loaded.
InMap == \A p \in Pickers : rpc[p] = "level" =>
            m[p] # NoMap /\ at[p] \in trail[p] /\ trail[p] \subseteq Range(m[p])

\* The published rules are over the published balancers, but between the two
\* stores of a reload; there, the rules to come are.
PublishedIn ==
    (\A g \in Reloaders : rpc[g] # "rules") =>
        \A r \in rules : r.balancer # NoBalancer => r.balancer \in Range(balancers)
NewIn ==
    \A g \in Reloaders : rpc[g] \in {"peers", "rules"} =>
        /\ newBalancers[g] # NoMap
        /\ \A r \in newRules[g] :
              r.balancer # NoBalancer => r.balancer \in Range(newBalancers[g])
        /\ rpc[g] = "rules" => balancers = newBalancers[g] /\ \A r \in newRules[g] : Known(r)
RemoveKeeps == \A g \in RuleRemovers : rpc[g] = "rules" => newRules[g] \subseteq rules

\* Every webhook is open in a rule, closed, or in the hands of the change.
HooksHeld ==
    /\ mu = Unlocked => created \subseteq Hooks(rules) \cup done
    /\ \A g \in MuHolders :
          /\ rpc[g] \in {"peers", "rules"} =>
                created \subseteq Hooks(newRules[g]) \cup done \cup dropped[g]
          /\ rpc[g] = "close" => created \subseteq Hooks(rules) \cup done \cup dropped[g]
          /\ rpc[g] \notin {"peers", "rules", "close"} => dropped[g] = {}

\* The posts are counted, and quiet once their webhook was waited for.
Counted ==
    /\ \A p \in Pickers : rpc[p] \in {"fired", "post"} => <<rule[p], p>> \in wg
    /\ \A w \in wg : rpc[w[2]] \in {"fired", "post"} /\ rule[w[2]] = w[1]
Quiet ==
    \A p \in Pickers : rpc[p] = "post" =>
        rule[p] \notin done \/ \E g \in MuHolders : rule[p] \in dropped[g]

RInv ==
    /\ RShape
    /\ PeersOwn /\ RulesKnown /\ ReadKnown /\ MatchKnown /\ InMap
    /\ PublishedIn /\ NewIn /\ RemoveKeeps
    /\ HooksHeld /\ Counted /\ Quiet


\* A map goes from tags to balancers.
LEMMA MapShape ==
    ASSUME NEW f \in Maps
    PROVE  /\ DOMAIN f \subseteq Tags /\ Range(f) \subseteq Balancers
           /\ \A t \in DOMAIN f : f[t] \in Balancers /\ f[t] \in Range(f)
BY DEF Maps, Range

\* The map that a reload puts together: the old balancers and its own.
Joined(old, T, g) ==
    [t \in DOMAIN old \cup T |-> IF t \in DOMAIN old THEN old[t] ELSE [by |-> g, tag |-> t]]

\* It is one, and keeps the old balancers.
LEMMA MapGrows ==
    ASSUME NEW old \in Maps, NEW g \in Reloaders \cup {Boot}, NEW T \in SUBSET Tags
    PROVE  Joined(old, T, g) \in Maps /\ Range(old) \subseteq Range(Joined(old, T, g))
<1> DEFINE map == Joined(old, T, g)
<1>1. DOMAIN old \subseteq Tags /\ \A t \in DOMAIN old : old[t] \in Balancers
  BY Zenon, MapShape
<1>2. \A t \in Tags : [by |-> g, tag |-> t] \in Balancers
  BY Zenon DEF Balancers
<1>3. map \in [DOMAIN old \cup T -> Balancers] /\ DOMAIN old \cup T \in SUBSET Tags
  BY Zenon, <1>1, <1>2 DEF Joined
<1>4. map \in Maps
  BY Zenon, <1>3 DEF Maps
<1>5. Range(old) \subseteq Range(map)
  BY Zenon DEF Range, Joined
<1> QED BY Zenon, <1>4, <1>5

\* An element of a sequence is one of its set.
LEMMA SeqElement == ASSUME NEW D, NEW s \in Seq(D), NEW i \in 1 .. Len(s) PROVE s[i] \in D
OBVIOUS

\* The rules that a change makes are over the map that it was given.
LEMMA MadeOver ==
    ASSUME NEW g \in Reloaders \cup {Boot}, NEW c \in Changes, NEW map \in Maps,
           NEW n \in 0 .. Len(c.rules)
    PROVE  /\ made(g, c, map, n) \in SUBSET RuleRecs
           /\ \A r \in made(g, c, map, n) :
                 r.balancer # NoBalancer => r.balancer \in Range(map)
<1>1. /\ c.rules \in Seq([ruleTag : AnyTag, hook : BOOLEAN, balancer : AnyTag])
  BY Zenon, RouterAssumption
<1>2. ASSUME NEW i \in 1 .. n
      PROVE  i \in Nat /\ c.rules[i].ruleTag \in AnyTag /\ c.rules[i].hook \in BOOLEAN
  <2>1. i \in Nat /\ i \in 1 .. Len(c.rules)
    BY <1>1
  <2>2. c.rules[i] \in [ruleTag : AnyTag, hook : BOOLEAN, balancer : AnyTag]
    BY Zenon, <1>1, <2>1, SeqElement
  <2> QED BY Zenon, <2>1, <2>2
<1> DEFINE bal(i) == IF c.rules[i].balancer \in DOMAIN map THEN map[c.rules[i].balancer]
                     ELSE NoBalancer
           rec(i) == [by |-> g, n |-> i, ruleTag |-> c.rules[i].ruleTag,
                      hook |-> c.rules[i].hook, balancer |-> bal(i)]
<1>3. ASSUME NEW i \in 1 .. n
      PROVE  /\ bal(i) \in Balancers \cup {NoBalancer}
             /\ (bal(i) # NoBalancer => bal(i) \in Range(map))
  BY Zenon, MapShape
<1> HIDE DEF bal
<1>4. ASSUME NEW i \in 1 .. n PROVE rec(i) \in RuleRecs /\ rec(i).balancer = bal(i)
  BY Zenon, <1>2, <1>3 DEF RuleRecs
<1>5. made(g, c, map, n) = {rec(i) : i \in 1 .. n}
  BY Zenon DEF made, bal
<1> HIDE DEF rec
<1> QED BY Zenon, <1>3, <1>4, <1>5

\* What a reload is about to publish: the rules are over its balancers, and no
\* webhook, old or just made, is outside them and what it is to close.
Prepared(g) ==
    /\ rpc' = [rpc EXCEPT ![g] = rpc'[g]] /\ rpc'[g] \in {"peers", "close"}
    /\ newRules' \in [Changers -> SUBSET RuleRecs]
    /\ newBalancers' \in [Reloaders -> Maps \cup {NoMap}]
    /\ dropped' \in [MuHolders -> SUBSET HookRecs]
    /\ \A k \in Changers : k # g => newRules'[k] = newRules[k]
    /\ \A k \in Reloaders : k # g => newBalancers'[k] = newBalancers[k]
    /\ \A k \in MuHolders : k # g => dropped'[k] = dropped[k]
    /\ created' \subseteq HookRecs
    /\ rpc'[g] = "close" => created' \subseteq created \cup dropped'[g]
    /\ rpc'[g] = "peers" =>
          /\ newBalancers'[g] # NoMap
          /\ \A r \in newRules'[g] :
                r.balancer # NoBalancer => r.balancer \in Range(newBalancers'[g])
          /\ created' \subseteq created \cup Hooks(newRules'[g])
          /\ Hooks(rules) \subseteq Hooks(newRules'[g]) \cup dropped'[g]

\* reloadRules either prepares that or is about to close all it has made.
LEMMA ReloadMakes ==
    ASSUME NEW g \in Reloaders, NEW c \in Changes, RInv, Reload(g, c)
    PROVE  Prepared(g)
<1> DEFINE old == IF c.append THEN balancers ELSE [t \in {} |-> NoBalancer]
           map == Joined(old, DOMAIN c.balancers, g)
           new(n) == made(g, c, map, n)
           all == (IF c.append THEN rules ELSE {}) \cup new(Len(c.rules))
<1>1. old \in Maps /\ DOMAIN c.balancers \subseteq Tags
  <2>1. [t \in {} |-> NoBalancer] \in [{} -> Balancers]
    BY Zenon
  <2>2. [t \in {} |-> NoBalancer] \in Maps
    BY Zenon, <2>1 DEF Maps
  <2>3. balancers \in Maps
    BY Zenon DEF RInv, RShape, RPubShape
  <2> QED BY Zenon, <2>2, <2>3 DEF Tags
<1>2. map \in Maps /\ Range(old) \subseteq Range(map)
  <2> HIDE DEF old
  <2>1. g \in Reloaders \cup {Boot} /\ DOMAIN c.balancers \in SUBSET Tags
    BY Zenon, <1>1
  <2> QED BY Zenon, <1>1, <2>1, MapGrows
<1>3. Len(c.rules) \in Nat
  BY RouterAssumption
<1>4. ASSUME NEW n \in 0 .. Len(c.rules)
      PROVE  /\ new(n) \in SUBSET RuleRecs
             /\ \A r \in new(n) : r.balancer # NoBalancer => r.balancer \in Range(map)
  BY Zenon, <1>2, MadeOver
<1>5. \A k \in Reloaders : rpc[k] # "rules"
  BY Zenon, RouterAssumption DEF Reload, RInv, RShape, RLockShape, Changers, MuHolders
<1>6. ASSUME NEW r \in rules, r.balancer # NoBalancer PROVE r.balancer \in Range(balancers)
  BY Zenon, <1>5, <1>6 DEF RInv, PublishedIn
<1>7. /\ g \in Changers /\ g \in MuHolders /\ g \in RouterGoroutines
      /\ rules \subseteq RuleRecs /\ created \subseteq HookRecs
      /\ newRules \in [Changers -> SUBSET RuleRecs]
      /\ newBalancers \in [Reloaders -> Maps \cup {NoMap}]
      /\ dropped \in [MuHolders -> SUBSET HookRecs]
      /\ DOMAIN rpc = RouterGoroutines
  BY Zenon DEF RInv, RShape, RPubShape, RHookShape, RChangeShape, RLockShape, Changers,
     MuHolders, RouterGoroutines
<1>8. ASSUME NEW N \in SUBSET RuleRecs PROVE Hooks(N) \in SUBSET HookRecs
  BY Zenon DEF Hooks, HookRecs
<1>9. NoMap \notin Maps
  BY Zenon, RouterAssumption
<1>10. \/ \E n \in 0 .. Len(c.rules) :
             /\ dropped' = [dropped EXCEPT ![g] = Hooks(new(n))]
             /\ created' = created \cup Hooks(new(n))
             /\ rpc' = [rpc EXCEPT ![g] = "close"]
             /\ UNCHANGED <<newRules, newBalancers>>
       \/ /\ newBalancers' = [newBalancers EXCEPT ![g] = map]
          /\ newRules' = [newRules EXCEPT ![g] = all]
          /\ dropped' = [dropped EXCEPT ![g] = IF c.append THEN {} ELSE Hooks(rules)]
          /\ created' = created \cup Hooks(new(Len(c.rules)))
          /\ rpc' = [rpc EXCEPT ![g] = "peers"]
  BY Zenon DEF Reload, undone, RouterGoto, Joined
<1> HIDE DEF map, new
<1>11. ASSUME NEW n \in 0 .. Len(c.rules),
              dropped' = [dropped EXCEPT ![g] = Hooks(new(n))],
              created' = created \cup Hooks(new(n)),
              rpc' = [rpc EXCEPT ![g] = "close"],
              UNCHANGED <<newRules, newBalancers>>
       PROVE  Prepared(g)
  <2>1. Hooks(new(n)) \in SUBSET HookRecs
    BY Zenon, <1>4, <1>8
  <2> QED BY Zenon, <1>7, <1>11, <2>1 DEF Prepared
<1>12. ASSUME newBalancers' = [newBalancers EXCEPT ![g] = map],
              newRules' = [newRules EXCEPT ![g] = all],
              dropped' = [dropped EXCEPT ![g] = IF c.append THEN {} ELSE Hooks(rules)],
              created' = created \cup Hooks(new(Len(c.rules))),
              rpc' = [rpc EXCEPT ![g] = "peers"]
       PROVE  Prepared(g)
  <2> USE <1>12
  <2>1. Len(c.rules) \in 0 .. Len(c.rules)
    BY <1>3
  <2>2. /\ new(Len(c.rules)) \in SUBSET RuleRecs
        /\ \A r \in new(Len(c.rules)) : r.balancer # NoBalancer => r.balancer \in Range(map)
    BY Zenon, <1>4, <2>1
  <2> DEFINE N == new(Len(c.rules))
  <2>3. Hooks(N) \in SUBSET HookRecs /\ Hooks(rules) \in SUBSET HookRecs
    BY Zenon, <1>7, <1>8, <2>2
  <2>4. all \in SUBSET RuleRecs /\ N \subseteq all /\ (c.append => rules \subseteq all)
    BY Zenon, <1>7, <2>2
  <2>5. \A r \in all : r.balancer # NoBalancer => r.balancer \in Range(map)
    BY Zenon, <1>2, <1>6, <2>2
  <2>6. Hooks(N) \subseteq Hooks(all) /\ (c.append => Hooks(rules) \subseteq Hooks(all))
    BY Zenon, <2>4 DEF Hooks
  <2> HIDE DEF N, all, old
  <2>7. newRules'[g] = all /\ newBalancers'[g] = map /\ rpc'[g] = "peers"
    BY Zenon, <1>7
  <2>8. dropped'[g] = IF c.append THEN {} ELSE Hooks(rules)
    BY Zenon, <1>7
  <2>9. /\ newRules' \in [Changers -> SUBSET RuleRecs]
        /\ newBalancers' \in [Reloaders -> Maps \cup {NoMap}]
        /\ dropped' \in [MuHolders -> SUBSET HookRecs]
    BY Zenon, <1>2, <1>7, <2>3, <2>4
  <2>10. /\ \A k \in Changers : k # g => newRules'[k] = newRules[k]
         /\ \A k \in Reloaders : k # g => newBalancers'[k] = newBalancers[k]
         /\ \A k \in MuHolders : k # g => dropped'[k] = dropped[k]
    BY Zenon, <1>7
  <2>11. created' \subseteq HookRecs /\ created' \subseteq created \cup Hooks(newRules'[g])
    BY Zenon, <1>7, <2>3, <2>6, <2>7 DEF N
  <2>12. Hooks(rules) \subseteq Hooks(newRules'[g]) \cup dropped'[g]
    BY Zenon, <2>6, <2>7, <2>8
  <2>13. newBalancers'[g] # NoMap
    BY Zenon, <1>2, <1>9, <2>7
  <2> QED BY Zenon, <2>5, <2>7, <2>9, <2>10, <2>11, <2>12, <2>13, <1>7, <1>12 DEF Prepared
<1> QED BY Zenon, <1>10, <1>11, <1>12

\* A pick takes no mutex.
LEMMA PickerMoves ==
    ASSUME NEW p \in Pickers, RLockShape, UNCHANGED <<graphMu, mu>>,
           rpc' = [rpc EXCEPT ![p] = rpc'[p]],
           rpc'[p] \in {"match", "map", "level", "cut", "fire", "fired", "post", "returned"}
    PROVE  RLockShape'
<1> USE DEF RouterGoroutines, Changers, MuHolders
<1>1. p \in RouterGoroutines /\ p \notin MuHolders
  BY Zenon, RouterAssumption
<1>2. \A k \in MuHolders : rpc'[k] = rpc[k]
  BY Zenon, <1>1 DEF RLockShape
<1>3. rpc' \in [RouterGoroutines -> {"idle", "locked", "peers", "rules", "close", "returned",
                                     "match", "map", "level", "cut", "fire", "fired", "post"}]
  BY <1>1 DEF RLockShape
<1> QED BY Zenon, <1>2, <1>3 DEF RLockShape

\* Taking the graph mutex touches nothing that is published.
LEMMA LockStep == ASSUME NEW g \in Changers, RInv, Lock(g) PROVE RInv'
<1> USE DEF RInv, RShape, Known, RouterGoroutines, Changers, MuHolders
<1> /\ rpc[g] = "idle" /\ rpc'[g] = "locked" /\ g \notin RouterClosers /\ g \notin Pickers
    /\ \A k \in RouterGoroutines : k # g => rpc'[k] = rpc[k]
  BY Zenon, RouterAssumption DEF Lock, RouterGoto, RLockShape, RPubShape, RChangeShape,
     RPickShape, RHookShape
<1> UNCHANGED <<rules, balancers, peers, override, mu, change, newRules, newBalancers, dropped,
                read, rule, m, at, level, trail, done, wg, created>>
  BY Zenon DEF Lock, RouterGoto, pubVars, changeVars, pickVars, hookVars
<1>1. RLockShape'
  BY RouterAssumption DEF Lock, RouterGoto, RLockShape
<1>2. RPubShape' /\ RChangeShape' /\ RPickShape' /\ RHookShape'
  BY Zenon DEF RPubShape, RChangeShape, RPickShape, RHookShape
<1>3. PeersOwn' /\ RulesKnown' /\ ReadKnown'
  BY Zenon DEF PeersOwn, RulesKnown, ReadKnown
<1>4. MatchKnown'
  BY Zenon DEF MatchKnown
<1>5. InMap'
  BY Zenon DEF InMap
<1>6. PublishedIn'
  BY Zenon DEF PublishedIn
<1>7. NewIn'
  BY Zenon DEF NewIn
<1>8. RemoveKeeps'
  BY Zenon DEF RemoveKeeps
<1>9. HooksHeld'
  BY Zenon DEF HooksHeld, Hooks
<1>10. Counted'
  BY Zenon DEF Counted, RHookShape
<1>11. Quiet'
  BY Zenon DEF Quiet
<1> QED BY Zenon, <1>1, <1>2, <1>3, <1>4, <1>5, <1>6, <1>7, <1>8, <1>9, <1>10, <1>11

\* reloadRules puts together what it is to publish, or fails.
LEMMA ReloadStep ==
    ASSUME NEW g \in Reloaders, NEW c \in Changes, RInv, Reload(g, c)
    PROVE  RInv'
<1> USE DEF RInv, RShape, Known, RouterGoroutines, Changers, MuHolders
<1> Prepared(g)
  BY Zenon, ReloadMakes
<1> /\ rpc[g] = "locked" /\ mu = Unlocked /\ mu' = g /\ g # Unlocked
    /\ rpc'[g] \in {"peers", "close"} /\ g \notin RuleRemovers /\ g \notin RouterClosers
    /\ g \notin Pickers
    /\ \A k \in RouterGoroutines : k # g => rpc'[k] = rpc[k]
    /\ \A k \in MuHolders : rpc[k] \notin {"peers", "rules", "close"}
  <2>1. rpc[g] = "locked" /\ mu = Unlocked /\ mu' = g
    BY Zenon DEF Reload
  <2>2. g # Unlocked /\ g \notin RuleRemovers /\ g \notin RouterClosers /\ g \notin Pickers
    BY Zenon, RouterAssumption
  <2>3. /\ rpc'[g] \in {"peers", "close"}
        /\ \A k \in RouterGoroutines : k # g => rpc'[k] = rpc[k]
    BY Zenon DEF Prepared, RLockShape
  <2>4. \A k \in MuHolders : rpc[k] \notin {"peers", "rules", "close"}
    BY Zenon, <2>1, RouterAssumption DEF RLockShape
  <2> QED BY Zenon, <2>1, <2>2, <2>3, <2>4
<1> UNCHANGED <<rules, balancers, peers, override, graphMu, read, rule, m, at, level, trail,
                done, wg>>
  BY Zenon DEF Reload, pubVars, pickVars
<1>1. RLockShape'
  <2>1. rpc' \in [RouterGoroutines -> {"idle", "locked", "peers", "rules", "close", "returned",
                      "match", "map", "level", "cut", "fire", "fired", "post"}]
    BY DEF Prepared, RLockShape
  <2> QED BY <2>1, RouterAssumption DEF RLockShape
<1>2. RChangeShape'
  BY Zenon DEF RChangeShape, Prepared
<1>3. RHookShape'
  BY Zenon DEF RHookShape, Prepared
<1>4. RPubShape' /\ RPickShape'
  BY Zenon DEF RPubShape, RPickShape
<1>5. PeersOwn' /\ RulesKnown' /\ ReadKnown'
  BY Zenon DEF PeersOwn, RulesKnown, ReadKnown
<1>6. MatchKnown'
  BY Zenon DEF MatchKnown
<1>7. InMap'
  BY Zenon DEF InMap
<1>8. PublishedIn'
  BY Zenon DEF PublishedIn
<1>9. NewIn'
  <2>1. ASSUME NEW k \in Reloaders, rpc'[k] \in {"peers", "rules"} PROVE k = g /\ rpc'[g] = "peers"
    BY Zenon, <2>1
  <2>2. rpc'[g] = "peers" => /\ newBalancers'[g] # NoMap
                             /\ \A r \in newRules'[g] : r.balancer # NoBalancer =>
                                    r.balancer \in Range(newBalancers'[g])
    BY Zenon DEF Prepared
  <2>3. "peers" # "rules"
    BY Zenon
  <2> QED BY Zenon, <2>1, <2>2, <2>3 DEF NewIn
<1>10. RemoveKeeps'
  BY Zenon DEF RemoveKeeps, Prepared
<1>11. HooksHeld'
  BY DEF HooksHeld, Prepared
<1>12. Counted'
  BY Zenon DEF Counted, RHookShape
<1>13. Quiet'
  <2>1. dropped[g] = {}
    BY Zenon DEF HooksHeld
  <2>2. \A k \in MuHolders : k # g => dropped'[k] = dropped[k]
    BY Zenon DEF Prepared
  <2>3. ASSUME NEW p \in Pickers, rpc'[p] = "post"
        PROVE  rule[p] \notin done \/ \E k \in MuHolders : rule[p] \in dropped'[k]
    <3>1. rule[p] \notin done \/ \E k \in MuHolders : rule[p] \in dropped[k]
      BY Zenon, <2>3 DEF Quiet
    <3> QED BY Zenon, <2>1, <2>2, <3>1
  <2> QED BY Zenon, <2>3 DEF Quiet
<1> QED BY Zenon, <1>1, <1>2, <1>3, <1>4, <1>5, <1>6, <1>7, <1>8, <1>9, <1>10, <1>11, <1>12,
    <1>13

\* A balancer gets a map that has it.
LEMMA StorePeersStep ==
    ASSUME NEW g \in Reloaders, NEW b \in Balancers, RInv, StorePeers(g, b)
    PROVE  RInv'
<1> USE DEF RInv, RShape, Known, RouterGoroutines, Changers, MuHolders
<1> /\ rpc[g] = "peers" /\ newBalancers[g] # NoMap /\ b \in Range(newBalancers[g])
    /\ newBalancers[g] \in Maps
    /\ peers'[b] = newBalancers[g]
    /\ \A x \in Balancers : x # b => peers'[x] = peers[x]
    /\ \A x \in Balancers : peers[x] # NoMap => peers'[x] # NoMap
  BY RouterAssumption DEF StorePeers, RouterGoto, NewIn, RPubShape, RLockShape, RChangeShape,
     RPickShape, RHookShape
<1> UNCHANGED <<rules, balancers, override, graphMu, mu, rpc, change, newRules, newBalancers,
                dropped, read, rule, m, at, level, trail, done, wg, created>>
  BY Zenon DEF StorePeers, RouterGoto, changeVars, pickVars, hookVars
<1>1. RPubShape'
  BY Zenon DEF StorePeers, RouterGoto, NewIn, RPubShape
<1>2. RLockShape' /\ RChangeShape' /\ RPickShape' /\ RHookShape'
  BY Zenon DEF RLockShape, RChangeShape, RPickShape, RHookShape
<1>3. InMap' /\ PublishedIn' /\ RemoveKeeps' /\ HooksHeld' /\ Counted'
  BY Zenon DEF InMap, PublishedIn, RemoveKeeps, HooksHeld, Counted
<1>4. Quiet'
  BY Zenon DEF Quiet
<1>5. PeersOwn'
  BY Zenon DEF PeersOwn
<1>6. RulesKnown'
  BY Zenon DEF RulesKnown, RPubShape, RuleRecs
<1>7. ReadKnown'
  BY DEF ReadKnown, RPickShape, RuleRecs
<1>8. MatchKnown'
  BY Zenon DEF MatchKnown, RuleRecs
<1>9. NewIn'
  BY DEF NewIn, RChangeShape, RuleRecs
<1> QED BY Zenon, <1>1, <1>2, <1>3, <1>4, <1>5, <1>6, <1>7, <1>8, <1>9

\* The balancers are published when each knows its map.
LEMMA StoreBalancersStep == ASSUME NEW g \in Reloaders, RInv, StoreBalancers(g) PROVE RInv'
<1> USE DEF RInv, RShape, Known, RouterGoroutines, Changers, MuHolders
<1> /\ rpc[g] = "peers" /\ rpc'[g] = "rules" /\ mu = g /\ g # Unlocked
    /\ g \notin RuleRemovers /\ g \notin RouterClosers /\ g \notin Pickers
    /\ \A k \in RouterGoroutines : k # g => rpc'[k] = rpc[k]
    /\ \A k \in MuHolders : k # g => rpc[k] \notin {"peers", "rules", "close"}
    /\ balancers' = newBalancers[g] /\ newBalancers[g] # NoMap /\ newBalancers[g] \in Maps
    /\ \A b \in Range(newBalancers[g]) : peers[b] = newBalancers[g]
  BY RouterAssumption DEF StoreBalancers, RouterGoto, NewIn, peersStored, RLockShape,
     RPubShape, RChangeShape, RPickShape, RHookShape
<1> UNCHANGED <<rules, peers, override, graphMu, mu, change, newRules, newBalancers, dropped,
                read, rule, m, at, level, trail, done, wg, created>>
  BY Zenon DEF StoreBalancers, RouterGoto, changeVars, pickVars, hookVars
<1>1. RLockShape'
  BY RouterAssumption DEF StoreBalancers, RouterGoto, NewIn, peersStored, RLockShape
<1>2. RPubShape'
  BY Zenon DEF StoreBalancers, RouterGoto, NewIn, peersStored, RPubShape
<1>3. RChangeShape' /\ RPickShape' /\ RHookShape'
  BY Zenon DEF RChangeShape, RPickShape, RHookShape
<1>4. PeersOwn' /\ RulesKnown' /\ ReadKnown'
  BY Zenon DEF PeersOwn, RulesKnown, ReadKnown
<1>5. MatchKnown'
  BY Zenon DEF MatchKnown
<1>6. InMap'
  BY Zenon DEF InMap
<1>7. PublishedIn'
  BY Zenon DEF PublishedIn
<1>8. NewIn'
  BY Zenon DEF NewIn
<1>9. RemoveKeeps'
  BY Zenon DEF RemoveKeeps
<1>10. HooksHeld'
  BY Zenon DEF HooksHeld, Hooks
<1>11. Counted'
  BY Zenon DEF Counted, RHookShape
<1>12. Quiet'
  BY Zenon DEF Quiet
<1> QED BY Zenon, <1>1, <1>2, <1>3, <1>4, <1>5, <1>6, <1>7, <1>8, <1>9, <1>10, <1>11, <1>12

\* RemoveRule keeps the other rules, and is to close the webhooks of those it
\* removes.
LEMMA RemoveStep ==
    ASSUME NEW g \in RuleRemovers, NEW tag \in RuleTags, RInv, Remove(g, tag)
    PROVE  RInv'
<1> USE DEF RInv, RShape, Known, RouterGoroutines, Changers, MuHolders
<1> /\ rpc[g] = "locked" /\ mu = Unlocked /\ mu' = g /\ g # Unlocked
    /\ rpc'[g] \in {"rules", "close"} /\ g \notin Reloaders /\ g \notin RouterClosers
    /\ g \notin Pickers
    /\ \A k \in RouterGoroutines : k # g => rpc'[k] = rpc[k]
    /\ \A k \in MuHolders : rpc[k] \notin {"peers", "rules", "close"}
    /\ \A k \in Changers : k # g => newRules'[k] = newRules[k]
    /\ \A k \in MuHolders : k # g => dropped'[k] = dropped[k]
    /\ rpc'[g] = "rules" =>
          /\ newRules'[g] \subseteq rules /\ dropped'[g] \subseteq Hooks(rules)
          /\ Hooks(rules) \subseteq Hooks(newRules'[g]) \cup dropped'[g]
    /\ rpc'[g] = "close" => dropped'[g] = dropped[g]
  <2>1. /\ rpc[g] = "locked" /\ mu = Unlocked /\ mu' = g /\ g # Unlocked /\ g \notin Reloaders
        /\ g \notin RouterClosers /\ g \notin Pickers
        /\ \A k \in MuHolders : rpc[k] \notin {"peers", "rules", "close"}
    BY Zenon, RouterAssumption DEF Remove, RLockShape
  <2>2. CASE /\ newRules' = [newRules EXCEPT ![g] = {r \in rules : r.ruleTag # tag}]
             /\ dropped' = [dropped EXCEPT ![g] = {r \in Hooks(rules) : r.ruleTag = tag}]
             /\ RouterGoto(g, "rules")
    BY Zenon, <2>1, <2>2 DEF RouterGoto, RLockShape, RChangeShape, Hooks
  <2>3. CASE RouterGoto(g, "close") /\ UNCHANGED <<newRules, dropped>>
    BY Zenon, <2>1, <2>3 DEF RouterGoto, RLockShape
  <2> QED BY Zenon, <2>2, <2>3 DEF Remove
<1> UNCHANGED <<rules, balancers, peers, override, graphMu, change, newBalancers, read, rule, m,
                at, level, trail, done, wg, created>>
  BY Zenon DEF Remove, RouterGoto, pubVars, pickVars, hookVars
<1>1. RLockShape'
  BY RouterAssumption DEF Remove, RouterGoto, Hooks, RLockShape
<1>2. RChangeShape'
  BY DEF Remove, RouterGoto, Hooks, RChangeShape, RPubShape, HookRecs
<1>3. RPubShape' /\ RPickShape' /\ RHookShape'
  BY Zenon DEF RPubShape, RPickShape, RHookShape
<1>4. PeersOwn' /\ RulesKnown' /\ ReadKnown'
  BY Zenon DEF PeersOwn, RulesKnown, ReadKnown
<1>5. MatchKnown'
  BY Zenon DEF MatchKnown
<1>6. InMap'
  BY Zenon DEF InMap
<1>7. PublishedIn'
  BY Zenon DEF PublishedIn
<1>8. NewIn'
  BY Zenon DEF NewIn
<1>9. RemoveKeeps'
  BY Zenon DEF RemoveKeeps
<1>10. HooksHeld'
  BY DEF HooksHeld, Hooks
<1>11. Counted'
  BY Zenon DEF Counted, RHookShape
<1>12. Quiet'
  BY Zenon DEF Quiet, HooksHeld
<1> QED BY Zenon, <1>1, <1>2, <1>3, <1>4, <1>5, <1>6, <1>7, <1>8, <1>9, <1>10, <1>11, <1>12

\* The rules are published when the balancers they name are.
LEMMA StoreRulesStep == ASSUME NEW g \in Changers, RInv, StoreRules(g) PROVE RInv'
<1> USE DEF RInv, RShape, Known, RouterGoroutines, Changers, MuHolders
<1> /\ rpc[g] = "rules" /\ rpc'[g] = "close" /\ mu = g /\ g # Unlocked
    /\ g \notin RouterClosers /\ g \notin Pickers
    /\ \A k \in RouterGoroutines : k # g => rpc'[k] = rpc[k]
    /\ \A k \in MuHolders : k # g => rpc[k] \notin {"peers", "rules", "close"}
    /\ rules' = newRules[g] /\ dropped' = dropped
  <2>1. rpc[g] = "rules" /\ rpc' = [rpc EXCEPT ![g] = "close"] /\ rules' = newRules[g]
    BY Zenon DEF StoreRules, RouterGoto
  <2>2. rpc'[g] = "close" /\ \A k \in RouterGoroutines : k # g => rpc'[k] = rpc[k]
    BY Zenon, <2>1 DEF RLockShape
  <2>3. g # Unlocked /\ g \notin RouterClosers /\ g \notin Pickers
    BY Zenon, RouterAssumption
  <2>4. mu = g /\ \A k \in MuHolders : k # g => rpc[k] \notin {"peers", "rules", "close"}
    BY Zenon, <2>1 DEF RLockShape
  <2>5. dropped' = dropped
    BY Zenon DEF StoreRules, gone, RChangeShape
  <2> QED BY Zenon, <2>1, <2>2, <2>3, <2>4, <2>5
<1> UNCHANGED <<balancers, peers, override, graphMu, mu, change, newRules, newBalancers, read,
                rule, m, at, level, trail, done, wg, created>>
  BY Zenon DEF StoreRules, RouterGoto, pickVars, hookVars
<1>1. RLockShape'
  BY RouterAssumption DEF StoreRules, RouterGoto, gone, RLockShape
<1>2. RPubShape'
  BY Zenon DEF StoreRules, RouterGoto, gone, RPubShape, RChangeShape
<1>3. RChangeShape'
  BY Zenon DEF StoreRules, RouterGoto, gone, RChangeShape
<1>4. RPickShape' /\ RHookShape'
  BY Zenon DEF RPickShape, RHookShape
<1>5. PeersOwn' /\ ReadKnown'
  BY Zenon DEF PeersOwn, ReadKnown
<1>6. RulesKnown'
  BY Zenon, RouterAssumption DEF RulesKnown, NewIn, RemoveKeeps
<1>7. MatchKnown'
  BY Zenon DEF MatchKnown
<1>8. InMap'
  BY Zenon DEF InMap
<1>9. PublishedIn'
  <2>1. CASE g \in Reloaders
    BY Zenon, <2>1 DEF NewIn, PublishedIn
  <2>2. CASE g \in RuleRemovers
    BY Zenon, <2>2, RouterAssumption DEF RemoveKeeps, PublishedIn
  <2> QED BY Zenon, <2>1, <2>2
<1>10. NewIn'
  BY Zenon DEF NewIn
<1>11. RemoveKeeps'
  BY Zenon DEF RemoveKeeps
<1>12. HooksHeld'
  BY Zenon DEF HooksHeld, Hooks
<1>13. Counted'
  BY Zenon DEF Counted, RHookShape
<1>14. Quiet'
  BY Zenon DEF Quiet
<1> QED BY Zenon, <1>1, <1>2, <1>3, <1>4, <1>5, <1>6, <1>7, <1>8, <1>9, <1>10, <1>11, <1>12,
    <1>13, <1>14

\* Router.Close is to close the webhooks of the published rules.
LEMMA CloseRouterStep == ASSUME NEW g \in RouterClosers, RInv, CloseRouter(g) PROVE RInv'
<1> USE DEF RInv, RShape, Known, RouterGoroutines, Changers, MuHolders
<1> /\ rpc[g] = "idle" /\ rpc'[g] = "close" /\ mu = Unlocked /\ mu' = g /\ g # Unlocked
    /\ g \notin Changers /\ g \notin Pickers
    /\ \A k \in RouterGoroutines : k # g => rpc'[k] = rpc[k]
    /\ \A k \in MuHolders : rpc[k] \notin {"peers", "rules", "close"}
    /\ \A k \in MuHolders : k # g => dropped'[k] = dropped[k]
    /\ dropped'[g] = Hooks(rules)
  BY Zenon, RouterAssumption DEF CloseRouter, RouterGoto, RLockShape, RChangeShape, RPubShape,
     RPickShape, RHookShape
<1> UNCHANGED <<rules, balancers, peers, override, graphMu, change, newRules, newBalancers,
                read, rule, m, at, level, trail, done, wg, created>>
  BY Zenon DEF CloseRouter, RouterGoto, pubVars, pickVars, hookVars
<1>1. RLockShape'
  BY RouterAssumption DEF CloseRouter, RouterGoto, RLockShape
<1>2. RChangeShape'
  BY Zenon DEF CloseRouter, RouterGoto, RChangeShape, RPubShape, Hooks, HookRecs
<1>3. RPubShape' /\ RPickShape' /\ RHookShape'
  BY Zenon DEF RPubShape, RPickShape, RHookShape
<1>4. PeersOwn' /\ RulesKnown' /\ ReadKnown'
  BY Zenon DEF PeersOwn, RulesKnown, ReadKnown
<1>5. MatchKnown'
  BY Zenon DEF MatchKnown
<1>6. InMap'
  BY Zenon DEF InMap
<1>7. PublishedIn'
  BY Zenon DEF PublishedIn
<1>8. NewIn'
  BY Zenon DEF NewIn
<1>9. RemoveKeeps'
  BY Zenon DEF RemoveKeeps
<1>10. HooksHeld'
  BY Zenon DEF HooksHeld, Hooks
<1>11. Counted'
  BY Zenon DEF Counted, RHookShape
<1>12. Quiet'
  BY Zenon DEF Quiet, HooksHeld
<1> QED BY Zenon, <1>1, <1>2, <1>3, <1>4, <1>5, <1>6, <1>7, <1>8, <1>9, <1>10, <1>11, <1>12

\* A webhook is closed by the one that has it in hand.
LEMMA CloseDoneStep ==
    ASSUME NEW g \in MuHolders, NEW r \in dropped[g], RInv, CloseDone(g, r)
    PROVE  RInv'
<1> USE DEF RInv, RShape, Known, RouterGoroutines, Changers, MuHolders
<1> done' = done \cup {r} /\ r \in HookRecs
  BY Zenon, RouterAssumption DEF CloseDone, RouterGoto, RHookShape, RLockShape, RPubShape,
     RChangeShape, RPickShape
<1> UNCHANGED <<rules, balancers, peers, override, graphMu, mu, rpc, change, newRules,
                newBalancers, dropped, read, rule, m, at, level, trail, wg, created>>
  BY Zenon DEF CloseDone, RouterGoto, pubVars, changeVars, pickVars
<1>1. RHookShape'
  BY Zenon DEF CloseDone, RouterGoto, RHookShape
<1>2. RLockShape' /\ RPubShape' /\ RChangeShape' /\ RPickShape'
  BY Zenon DEF RLockShape, RPubShape, RChangeShape, RPickShape
<1>3. PeersOwn' /\ RulesKnown' /\ ReadKnown' /\ MatchKnown' /\ InMap'
  BY Zenon DEF PeersOwn, RulesKnown, ReadKnown, MatchKnown, InMap
<1>4. PublishedIn' /\ NewIn' /\ RemoveKeeps' /\ Counted'
  BY Zenon DEF PublishedIn, NewIn, RemoveKeeps, Counted
<1>5. HooksHeld'
  BY Zenon DEF HooksHeld, Hooks
<1>6. Quiet'
  BY Zenon DEF Quiet
<1> QED BY Zenon, <1>1, <1>2, <1>3, <1>4, <1>5, <1>6

\* Nothing is posted through a webhook that was waited for.
LEMMA CloseWaitedStep ==
    ASSUME NEW g \in MuHolders, NEW r \in dropped[g], RInv, CloseWaited(g, r)
    PROVE  RInv'
<1> USE DEF RInv, RShape, Known, RouterGoroutines, Changers, MuHolders
<1> /\ rpc[g] = "close" /\ r \in done
    /\ \A k \in MuHolders : k # g => dropped'[k] = dropped[k]
    /\ dropped'[g] = dropped[g] \ {r}
    /\ \A p \in Pickers : rpc[p] = "post" => rule[p] # r
  <2>1. /\ rpc[g] = "close" /\ r \in done /\ noPosts(r)
        /\ dropped' = [dropped EXCEPT ![g] = @ \ {r}]
    BY Zenon DEF CloseWaited
  <2>2. dropped'[g] = dropped[g] \ {r} /\ \A k \in MuHolders : k # g => dropped'[k] = dropped[k]
    BY Zenon, <2>1 DEF RChangeShape
  <2>3. \A p \in Pickers : rpc[p] = "post" => rule[p] # r
    BY Zenon, <2>1 DEF noPosts, Counted
  <2> QED BY Zenon, <2>1, <2>2, <2>3
<1> UNCHANGED <<rules, balancers, peers, override, graphMu, mu, rpc, change, newRules,
                newBalancers, read, rule, m, at, level, trail, done, wg, created>>
  BY Zenon DEF CloseWaited, RouterGoto, pubVars, pickVars, hookVars
<1>1. RChangeShape'
  BY Zenon DEF CloseWaited, RouterGoto, noPosts, Counted, RChangeShape
<1>2. RLockShape' /\ RPubShape' /\ RPickShape' /\ RHookShape'
  BY Zenon DEF RLockShape, RPubShape, RPickShape, RHookShape
<1>3. PeersOwn' /\ RulesKnown' /\ ReadKnown' /\ MatchKnown' /\ InMap'
  BY Zenon DEF PeersOwn, RulesKnown, ReadKnown, MatchKnown, InMap
<1>4. PublishedIn' /\ NewIn' /\ RemoveKeeps' /\ Counted'
  BY Zenon DEF PublishedIn, NewIn, RemoveKeeps, Counted
<1>5. HooksHeld'
  BY Zenon DEF HooksHeld, Hooks
<1>6. Quiet'
  BY Zenon DEF Quiet
<1> QED BY Zenon, <1>1, <1>2, <1>3, <1>4, <1>5, <1>6

\* The mutexes are given back with nothing in hand.
LEMMA UnlockStep == ASSUME NEW g \in MuHolders, RInv, Unlock(g) PROVE RInv'
<1> USE DEF RInv, RShape, Known, RouterGoroutines, Changers, MuHolders
<1> /\ rpc[g] = "close" /\ rpc'[g] = "returned" /\ mu = g /\ g # Unlocked /\ mu' = Unlocked
    /\ dropped[g] = {} /\ g \notin Pickers
    /\ \A k \in RouterGoroutines : k # g => rpc'[k] = rpc[k]
    /\ \A k \in MuHolders : k # g => rpc[k] \notin {"peers", "rules", "close"}
    /\ \A k \in Changers : k # g => newRules'[k] = newRules[k]
    /\ newRules' \in [Changers -> SUBSET RuleRecs]
    /\ graphMu' = IF graphMu = g THEN Unlocked ELSE graphMu
  BY RouterAssumption DEF Unlock, RouterGoto, graphAfter, RLockShape, RChangeShape, RPubShape,
     RPickShape, RHookShape
<1> UNCHANGED <<rules, balancers, peers, override, change, newBalancers, dropped, read, rule, m,
                at, level, trail, done, wg, created>>
  BY Zenon DEF Unlock, RouterGoto, pubVars, pickVars, hookVars
<1>1. RLockShape'
  BY RouterAssumption DEF Unlock, RouterGoto, graphAfter, RLockShape
<1>2. RChangeShape'
  BY Zenon DEF Unlock, RouterGoto, graphAfter, RChangeShape
<1>3. RPubShape' /\ RPickShape' /\ RHookShape'
  BY Zenon DEF RPubShape, RPickShape, RHookShape
<1>4. PeersOwn' /\ RulesKnown' /\ ReadKnown'
  BY Zenon DEF PeersOwn, RulesKnown, ReadKnown
<1>5. MatchKnown'
  BY Zenon DEF MatchKnown
<1>6. InMap'
  BY Zenon DEF InMap
<1>7. PublishedIn'
  BY Zenon DEF PublishedIn
<1>8. NewIn'
  BY Zenon DEF NewIn
<1>9. RemoveKeeps'
  BY Zenon DEF RemoveKeeps
<1>10. HooksHeld'
  <2>1. created \subseteq Hooks(rules) \cup done
    BY Zenon DEF HooksHeld
  <2>2. Hooks(rules)' = Hooks(rules)
    BY Zenon DEF Hooks
  <2>3. ASSUME NEW k \in MuHolders
        PROVE  rpc'[k] \notin {"peers", "rules", "close"} /\ dropped'[k] = {}
    BY Zenon, <2>3 DEF HooksHeld
  <2> QED BY Zenon, <2>1, <2>2, <2>3 DEF HooksHeld
<1>11. Counted'
  BY Zenon DEF Counted, RHookShape
<1>12. Quiet'
  BY Zenon DEF Quiet
<1> QED BY Zenon, <1>1, <1>2, <1>3, <1>4, <1>5, <1>6, <1>7, <1>8, <1>9, <1>10, <1>11, <1>12

\* An override target touches neither rules nor maps.
LEMMA SetOverrideStep ==
    ASSUME NEW g \in Overriders, NEW t \in Tags, NEW target \in Tags \cup {"out", NoTag}, RInv,
           SetOverride(g, t, target)
    PROVE  RInv'
<1> USE DEF RInv, RShape, Known, RouterGoroutines, Changers, MuHolders
<1> /\ rpc[g] = "idle" /\ rpc'[g] = "returned" /\ g \notin MuHolders /\ g \notin Pickers
    /\ \A k \in RouterGoroutines : k # g => rpc'[k] = rpc[k]
  BY Zenon, RouterAssumption DEF SetOverride, RouterGoto, RLockShape, RPubShape, RChangeShape,
     RPickShape, RHookShape
<1> UNCHANGED <<rules, balancers, peers, graphMu, mu, change, newRules, newBalancers, dropped,
                read, rule, m, at, level, trail, done, wg, created>>
  BY Zenon DEF SetOverride, RouterGoto, changeVars, pickVars, hookVars
<1>1. RLockShape'
  BY RouterAssumption DEF SetOverride, RouterGoto, RLockShape
<1>2. RPubShape'
  BY Zenon, MapShape DEF SetOverride, RouterGoto, RPubShape
<1>3. RChangeShape' /\ RPickShape' /\ RHookShape'
  BY Zenon DEF RChangeShape, RPickShape, RHookShape
<1>4. PeersOwn' /\ RulesKnown' /\ ReadKnown'
  BY Zenon DEF PeersOwn, RulesKnown, ReadKnown
<1>5. MatchKnown'
  BY Zenon DEF MatchKnown
<1>6. InMap'
  BY Zenon DEF InMap
<1>7. PublishedIn'
  BY Zenon DEF PublishedIn
<1>8. NewIn'
  BY Zenon DEF NewIn
<1>9. RemoveKeeps'
  BY Zenon DEF RemoveKeeps
<1>10. HooksHeld'
  BY Zenon DEF HooksHeld, Hooks
<1>11. Counted'
  BY Zenon DEF Counted, RHookShape
<1>12. Quiet'
  BY Zenon DEF Quiet
<1> QED BY Zenon, <1>1, <1>2, <1>3, <1>4, <1>5, <1>6, <1>7, <1>8, <1>9, <1>10, <1>11, <1>12

\* PickRoute reads the published rules.
LEMMA ReadRulesStep == ASSUME NEW p \in Pickers, RInv, ReadRules(p) PROVE RInv'
<1> USE DEF RInv, RShape, Known, RouterGoroutines, Changers, MuHolders
<1> /\ rpc[p] = "idle" /\ rpc'[p] = "match" /\ p \notin MuHolders
    /\ \A k \in RouterGoroutines : k # p => rpc'[k] = rpc[k]
    /\ \A k \in Pickers : k # p => read'[k] = read[k]
    /\ read'[p] = rules
  <2>1. /\ rpc[p] = "idle" /\ rpc' = [rpc EXCEPT ![p] = "match"]
        /\ read' = [read EXCEPT ![p] = rules]
    BY Zenon DEF ReadRules, RouterGoto
  <2>2. rpc'[p] = "match" /\ \A k \in RouterGoroutines : k # p => rpc'[k] = rpc[k]
    BY Zenon, <2>1 DEF RLockShape
  <2>3. read'[p] = rules /\ \A k \in Pickers : k # p => read'[k] = read[k]
    BY Zenon, <2>1 DEF RPickShape
  <2>4. p \notin MuHolders
    BY Zenon, RouterAssumption
  <2> QED BY Zenon, <2>1, <2>2, <2>3, <2>4
<1> UNCHANGED <<rules, balancers, peers, override, graphMu, mu, change, newRules, newBalancers,
                dropped, rule, m, at, level, trail, done, wg, created>>
  BY Zenon DEF ReadRules, RouterGoto, pubVars, changeVars, hookVars
<1>1. RLockShape'
  <2>1. rpc' = [rpc EXCEPT ![p] = rpc'[p]]
    BY Zenon DEF ReadRules, RouterGoto, RLockShape
  <2> QED BY Zenon, <2>1, PickerMoves
<1>2. RPickShape'
  BY Zenon DEF ReadRules, RouterGoto, RPickShape, RPubShape
<1>3. RPubShape' /\ RChangeShape' /\ RHookShape'
  BY Zenon DEF RPubShape, RChangeShape, RHookShape
<1>4. PeersOwn' /\ RulesKnown'
  BY Zenon DEF PeersOwn, RulesKnown
<1>5. ReadKnown'
  BY Zenon DEF ReadKnown, RulesKnown
<1>6. MatchKnown'
  BY Zenon DEF MatchKnown
<1>7. InMap'
  BY Zenon DEF InMap
<1>8. PublishedIn'
  BY Zenon DEF PublishedIn
<1>9. NewIn'
  BY Zenon DEF NewIn
<1>10. RemoveKeeps'
  BY Zenon DEF RemoveKeeps
<1>11. HooksHeld'
  BY Zenon DEF HooksHeld, Hooks
<1>12. Counted'
  BY Zenon DEF Counted, RHookShape
<1>13. Quiet'
  BY Zenon DEF Quiet
<1> QED BY Zenon, <1>1, <1>2, <1>3, <1>4, <1>5, <1>6, <1>7, <1>8, <1>9, <1>10, <1>11, <1>12,
    <1>13

\* The rule that matched is one that was read.
LEMMA MatchStep == ASSUME NEW p \in Pickers, NEW r \in read[p], RInv, Match(p, r) PROVE RInv'
<1> USE DEF RInv, RShape, Known, RouterGoroutines, Changers, MuHolders
<1> /\ rpc[p] = "match" /\ rpc'[p] \in {"fire", "map"} /\ p \notin MuHolders
    /\ \A k \in RouterGoroutines : k # p => rpc'[k] = rpc[k]
    /\ \A k \in Pickers : k # p => read'[k] = read[k]
    /\ \A k \in Pickers : k # p => rule'[k] = rule[k]
    /\ read'[p] = {} /\ rule'[p] = r /\ r \in RuleRecs
    /\ rpc'[p] = "map" => r.balancer # NoBalancer /\ Known(r)
  BY RouterAssumption DEF Match, RouterGoto, RLockShape, RPickShape, RPubShape, RChangeShape,
     RHookShape, ReadKnown
<1> UNCHANGED <<rules, balancers, peers, override, graphMu, mu, change, newRules, newBalancers,
                dropped, m, at, level, trail, done, wg, created>>
  BY Zenon DEF Match, RouterGoto, pubVars, changeVars, hookVars
<1>1. RLockShape'
  <2>1. rpc' = [rpc EXCEPT ![p] = rpc'[p]]
    BY Zenon DEF Match, RouterGoto, RLockShape
  <2> QED BY Zenon, <2>1, PickerMoves
<1>2. RPickShape'
  BY Zenon DEF Match, RouterGoto, RPickShape
<1>3. RPubShape' /\ RChangeShape' /\ RHookShape'
  BY Zenon DEF RPubShape, RChangeShape, RHookShape
<1>4. PeersOwn' /\ RulesKnown'
  BY Zenon DEF PeersOwn, RulesKnown
<1>5. ReadKnown'
  <2>1. \A k \in Pickers : read'[k] \subseteq read[k]
    BY Zenon
  <2> QED BY Zenon, <2>1 DEF ReadKnown
<1>6. MatchKnown'
  BY Zenon DEF MatchKnown
<1>7. InMap'
  BY Zenon DEF InMap
<1>8. PublishedIn'
  BY Zenon DEF PublishedIn
<1>9. NewIn'
  BY Zenon DEF NewIn
<1>10. RemoveKeeps'
  BY Zenon DEF RemoveKeeps
<1>11. HooksHeld'
  BY Zenon DEF HooksHeld, Hooks
<1>12. Counted'
  BY Zenon DEF Counted, RHookShape
<1>13. Quiet'
  BY Zenon DEF Quiet
<1> QED BY Zenon, <1>1, <1>2, <1>3, <1>4, <1>5, <1>6, <1>7, <1>8, <1>9, <1>10, <1>11, <1>12,
    <1>13

\* No rule matched.
LEMMA NoMatchStep == ASSUME NEW p \in Pickers, RInv, NoMatch(p) PROVE RInv'
<1> USE DEF RInv, RShape, Known, RouterGoroutines, Changers, MuHolders
<1> /\ rpc[p] = "match" /\ rpc'[p] = "returned" /\ p \notin MuHolders
    /\ \A k \in RouterGoroutines : k # p => rpc'[k] = rpc[k]
    /\ \A k \in Pickers : k # p => read'[k] = read[k]
    /\ read'[p] = {}
  BY RouterAssumption DEF NoMatch, RouterGoto, RLockShape, RPickShape, RPubShape, RChangeShape,
     RHookShape
<1> UNCHANGED <<rules, balancers, peers, override, graphMu, mu, change, newRules, newBalancers,
                dropped, rule, m, at, level, trail, done, wg, created>>
  BY Zenon DEF NoMatch, RouterGoto, pubVars, changeVars, hookVars
<1>1. RLockShape'
  <2>1. rpc' = [rpc EXCEPT ![p] = rpc'[p]]
    BY Zenon DEF NoMatch, RouterGoto, RLockShape
  <2> QED BY Zenon, <2>1, PickerMoves
<1>2. RPickShape'
  BY Zenon DEF NoMatch, RouterGoto, RPickShape
<1>3. RPubShape' /\ RChangeShape' /\ RHookShape'
  BY Zenon DEF RPubShape, RChangeShape, RHookShape
<1>4. PeersOwn' /\ RulesKnown'
  BY Zenon DEF PeersOwn, RulesKnown
<1>5. ReadKnown'
  BY Zenon DEF ReadKnown
<1>6. MatchKnown'
  BY Zenon DEF MatchKnown
<1>7. InMap'
  BY Zenon DEF InMap
<1>8. PublishedIn'
  BY Zenon DEF PublishedIn
<1>9. NewIn'
  BY Zenon DEF NewIn
<1>10. RemoveKeeps'
  BY Zenon DEF RemoveKeeps
<1>11. HooksHeld'
  BY Zenon DEF HooksHeld, Hooks
<1>12. Counted'
  BY Zenon DEF Counted, RHookShape
<1>13. Quiet'
  BY Zenon DEF Quiet
<1> QED BY Zenon, <1>1, <1>2, <1>3, <1>4, <1>5, <1>6, <1>7, <1>8, <1>9, <1>10, <1>11, <1>12,
    <1>13

\* The map that is loaded for a balancer has it.
LEMMA LoadMapStep == ASSUME NEW p \in Pickers, RInv, LoadMap(p) PROVE RInv'
<1> USE DEF RInv, RShape, Known, RouterGoroutines, Changers, MuHolders
<1> /\ rpc[p] = "map" /\ rpc'[p] = "level" /\ p \notin MuHolders
    /\ \A k \in RouterGoroutines : k # p => rpc'[k] = rpc[k]
    /\ \A k \in Pickers : k # p => m'[k] = m[k]
    /\ \A k \in Pickers : k # p => at'[k] = at[k]
    /\ \A k \in Pickers : k # p => trail'[k] = trail[k]
    /\ rule[p] \in RuleRecs /\ rule[p].balancer \in Balancers
    /\ peers[rule[p].balancer] \in Maps
    /\ m'[p] = peers[rule[p].balancer] /\ at'[p] = rule[p].balancer
    /\ trail'[p] = {rule[p].balancer}
  <2>1. /\ rule[p] \in RuleRecs /\ rule[p].balancer # NoBalancer
        /\ peers[rule[p].balancer] # NoMap
    BY Zenon DEF LoadMap, MatchKnown, Known
  <2>2. rule[p].balancer \in Balancers
    BY Zenon, <2>1 DEF RuleRecs
  <2> QED BY <2>1, <2>2, RouterAssumption DEF LoadMap, RouterGoto, mapOf, RLockShape,
      RPubShape, RPickShape
<1> UNCHANGED <<rules, balancers, peers, override, graphMu, mu, change, newRules, newBalancers,
                dropped, read, rule, level, done, wg, created>>
  BY Zenon DEF LoadMap, RouterGoto, pubVars, changeVars, hookVars
<1>1. RLockShape'
  <2>1. rpc' = [rpc EXCEPT ![p] = rpc'[p]]
    BY Zenon DEF LoadMap, RouterGoto, RLockShape
  <2> QED BY Zenon, <2>1, PickerMoves
<1>2. RPickShape'
  BY Zenon DEF LoadMap, RouterGoto, RPickShape
<1>3. RPubShape' /\ RChangeShape' /\ RHookShape'
  BY Zenon DEF RPubShape, RChangeShape, RHookShape
<1>4. PeersOwn' /\ RulesKnown' /\ ReadKnown'
  BY Zenon DEF PeersOwn, RulesKnown, ReadKnown
<1>5. MatchKnown'
  BY Zenon DEF MatchKnown
<1>6. InMap'
  <2>1. m'[p] # NoMap /\ rule[p].balancer \in Range(m'[p])
    BY Zenon, RouterAssumption DEF PeersOwn
  <2>2. ASSUME NEW k \in Pickers, k # p, rpc'[k] = "level"
        PROVE  m'[k] # NoMap /\ at'[k] \in trail'[k] /\ trail'[k] \subseteq Range(m'[k])
    BY Zenon, <2>2 DEF InMap
  <2>3. at'[p] \in trail'[p] /\ trail'[p] \subseteq Range(m'[p])
    BY Zenon, <2>1
  <2> QED BY Zenon, <2>1, <2>2, <2>3 DEF InMap
<1>7. PublishedIn'
  <2>1. \A k \in Reloaders : rpc'[k] = rpc[k]
    BY Zenon
  <2>2. ASSUME \A k \in Reloaders : rpc'[k] # "rules"
        PROVE  \A r \in rules : r.balancer # NoBalancer => r.balancer \in Range(balancers)
    <3>1. \A k \in Reloaders : rpc[k] # "rules"
      BY Zenon, <2>1, <2>2
    <3> QED BY Zenon, <3>1 DEF PublishedIn
  <2> QED BY Zenon, <2>2 DEF PublishedIn
<1>8. NewIn'
  BY Zenon DEF NewIn
<1>9. RemoveKeeps'
  BY Zenon DEF RemoveKeeps
<1>10. HooksHeld'
  BY Zenon DEF HooksHeld, Hooks
<1>11. Counted'
  BY Zenon DEF Counted, RHookShape
<1>12. Quiet'
  BY Zenon DEF Quiet
<1> QED BY Zenon, <1>1, <1>2, <1>3, <1>4, <1>5, <1>6, <1>7, <1>8, <1>9, <1>10, <1>11, <1>12

\* The next balancer is one of the map.
LEMMA LevelOnStep == ASSUME NEW p \in Pickers, NEW t \in Tags, RInv, LevelOn(p, t) PROVE RInv'
<1> USE DEF RInv, RShape, Known, RouterGoroutines, Changers, MuHolders
<1> /\ rpc[p] = "level" /\ rpc'[p] \in {"level", "cut"} /\ p \notin MuHolders
    /\ \A k \in RouterGoroutines : k # p => rpc'[k] = rpc[k]
    /\ \A k \in Pickers : k # p => at'[k] = at[k]
    /\ \A k \in Pickers : k # p => trail'[k] = trail[k]
    /\ m[p] \in Maps /\ m[p][t] \in Balancers /\ m[p][t] \in Range(m[p])
    /\ at'[p] = m[p][t] /\ trail'[p] = trail[p] \cup {m[p][t]}
  <2>1. m[p] \in Maps /\ t \in DOMAIN m[p]
    BY Zenon DEF LevelOn, InMap, RPickShape
  <2>2. m[p][t] \in Balancers /\ m[p][t] \in Range(m[p])
    BY Zenon, <2>1, MapShape
  <2> QED BY <2>1, <2>2, RouterAssumption DEF LevelOn, RouterGoto, RLockShape, RPickShape
<1> UNCHANGED <<rules, balancers, peers, override, graphMu, mu, change, newRules, newBalancers,
                dropped, read, rule, m, done, wg, created>>
  BY Zenon DEF LevelOn, RouterGoto, pubVars, changeVars, hookVars
<1>1. RLockShape'
  <2>1. rpc' = [rpc EXCEPT ![p] = rpc'[p]]
    BY Zenon DEF LevelOn, RouterGoto, RLockShape
  <2> QED BY Zenon, <2>1, PickerMoves
<1>2. RPickShape'
  BY Zenon DEF LevelOn, RouterGoto, RPickShape
<1>3. RPubShape' /\ RChangeShape' /\ RHookShape'
  BY Zenon DEF RPubShape, RChangeShape, RHookShape
<1>4. PeersOwn' /\ RulesKnown' /\ ReadKnown'
  BY Zenon DEF PeersOwn, RulesKnown, ReadKnown
<1>5. MatchKnown'
  BY Zenon DEF MatchKnown
<1>6. InMap'
  BY Zenon DEF InMap
<1>7. PublishedIn'
  BY Zenon DEF PublishedIn
<1>8. NewIn'
  BY Zenon DEF NewIn
<1>9. RemoveKeeps'
  BY Zenon DEF RemoveKeeps
<1>10. HooksHeld'
  BY Zenon DEF HooksHeld, Hooks
<1>11. Counted'
  BY Zenon DEF Counted, RHookShape
<1>12. Quiet'
  BY Zenon DEF Quiet
<1> QED BY Zenon, <1>1, <1>2, <1>3, <1>4, <1>5, <1>6, <1>7, <1>8, <1>9, <1>10, <1>11, <1>12

\* The pick has come to an outbound.
LEMMA LevelEndsStep == ASSUME NEW p \in Pickers, RInv, LevelEnds(p) PROVE RInv'
<1> USE DEF RInv, RShape, Known, RouterGoroutines, Changers, MuHolders
<1> /\ rpc[p] = "level" /\ rpc'[p] = "fire" /\ p \notin MuHolders
    /\ \A k \in RouterGoroutines : k # p => rpc'[k] = rpc[k]
    /\ \A k \in Pickers : k # p => m'[k] = m[k]
    /\ \A k \in Pickers : k # p => at'[k] = at[k]
    /\ \A k \in Pickers : k # p => trail'[k] = trail[k]
  BY RouterAssumption DEF LevelEnds, RouterGoto, RLockShape, RPickShape, RPubShape,
     RChangeShape, RHookShape
<1> UNCHANGED <<rules, balancers, peers, override, graphMu, mu, change, newRules, newBalancers,
                dropped, read, rule, done, wg, created>>
  BY Zenon DEF LevelEnds, RouterGoto, pubVars, changeVars, hookVars
<1>1. RLockShape'
  <2>1. rpc' = [rpc EXCEPT ![p] = rpc'[p]]
    BY Zenon DEF LevelEnds, RouterGoto, RLockShape
  <2> QED BY Zenon, <2>1, PickerMoves
<1>2. RPickShape'
  BY Zenon DEF LevelEnds, RouterGoto, RPickShape
<1>3. RPubShape' /\ RChangeShape' /\ RHookShape'
  BY Zenon DEF RPubShape, RChangeShape, RHookShape
<1>4. PeersOwn' /\ RulesKnown' /\ ReadKnown'
  BY Zenon DEF PeersOwn, RulesKnown, ReadKnown
<1>5. MatchKnown'
  BY Zenon DEF MatchKnown
<1>6. InMap'
  BY Zenon DEF InMap
<1>7. PublishedIn'
  BY Zenon DEF PublishedIn
<1>8. NewIn'
  BY Zenon DEF NewIn
<1>9. RemoveKeeps'
  BY Zenon DEF RemoveKeeps
<1>10. HooksHeld'
  BY Zenon DEF HooksHeld, Hooks
<1>11. Counted'
  BY Zenon DEF Counted, RHookShape
<1>12. Quiet'
  BY Zenon DEF Quiet
<1> QED BY Zenon, <1>1, <1>2, <1>3, <1>4, <1>5, <1>6, <1>7, <1>8, <1>9, <1>10, <1>11, <1>12

\* A post is counted before it looks whether the webhook is closed.
LEMMA FireStep == ASSUME NEW p \in Pickers, RInv, Fire(p) PROVE RInv'
<1> USE DEF RInv, RShape, Known, RouterGoroutines, Changers, MuHolders
<1> /\ rpc[p] = "fire" /\ rpc'[p] \in {"fired", "returned"} /\ p \notin MuHolders
    /\ rule[p] \in RuleRecs
    /\ \A k \in RouterGoroutines : k # p => rpc'[k] = rpc[k]
    /\ \/ rpc'[p] = "fired" /\ rule[p].hook /\ wg' = wg \cup {<<rule[p], p>>}
       \/ rpc'[p] = "returned" /\ wg' = wg
  BY RouterAssumption DEF Fire, RouterGoto, RLockShape, RHookShape, RPubShape, RChangeShape,
     RPickShape, MatchKnown
<1> UNCHANGED <<rules, balancers, peers, override, graphMu, mu, change, newRules, newBalancers,
                dropped, read, rule, m, at, level, trail, done, created>>
  BY Zenon DEF Fire, RouterGoto, pubVars, changeVars, pickVars
<1>1. RLockShape'
  <2>1. rpc' = [rpc EXCEPT ![p] = rpc'[p]]
    BY Zenon DEF Fire, RouterGoto, RLockShape
  <2> QED BY Zenon, <2>1, PickerMoves
<1>2. RHookShape'
  BY DEF Fire, RouterGoto, RHookShape, HookRecs
<1>3. RPubShape' /\ RChangeShape' /\ RPickShape'
  BY Zenon DEF RPubShape, RChangeShape, RPickShape
<1>4. PeersOwn' /\ RulesKnown' /\ ReadKnown'
  BY Zenon DEF PeersOwn, RulesKnown, ReadKnown
<1>5. MatchKnown'
  BY Zenon DEF MatchKnown
<1>6. InMap'
  BY Zenon DEF InMap
<1>7. PublishedIn'
  BY Zenon DEF PublishedIn
<1>8. NewIn'
  BY Zenon DEF NewIn
<1>9. RemoveKeeps'
  BY Zenon DEF RemoveKeeps
<1>10. HooksHeld'
  BY Zenon DEF HooksHeld, Hooks
<1>11. Counted'
  BY DEF Counted, RHookShape
<1>12. Quiet'
  BY Zenon DEF Quiet
<1> QED BY Zenon, <1>1, <1>2, <1>3, <1>4, <1>5, <1>6, <1>7, <1>8, <1>9, <1>10, <1>11, <1>12

\* What is posted goes through a webhook that was open when it was counted.
LEMMA PostStep == ASSUME NEW p \in Pickers, RInv, Post(p) PROVE RInv'
<1> USE DEF RInv, RShape, Known, RouterGoroutines, Changers, MuHolders
<1> /\ rpc[p] = "fired" /\ rpc'[p] \in {"post", "returned"} /\ p \notin MuHolders
    /\ \A k \in RouterGoroutines : k # p => rpc'[k] = rpc[k]
    /\ \/ rpc'[p] = "post" /\ rule[p] \notin done /\ wg' = wg
       \/ rpc'[p] = "returned" /\ wg' = wg \ {<<rule[p], p>>}
  BY RouterAssumption DEF Post, RouterGoto, mayPost, notCounted, RLockShape, RHookShape,
     RPubShape, RChangeShape, RPickShape
<1> UNCHANGED <<rules, balancers, peers, override, graphMu, mu, change, newRules, newBalancers,
                dropped, read, rule, m, at, level, trail, done, created>>
  BY Zenon DEF Post, RouterGoto, pubVars, changeVars, pickVars
<1>1. RLockShape'
  <2>1. rpc' = [rpc EXCEPT ![p] = rpc'[p]]
    <3>1. \E l : rpc' = [rpc EXCEPT ![p] = l]
      BY Zenon DEF Post, RouterGoto
    <3> QED BY Zenon, <3>1 DEF RLockShape
  <2> QED BY Zenon, <2>1, PickerMoves
<1>2. RHookShape'
  BY Zenon DEF Post, RouterGoto, mayPost, notCounted, RHookShape
<1>3. RPubShape' /\ RChangeShape' /\ RPickShape'
  BY Zenon DEF RPubShape, RChangeShape, RPickShape
<1>4. PeersOwn' /\ RulesKnown' /\ ReadKnown'
  BY Zenon DEF PeersOwn, RulesKnown, ReadKnown
<1>5. MatchKnown'
  BY Zenon DEF MatchKnown
<1>6. InMap'
  BY Zenon DEF InMap
<1>7. PublishedIn'
  BY Zenon DEF PublishedIn
<1>8. NewIn'
  BY Zenon DEF NewIn
<1>9. RemoveKeeps'
  BY Zenon DEF RemoveKeeps
<1>10. HooksHeld'
  BY Zenon DEF HooksHeld, Hooks
<1>11. Counted'
  BY DEF Counted, RHookShape
<1>12. Quiet'
  BY Zenon DEF Quiet
<1> QED BY Zenon, <1>1, <1>2, <1>3, <1>4, <1>5, <1>6, <1>7, <1>8, <1>9, <1>10, <1>11, <1>12

\* A post that has returned is no longer counted.
LEMMA PostedStep == ASSUME NEW p \in Pickers, RInv, Posted(p) PROVE RInv'
<1> USE DEF RInv, RShape, Known, RouterGoroutines, Changers, MuHolders
<1> /\ rpc[p] = "post" /\ rpc'[p] = "returned" /\ p \notin MuHolders
    /\ \A k \in RouterGoroutines : k # p => rpc'[k] = rpc[k]
    /\ wg' = wg \ {<<rule[p], p>>}
  BY Zenon, RouterAssumption DEF Posted, RouterGoto, RLockShape, RHookShape, RPubShape,
     RChangeShape, RPickShape
<1> UNCHANGED <<rules, balancers, peers, override, graphMu, mu, change, newRules, newBalancers,
                dropped, read, rule, m, at, level, trail, done, created>>
  BY Zenon DEF Posted, RouterGoto, pubVars, changeVars, pickVars
<1>1. RLockShape'
  <2>1. rpc' = [rpc EXCEPT ![p] = rpc'[p]]
    BY Zenon DEF Posted, RouterGoto, RLockShape
  <2> QED BY Zenon, <2>1, PickerMoves
<1>2. RHookShape'
  BY Zenon DEF Posted, RouterGoto, RHookShape
<1>3. RPubShape' /\ RChangeShape' /\ RPickShape'
  BY Zenon DEF RPubShape, RChangeShape, RPickShape
<1>4. PeersOwn' /\ RulesKnown' /\ ReadKnown'
  BY Zenon DEF PeersOwn, RulesKnown, ReadKnown
<1>5. MatchKnown'
  BY Zenon DEF MatchKnown
<1>6. InMap'
  BY Zenon DEF InMap
<1>7. PublishedIn'
  BY Zenon DEF PublishedIn
<1>8. NewIn'
  BY Zenon DEF NewIn
<1>9. RemoveKeeps'
  BY Zenon DEF RemoveKeeps
<1>10. HooksHeld'
  BY Zenon DEF HooksHeld, Hooks
<1>11. Counted'
  BY DEF Counted, RHookShape
<1>12. Quiet'
  BY Zenon DEF Quiet
<1> QED BY Zenon, <1>1, <1>2, <1>3, <1>4, <1>5, <1>6, <1>7, <1>8, <1>9, <1>10, <1>11, <1>12

\* The routing of core.New satisfies the invariant.
LEMMA RouterInitInv == RouterInit => RInv
<1> SUFFICES ASSUME RouterInit PROVE RInv
  BY Zenon
<1> USE DEF RouterGoroutines, Changers, MuHolders
<1>1. PICK c \in Changes :
        /\ balancers = built(Boot, c)
        /\ rules = made(Boot, c, built(Boot, c), Len(c.rules))
  BY Zenon DEF RouterInit
<1>2. balancers \in Maps
  <2>1. DOMAIN c.balancers \in SUBSET Tags
    BY Zenon DEF Tags
  <2>2. balancers \in [DOMAIN c.balancers -> Balancers]
    BY Zenon, <1>1, <2>1 DEF built, Balancers
  <2> QED BY Zenon, <2>1, <2>2 DEF Maps
<1>3. /\ rules \in SUBSET RuleRecs
      /\ \A r \in rules : r.balancer # NoBalancer => r.balancer \in Range(balancers)
  <2>1. Len(c.rules) \in Nat
    BY RouterAssumption
  <2>2. Len(c.rules) \in 0 .. Len(c.rules)
    BY <2>1
  <2> QED BY Zenon, <1>1, <1>2, <2>2, MadeOver
<1>4. Range(balancers) \subseteq Balancers /\ balancers # NoMap
  BY Zenon, <1>2, MapShape, RouterAssumption
<1>5. Hooks(rules) \subseteq HookRecs
  BY Zenon, <1>3 DEF Hooks, HookRecs
<1>6. RLockShape
  BY RouterAssumption DEF RouterInit, RLockShape
<1>7. RPubShape
  BY Zenon, <1>2, <1>3 DEF RouterInit, RPubShape
<1>8. RChangeShape /\ RPickShape
  BY Zenon DEF RouterInit, RChangeShape, RPickShape
<1>9. RHookShape
  BY Zenon, <1>5 DEF RouterInit, RHookShape
<1>10. PeersOwn /\ RulesKnown /\ ReadKnown
  BY Zenon, <1>3, <1>4 DEF RouterInit, PeersOwn, RulesKnown, ReadKnown, Known
<1>11. MatchKnown /\ InMap
  BY Zenon DEF RouterInit, MatchKnown, InMap
<1>12. PublishedIn /\ NewIn /\ RemoveKeeps
  BY Zenon, <1>3 DEF RouterInit, PublishedIn, NewIn, RemoveKeeps
<1>13. HooksHeld /\ Counted /\ Quiet
  BY Zenon DEF RouterInit, HooksHeld, Counted, Quiet
<1> QED BY Zenon, <1>6, <1>7, <1>8, <1>9, <1>10, <1>11, <1>12, <1>13 DEF RInv, RShape

\* Every step of the router preserves it.
LEMMA RouterInvStep == RInv /\ [RouterNext]_routerVars => RInv'
<1> SUFFICES ASSUME RInv, [RouterNext]_routerVars PROVE RInv'
  BY Zenon
<1>1. ASSUME NEW g \in MuHolders, RouterCloserStep(g) PROVE RInv'
  BY Zenon, <1>1, UnlockStep, CloseDoneStep, CloseWaitedStep DEF RouterCloserStep
<1>2. ASSUME NEW g \in Changers, Lock(g) \/ ChangerStep(g) PROVE RInv'
  <2>1. g \in MuHolders
    BY Zenon DEF MuHolders
  <2>2. CASE Lock(g)
    BY Zenon, <2>2, LockStep
  <2>3. CASE g \in Reloaders /\ (Publish(g) \/ \E c \in Changes : Reload(g, c))
    BY Zenon, <2>3, StorePeersStep, StoreBalancersStep, StoreRulesStep, ReloadStep DEF Publish
  <2>4. CASE g \in RuleRemovers /\ (StoreRules(g) \/ \E tag \in RuleTags : Remove(g, tag))
    BY Zenon, <2>4, StoreRulesStep, RemoveStep
  <2>5. CASE RouterCloserStep(g)
    BY Zenon, <1>1, <2>1, <2>5
  <2> QED BY Zenon, <1>2, <2>2, <2>3, <2>4, <2>5 DEF ChangerStep
<1>3. ASSUME NEW p \in Pickers, ReadRules(p) \/ PickerStep(p) PROVE RInv'
  BY Zenon, <1>3, ReadRulesStep, MatchStep, NoMatchStep, LoadMapStep, LevelOnStep,
     LevelEndsStep, FireStep, PostStep, PostedStep DEF PickerStep
<1>4. ASSUME NEW g \in RouterClosers, CloseRouter(g) \/ RouterCloserStep(g) PROVE RInv'
  BY Zenon, <1>1, <1>4, CloseRouterStep DEF MuHolders
<1>5. ASSUME NEW g \in Overriders, NEW t \in Tags, NEW target \in Tags \cup {"out", NoTag},
             SetOverride(g, t, target)
      PROVE  RInv'
  BY Zenon, <1>5, SetOverrideStep
<1>6. CASE UNCHANGED routerVars
  <2> USE <1>6 DEF routerVars
  <2>1. RShape'
    BY Zenon DEF RInv, RShape, RLockShape, RPubShape, RChangeShape, RPickShape, RHookShape
  <2>2. PeersOwn' /\ RulesKnown' /\ ReadKnown' /\ MatchKnown' /\ InMap'
    BY Zenon DEF RInv, PeersOwn, RulesKnown, ReadKnown, MatchKnown, InMap, Known
  <2>3. PublishedIn' /\ NewIn' /\ RemoveKeeps' /\ HooksHeld' /\ Counted' /\ Quiet'
    BY Zenon DEF RInv, PublishedIn, NewIn, RemoveKeeps, HooksHeld, Counted, Quiet, Known
  <2> QED BY Zenon, <2>1, <2>2, <2>3 DEF RInv
<1> QED BY Zenon, <1>2, <1>3, <1>4, <1>5, <1>6 DEF RouterNext

\* The inductive invariant of the router holds throughout.
LEMMA RouterAlwaysInv == RouterSpec => []RInv
<1>1. RouterInit => RInv
  BY Zenon, RouterInitInv
<1>2. RInv /\ [RouterNext]_routerVars => RInv'
  BY Zenon, RouterInvStep
<1> QED BY <1>1, <1>2, PTL DEF RouterSpec

\* A pick walks through balancers of one map, however many reloads publish others
\* meanwhile and however deep the balancers are nested.
THEOREM RouterOneMap == RouterSpec => []OneMap
<1>1. RInv => OneMap
  <2> SUFFICES ASSUME RInv PROVE OneMap
    BY Zenon
  <2> USE DEF RInv, RShape
  <2>1. ASSUME NEW f \in Maps PROVE Range(f) \subseteq Balancers
    BY Zenon, MapShape
  <2>2. /\ graphMu \in Changers \cup {Unlocked}
        /\ mu \in Changers \cup RouterClosers \cup {Unlocked}
        /\ \A g \in Changers : (graphMu = g) = (rpc[g] \notin {"idle", "returned"})
        /\ \A g \in Changers \cup RouterClosers :
              (mu = g) = (rpc[g] \in {"peers", "rules", "close"})
    BY Zenon DEF RLockShape, MuHolders
  <2>3. /\ Range(balancers) \subseteq Balancers
        /\ \A b \in Balancers : peers[b] # NoMap => Range(peers[b]) \subseteq Balancers
        /\ \A b \in Balancers : override[b] \in Tags \cup {"out", NoTag}
    BY Zenon, <2>1 DEF RPubShape
  <2>4. \A p \in Pickers : rpc[p] = "level" =>
            at[p] \in trail[p] /\ trail[p] \subseteq Range(m[p])
    BY Zenon DEF InMap
  <2>5. done \subseteq [by : Reloaders \cup {Boot}, n : Nat, ruleTag : AnyTag,
                        hook : {TRUE}, balancer : Balancers \cup {NoBalancer}]
    BY Zenon DEF RHookShape, HookRecs, RuleRecs
  <2>6. \A w \in wg : rpc[w[2]] \in {"fired", "post"} /\ rule[w[2]] = w[1]
    BY Zenon DEF Counted
  <2> QED BY Zenon, <2>2, <2>3, <2>4, <2>5, <2>6 DEF OneMap, RouterTypeOK
<1> QED BY <1>1, RouterAlwaysInv, PTL

\* The balancer of a published rule is always found: in the published map when no
\* change is under way, and in its own at any time.
THEOREM RouterRulesResolve == RouterSpec => []RulesResolve
<1>1. RInv => RulesResolve
  <2> SUFFICES ASSUME RInv PROVE RulesResolve
    BY Zenon
  <2> USE DEF RInv, RShape
  <2>1. ASSUME NEW r \in rules, r.balancer # NoBalancer
        PROVE  r.balancer \in Balancers /\ peers[r.balancer] # NoMap
    BY Zenon, <2>1 DEF RPubShape, RuleRecs, RulesKnown, Known
  <2>2. graphMu = Unlocked => \A g \in Reloaders : rpc[g] # "rules"
    BY RouterAssumption DEF RLockShape, Changers
  <2> QED BY Zenon, <2>1, <2>2 DEF RulesResolve, PeersOwn, PublishedIn
<1> QED BY <1>1, RouterAlwaysInv, PTL

\* Replacing, appending, removing and closing lose no webhook, refused changes
\* included, and nothing is posted through one that was waited for.
THEOREM RouterHooksFreed == RouterSpec => []HooksFreed
<1>1. RInv => HooksFreed
  BY Zenon DEF RInv, HooksHeld, Quiet, HooksFreed, MuHolders
<1> QED BY <1>1, RouterAlwaysInv, PTL
=============================================================================

------------------------------- MODULE Router -------------------------------
(***************************************************************************)
(* app/router.Router while rules and balancers are replaced, appended and  *)
(* removed under its feet.  A pick takes no lock: it reads the published   *)
(* rules, then the balancer map of the rule it matched, then one level     *)
(* after the other, then fires the rule's webhook.  A change holds the     *)
(* graph mutex and r.mu, publishes with three kinds of atomic stores and   *)
(* closes the webhooks it has taken out, waiting for their posts.          *)
(*                                                                         *)
(* Each changer makes one change, so it names the balancers and the rules  *)
(* it creates.  LoopGraph says what a good balancer map is; the check      *)
(* against the handlers (OutboundManager) may refuse any change.  A pick   *)
(* may match any rule it finds, so a list of rules is the set of them.     *)
(***************************************************************************)
EXTENDS LoopGraph, Functions

CONSTANTS
    Changes,        \* what reloadRules may be asked for: see RouterInit
    Boot,           \* the creator of the initial routing
    Reloaders, RuleRemovers, Overriders, Pickers, RouterClosers,
    Unlocked, NoMap, NoBalancer

Changers == Reloaders \cup RuleRemovers
RouterGoroutines == Changers \cup Overriders \cup Pickers \cup RouterClosers
AnyTag == {NoTag} \cup STRING
Tags == UNION {DOMAIN c.balancers : c \in Changes}
RuleTags == UNION {{c.rules[i].ruleTag : i \in DOMAIN c.rules} : c \in Changes}
Balancers == [by : Reloaders \cup {Boot}, tag : Tags]
Maps == UNION {[S -> Balancers] : S \in SUBSET Tags}
None == [by |-> Unlocked]

\* The changes are well formed; a goroutine makes one kind of call.
ASSUME RouterAssumption ==
    /\ \A c \in Changes :
          /\ c.append \in BOOLEAN
          /\ c.rules \in Seq([ruleTag : AnyTag, hook : BOOLEAN, balancer : AnyTag])
    /\ NoMap \notin Maps /\ Unlocked \notin Changers \cup RouterClosers
    /\ Reloaders \cap RuleRemovers = {} /\ Changers \cap RouterClosers = {}
    /\ Pickers \cap (Changers \cup RouterClosers) = {}
    /\ Overriders \cap (Changers \cup RouterClosers \cup Pickers) = {}

VARIABLES
    rules,          \* r.rules
    balancers,      \* r.balancers: from tags to balancers
    peers,          \* per balancer, its map
    override,       \* per balancer
    graphMu, mu,    \* holders of the two mutexes
    rpc,            \* per goroutine
    change,         \* per reloader: what it was asked for
    newRules, newBalancers,     \* per changer: what it is about to publish
    dropped,        \* per changer and closer: rules whose webhooks it is to close
    read,           \* per picker: the rules it has read
    rule,           \* per picker: the rule it matched
    m, at, level,   \* per picker: its map, its balancer and the number of levels
    trail,          \* per picker: history, the balancers it went through
    done, wg,       \* per webhook (by rule): closed or not; the pickers it counts
    created         \* history: the rules with a webhook that were ever made

routerVars == <<rules, balancers, peers, override, graphMu, mu, rpc, change, newRules, newBalancers,
          dropped, read, rule, m, at, level, trail, done, wg, created>>
pubVars == <<rules, balancers, peers, override>>
changeVars == <<change, newRules, newBalancers, dropped>>
pickVars == <<read, rule, m, at, level, trail>>
hookVars == <<done, wg, created>>

\* The configured part of balancer b.
conf(b) == change[b.by].balancers[b.tag]

\* The first n rules that change c of g makes, over the balancers of map.
made(g, c, map, n) ==
    {[by |-> g, n |-> i, ruleTag |-> c.rules[i].ruleTag, hook |-> c.rules[i].hook,
      balancer |-> IF c.rules[i].balancer \in DOMAIN map THEN map[c.rules[i].balancer]
                   ELSE NoBalancer] : i \in 1 .. n}

\* Every balancer that a rule of c names is found, and no rule tag is used twice.
buildable(c, map, R) ==
    /\ \A i \in DOMAIN c.rules : c.rules[i].balancer \in DOMAIN map \cup {NoTag}
    /\ \A r, q \in R : r.ruleTag = q.ruleTag /\ r.ruleTag # NoTag => r = q

built(g, c) == [t \in DOMAIN c.balancers |-> [by |-> g, tag |-> t]]

Hooks(R) == {r \in R : r.hook}

\* A change is a record of append, balancers (from tags to their members and
\* fallback) and rules (of ruleTag, hook and balancer).  core.New made the first.
RouterInit ==
    /\ \E c \in Changes :
          /\ ~c.append /\ balancerGraphOK(c.balancers)
          /\ change = [g \in Reloaders \cup {Boot} |-> c]
          /\ balancers = built(Boot, c)
          /\ rules = made(Boot, c, built(Boot, c), Len(c.rules))
          /\ buildable(c, built(Boot, c), rules)
    /\ peers = [b \in Balancers |-> IF b \in Range(balancers) THEN balancers ELSE NoMap]
    /\ override = [b \in Balancers |-> NoTag]
    /\ graphMu = Unlocked /\ mu = Unlocked
    /\ rpc = [g \in RouterGoroutines |-> "idle"]
    /\ newRules = [g \in Changers |-> {}]
    /\ newBalancers = [g \in Reloaders |-> NoMap]
    /\ dropped = [g \in Changers \cup RouterClosers |-> {}]
    /\ read = [p \in Pickers |-> {}]
    /\ rule = [p \in Pickers |-> None]
    /\ m = [p \in Pickers |-> NoMap]
    /\ at = [p \in Pickers |-> NoBalancer]
    /\ level = [p \in Pickers |-> 0]
    /\ trail = [p \in Pickers |-> {}]
    /\ done = {}
    /\ wg = {}
    /\ created = Hooks(rules)

RouterGoto(g, l) == rpc' = [rpc EXCEPT ![g] = l]

-----------------------------------------------------------------------------
(* reloadRules, RemoveRule. *)

Lock(g) ==
    /\ rpc[g] = "idle"
    /\ graphMu = Unlocked
    /\ graphMu' = g
    /\ RouterGoto(g, "locked")
    /\ UNCHANGED <<pubVars, mu, changeVars, pickVars, hookVars>>

\* Mutant: the deferred closeWebhooks is missing.
undoneNot(R) == {}

\* The webhooks of the rules that a failing change has made.
undone(R) == Hooks(R)

\* Under both mutexes: the new rules and balancers are put together and checked.
\* When one cannot be built or the loop check refuses, those made so far go.
Reload(g, c) ==
    /\ rpc[g] = "locked"
    /\ mu = Unlocked
    /\ mu' = g
    /\ change' = [change EXCEPT ![g] = c]
    /\ LET old == IF c.append THEN balancers ELSE [t \in {} |-> NoBalancer]
           map == [t \in DOMAIN old \cup DOMAIN c.balancers |->
                      IF t \in DOMAIN old THEN old[t] ELSE [by |-> g, tag |-> t]]
           new(n) == made(g, c, map, n)
           all == (IF c.append THEN rules ELSE {}) \cup new(Len(c.rules))
           fails(n) == /\ dropped' = [dropped EXCEPT ![g] = undone(new(n))]
                       /\ created' = created \cup Hooks(new(n))
                       /\ RouterGoto(g, "close")
                       /\ UNCHANGED <<newRules, newBalancers>>
       IN  \/ \E n \in 0 .. Len(c.rules) : fails(n)
           \/ /\ DOMAIN old \cap DOMAIN c.balancers = {}
              /\ buildable(c, map, all)
              /\ balancerGraphOK([t \in DOMAIN map |->
                      IF t \in DOMAIN old THEN conf(old[t]) ELSE c.balancers[t]])
              /\ newBalancers' = [newBalancers EXCEPT ![g] = map]
              /\ newRules' = [newRules EXCEPT ![g] = all]
              /\ dropped' = [dropped EXCEPT ![g] = IF c.append THEN {} ELSE Hooks(rules)]
              /\ created' = created \cup Hooks(new(Len(c.rules)))
              /\ RouterGoto(g, "peers")
    /\ UNCHANGED <<pubVars, graphMu, pickVars, done, wg>>

StorePeers(g, b) ==
    /\ rpc[g] = "peers"
    /\ b \in Range(newBalancers[g]) /\ peers[b] # newBalancers[g]
    /\ peers' = [peers EXCEPT ![b] = newBalancers[g]]
    /\ UNCHANGED <<rules, balancers, override, graphMu, mu, rpc, changeVars, pickVars, hookVars>>

\* Mutant: the rules are published before the balancers know their map.
peersStoredNot(g) == TRUE

peersStored(g) == \A b \in Range(newBalancers[g]) : peers[b] = newBalancers[g]

StoreBalancers(g) ==
    /\ rpc[g] = "peers"
    /\ peersStored(g)
    /\ balancers' = newBalancers[g]
    /\ RouterGoto(g, "rules")
    /\ UNCHANGED <<rules, peers, override, graphMu, mu, changeVars, pickVars, hookVars>>

\* RemoveRule, up to its store.
Remove(g, tag) ==
    /\ rpc[g] = "locked" /\ tag # NoTag
    /\ mu = Unlocked
    /\ mu' = g
    /\ \/ /\ newRules' = [newRules EXCEPT ![g] = {r \in rules : r.ruleTag # tag}]
          /\ dropped' = [dropped EXCEPT ![g] = {r \in Hooks(rules) : r.ruleTag = tag}]
          /\ RouterGoto(g, "rules")
       \/ RouterGoto(g, "close") /\ UNCHANGED <<newRules, dropped>>
    /\ UNCHANGED <<pubVars, graphMu, change, newBalancers, pickVars, hookVars>>

gone(g) == dropped[g]

StoreRules(g) ==
    /\ rpc[g] = "rules"
    /\ rules' = newRules[g]
    /\ dropped' = [dropped EXCEPT ![g] = gone(g)]
    /\ RouterGoto(g, "close")
    /\ UNCHANGED <<balancers, peers, override, graphMu, mu, change, newRules, newBalancers,
                   pickVars, hookVars>>

-----------------------------------------------------------------------------
(* closeWebhooks, and Router.Close. *)

CloseRouter(g) ==
    /\ rpc[g] = "idle"
    /\ mu = Unlocked
    /\ mu' = g
    /\ dropped' = [dropped EXCEPT ![g] = Hooks(rules)]
    /\ RouterGoto(g, "close")
    /\ UNCHANGED <<pubVars, graphMu, change, newRules, newBalancers, pickVars, hookVars>>

CloseDone(g, r) ==
    /\ rpc[g] = "close"
    /\ r \in dropped[g] /\ r \notin done
    /\ done' = done \cup {r}
    /\ UNCHANGED <<pubVars, graphMu, mu, rpc, changeVars, pickVars, wg, created>>

noPosts(r) == ~\E p \in Pickers : <<r, p>> \in wg

CloseWaited(g, r) ==
    /\ rpc[g] = "close"
    /\ r \in dropped[g] /\ r \in done
    /\ noPosts(r)
    /\ dropped' = [dropped EXCEPT ![g] = @ \ {r}]
    /\ UNCHANGED <<pubVars, graphMu, mu, rpc, change, newRules, newBalancers, pickVars, hookVars>>

graphAfter(g) == IF graphMu = g THEN Unlocked ELSE graphMu

Unlock(g) ==
    /\ rpc[g] = "close"
    /\ dropped[g] = {}
    /\ mu' = Unlocked
    /\ graphMu' = graphAfter(g)
    /\ IF g \in Changers THEN newRules' = [newRules EXCEPT ![g] = {}] ELSE UNCHANGED newRules
    /\ RouterGoto(g, "returned")
    /\ UNCHANGED <<pubVars, change, newBalancers, dropped, pickVars, hookVars>>

-----------------------------------------------------------------------------
(* SetOverrideTarget: the target is an outbound or is cleared.  A call that the *)
(* loop check refuses changes nothing.                                          *)

SetOverride(g, t, target) ==
    /\ rpc[g] = "idle"
    /\ graphMu = Unlocked
    /\ t \in DOMAIN balancers
    /\ target \notin DOMAIN balancers
    /\ override' = [override EXCEPT ![balancers[t]] = target]
    /\ RouterGoto(g, "returned")
    /\ UNCHANGED <<rules, balancers, peers, graphMu, mu, changeVars, pickVars, hookVars>>

-----------------------------------------------------------------------------
(* PickRoute. *)

ReadRules(p) ==
    /\ rpc[p] = "idle"
    /\ read' = [read EXCEPT ![p] = rules]
    /\ RouterGoto(p, "match")
    /\ UNCHANGED <<pubVars, graphMu, mu, changeVars, rule, m, at, level, trail, hookVars>>

Match(p, r) ==
    /\ rpc[p] = "match"
    /\ r \in read[p]
    /\ rule' = [rule EXCEPT ![p] = r]
    /\ read' = [read EXCEPT ![p] = {}]
    /\ RouterGoto(p, IF r.balancer = NoBalancer THEN "fire" ELSE "map")
    /\ UNCHANGED <<pubVars, graphMu, mu, changeVars, m, at, level, trail, hookVars>>

NoMatch(p) ==
    /\ rpc[p] = "match"
    /\ read' = [read EXCEPT ![p] = {}]
    /\ RouterGoto(p, "returned")
    /\ UNCHANGED <<pubVars, graphMu, mu, changeVars, rule, m, at, level, trail, hookVars>>

\* Mutant: the chain is resolved on the newest map of all.
mapOfRouter(b) == balancers

\* The newest published map that contains b.
mapOf(b) == IF peers[b] = NoMap THEN balancers ELSE peers[b]

LoadMap(p) ==
    /\ rpc[p] = "map"
    /\ at' = [at EXCEPT ![p] = rule[p].balancer]
    /\ m' = [m EXCEPT ![p] = mapOf(rule[p].balancer)]
    /\ trail' = [trail EXCEPT ![p] = {rule[p].balancer}]
    /\ RouterGoto(p, "level")
    /\ UNCHANGED <<pubVars, graphMu, mu, changeVars, read, rule, level, hookVars>>

\* Another balancer: a member that was picked, or the fallback.
LevelOn(p, t) ==
    /\ rpc[p] = "level"
    /\ \/ t \in conf(at[p]).members /\ override[at[p]] = NoTag
       \/ t = conf(at[p]).fallback /\ override[at[p]] = NoTag
    /\ t \in DOMAIN m[p]
    /\ at' = [at EXCEPT ![p] = m[p][t]]
    /\ trail' = [trail EXCEPT ![p] = @ \cup {m[p][t]}]
    /\ level' = [level EXCEPT ![p] = @ + 1]
    /\ RouterGoto(p, IF level[p] < Cardinality(DOMAIN m[p]) THEN "level" ELSE "cut")
    /\ UNCHANGED <<pubVars, graphMu, mu, changeVars, read, rule, m, hookVars>>

\* An outbound: a candidate, the override target or a fallback that is none.
LevelEnds(p) ==
    /\ rpc[p] = "level"
    /\ m' = [m EXCEPT ![p] = NoMap]
    /\ at' = [at EXCEPT ![p] = NoBalancer]
    /\ trail' = [trail EXCEPT ![p] = {}]
    /\ level' = [level EXCEPT ![p] = 0]
    /\ RouterGoto(p, "fire")
    /\ UNCHANGED <<pubVars, graphMu, mu, changeVars, read, rule, hookVars>>

\* WebhookNotifier.Fire counts itself, then looks whether the webhook is closed.
Fire(p) ==
    /\ rpc[p] = "fire"
    /\ IF rule[p].hook
       THEN wg' = wg \cup {<<rule[p], p>>} /\ RouterGoto(p, "fired")
       ELSE RouterGoto(p, "returned") /\ UNCHANGED wg
    /\ UNCHANGED <<pubVars, graphMu, mu, changeVars, pickVars, done, created>>

mayPost(r) == r \notin done

notCounted(p) == wg \ {<<rule[p], p>>}

Post(p) ==
    /\ rpc[p] = "fired"
    /\ IF mayPost(rule[p])
       THEN RouterGoto(p, "post") /\ UNCHANGED wg
       ELSE RouterGoto(p, "returned") /\ wg' = notCounted(p)
    /\ UNCHANGED <<pubVars, graphMu, mu, changeVars, pickVars, done, created>>

Posted(p) ==
    /\ rpc[p] = "post"
    /\ wg' = wg \ {<<rule[p], p>>}
    /\ RouterGoto(p, "returned")
    /\ UNCHANGED <<pubVars, graphMu, mu, changeVars, pickVars, done, created>>

-----------------------------------------------------------------------------
RouterCloserStep(g) == Unlock(g) \/ \E r \in dropped[g] : CloseDone(g, r) \/ CloseWaited(g, r)

Publish(g) ==
    \/ \E b \in Balancers : StorePeers(g, b)
    \/ StoreBalancers(g)
    \/ StoreRules(g)

PickerStep(p) ==
    \/ NoMatch(p) \/ LoadMap(p) \/ LevelEnds(p) \/ Fire(p) \/ Post(p) \/ Posted(p)
    \/ \E r \in read[p] : Match(p, r)
    \/ \E t \in Tags : LevelOn(p, t)

ChangerStep(g) ==
    \/ g \in Reloaders /\ (Publish(g) \/ \E c \in Changes : Reload(g, c))
    \/ g \in RuleRemovers /\ (StoreRules(g) \/ \E tag \in RuleTags : Remove(g, tag))
    \/ RouterCloserStep(g)

RouterNext ==
    \/ \E g \in Changers : Lock(g) \/ ChangerStep(g)
    \/ \E g \in Overriders, t \in Tags, target \in Tags \cup {"out", NoTag} : SetOverride(g, t, target)
    \/ \E p \in Pickers : ReadRules(p) \/ PickerStep(p)
    \/ \E g \in RouterClosers : CloseRouter(g) \/ RouterCloserStep(g)

RouterSpec == RouterInit /\ [][RouterNext]_routerVars

-----------------------------------------------------------------------------
(* Properties. *)

RouterTypeOK ==
    /\ graphMu \in Changers \cup {Unlocked}
    /\ mu \in Changers \cup RouterClosers \cup {Unlocked}
    /\ \A g \in Changers : (graphMu = g) = (rpc[g] \notin {"idle", "returned"})
    /\ \A g \in Changers \cup RouterClosers :
          (mu = g) = (rpc[g] \in {"peers", "rules", "close"})
    /\ Range(balancers) \subseteq Balancers
    /\ \A b \in Balancers : peers[b] # NoMap => Range(peers[b]) \subseteq Balancers
    /\ \A b \in Balancers : override[b] \in Tags \cup {"out", NoTag}
    /\ \A p \in Pickers : (rpc[p] = "level") => at[p] \in trail[p]
    /\ done \subseteq [by : Reloaders \cup {Boot}, n : Nat, ruleTag : AnyTag,
                       hook : {TRUE}, balancer : Balancers \cup {NoBalancer}]
    /\ \A w \in wg : rpc[w[2]] \in {"fired", "post"} /\ rule[w[2]] = w[1]

\* spec017 L6: a pick goes through the balancers of one map, the one its rule
\* was published with or a later one that still has the rule's balancer; a
\* replacing reload in the middle of it never makes it mix two.
\* The state is well typed throughout.
OneMap ==
    /\ RouterTypeOK
    /\ \A p \in Pickers : rpc[p] = "level" => trail[p] \subseteq Range(m[p])

\* A rule that a pick can find has a balancer that is in the published map
\* unless a change is just being published, and always in its own.
RulesResolve ==
    /\ \A r \in rules : r.balancer # NoBalancer =>
          peers[r.balancer] # NoMap /\ r.balancer \in Range(peers[r.balancer])
    /\ graphMu = Unlocked =>
          \A r \in rules : r.balancer # NoBalancer => r.balancer \in Range(balancers)

\* No webhook is lost: one that was ever made belongs to a published rule or is
\* closed, whenever no change is under way; refused changes included.  And once
\* closeWebhooks has waited for a webhook, nothing is posted through it.
HooksFreed ==
    /\ mu = Unlocked => created \subseteq Hooks(rules) \cup done
    /\ \A p \in Pickers : rpc[p] = "post" =>
          rule[p] \notin done \/ \E g \in Changers \cup RouterClosers : rule[p] \in dropped[g]
=============================================================================

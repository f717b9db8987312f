------------------------ MODULE ConfigReload_proofs ------------------------
(***************************************************************************)
(* For every set of manifests and any number of edits: the routes and the  *)
(* registry hold the same groups outside the swap window, traffic goes to  *)
(* instances that earned it, and a reload keeps what it does not change.   *)
(***************************************************************************)
EXTENDS ConfigReload, WellFoundedInduction, TLAPS

\* An instance is filed under its own upstream and was built by a reconcile that
\* has happened.
WellFiled(g) ==
  \A u \in DOMAIN g :
    /\ DOMAIN g[u].instances \subseteq Nat
    /\ \A i \in Range(g[u].instances) :
         i.upstream = u /\ i.born \in Nat /\ i.born <= reconciles

\* Of the listings of one address and weight, all that were ever probed are the
\* first.
Seen == healthy \cup {p.instance : p \in probes}

SeenAreFirst(g) ==
  \A u \in DOMAIN g : \A i \in Range(g[u].instances) \cap Seen :
    i = First(g[u].instances, i)

\* What reconcile makes of the groups it finds.
Follows(old, new) ==
  \A u \in DOMAIN old \cap DOMAIN new :
    old[u].health = new[u].health =>
      \A j \in Range(new[u].instances) :
        Alike(old[u].instances, j) # {} => j = First(old[u].instances, j)

\* A probe in flight on an instance of the group runs under its policy.
ProbesFit(g) ==
  \A u \in DOMAIN g : \A p \in probes :
    p.instance \in Range(g[u].instances) => p.policy = g[u].health

Earned(g) ==
  \A u \in DOMAIN g : \A i \in Range(g[u].instances) \cap healthy :
    [instance |-> i, policy |-> g[u].health] \in proved

\* Probes and health belong to instances that exist already, so a new instance
\* starts with neither.
NothingAhead ==
  /\ \A p \in probes : /\ p = [instance |-> p.instance, policy |-> p.policy]
                       /\ p.instance.born \in Nat
                       /\ p.instance.born <= reconciles
  /\ \A i \in healthy : i.born \in Nat /\ i.born <= reconciles

\* The groups that routes hold and the registry's agree on the policy of an
\* instance they share, also in the swap window.
SharePolicy ==
  \A u \in DOMAIN groups, v \in DOMAIN active.groups :
    Range(groups[u].instances) \cap Range(active.groups[v].instances) # {} =>
      groups[u].health = active.groups[v].health

\* HealthIsEarned is not inductive: a step of the supervisor or of a probe
\* keeps it only because of what is true of the registry and of the probes.
IInv ==
  /\ reconciles \in Nat
  /\ disk \in Manifests /\ building \in Manifests \cup {NoManifest}
  /\ RegistryServesActive
  /\ pc = "swap" => Follows(active.groups, groups)
  /\ WellFiled(groups)
  /\ WellFiled(active.groups)
  /\ SeenAreFirst(groups)
  /\ SeenAreFirst(active.groups)
  /\ ProbesFit(groups)
  /\ ProbesFit(active.groups)
  /\ Earned(groups)
  /\ Earned(active.groups)
  /\ NothingAhead
  /\ SharePolicy

\* The first listing of an address and weight is one of them, and no other is
\* before it.
LEMMA FirstIsAlike ==
  ASSUME NEW list, DOMAIN list \subseteq Nat, NEW x, Alike(list, x) # {}
  PROVE  \E k \in Alike(list, x) :
           First(list, x) = list[k] /\ \A j \in Alike(list, x) : k <= j
<1> DEFINE S == Alike(list, x)
<1>1. S \subseteq Nat
  BY DEF Alike
<1>2. \E k \in S : \A j \in S : ~(<<j, k>> \in OpToRel(<, Nat))
  BY <1>1, NatLessThanWellFounded, WFMin
<1>3. PICK k \in S : \A j \in S : ~(<<j, k>> \in OpToRel(<, Nat))
  BY <1>2
<1>4. \A j \in S : k <= j
  <2> SUFFICES ASSUME NEW j \in S, ~(k <= j) PROVE FALSE
    OBVIOUS
  <2>1. j \in Nat /\ k \in Nat /\ j < k
    BY <1>1
  <2>2. <<j, k>> \in OpToRel(<, Nat)
    BY <2>1 DEF OpToRel
  <2> QED
    BY <1>3, <2>2
<1>5. \E m \in S : \A j \in S : m <= j
  BY <1>4
<1> DEFINE c == CHOOSE m \in S : \A j \in S : m <= j
<1>6. c \in S /\ \A j \in S : c <= j
  BY <1>5
<1>7. First(list, x) = list[c]
  BY DEF First
<1> QED
  BY <1>6, <1>7

\* Listings that are alike have the same first.
LEMMA FirstIsShared ==
  ASSUME NEW list, NEW x, NEW y, x.address = y.address, x.weight = y.weight
  PROVE  Alike(list, x) = Alike(list, y) /\ First(list, x) = First(list, y)
<1>1. Alike(list, x) = Alike(list, y)
  BY DEF Alike
<1> QED
  BY <1>1 DEF First

LEMMA ListsAreLists ==
  ASSUME NEW m \in Manifests \cup {NoManifest}, NEW u \in DOMAIN m.upstreams
  PROVE  DOMAIN m.upstreams[u].addresses \subseteq Nat
<1>1. CASE m \in Manifests
  <2>1. PICK n \in 0..MaxListed :
          m.upstreams[u].addresses \in [1..n -> [address : Addresses, weight : Weights]]
    BY <1>1, ReloadAssumption
  <2> QED
    BY <2>1, ReloadAssumption
<1>2. CASE m = NoManifest
  <2>1. m.upstreams = <<>>
    BY <1>2 DEF NoManifest
  <2>2. DOMAIN m.upstreams = {}
    BY <2>1
  <2> QED
    BY <2>2
<1> QED
  BY <1>1, <1>2

LEMMA InitIInv == Init => IInv
<1> SUFFICES ASSUME Init PROVE IInv
  OBVIOUS
<1>1. /\ reconciles = 0 /\ pc = "recv" /\ groups = active.groups
      /\ probes = {} /\ healthy = {} /\ disk = Boot /\ building = NoManifest
  BY DEF Init
<1>2. \A u \in DOMAIN groups :
        /\ u \in DOMAIN Boot.upstreams
        /\ groups[u].instances = [n \in DOMAIN Boot.upstreams[u].addresses |->
                                    Fresh(u, Boot.upstreams[u], n, 0)]
  BY DEF Init
<1>3. WellFiled(groups)
  <2> SUFFICES ASSUME NEW u \in DOMAIN groups
               PROVE  /\ DOMAIN groups[u].instances \subseteq Nat
                      /\ \A i \in Range(groups[u].instances) :
                           i.upstream = u /\ i.born \in Nat /\ i.born <= reconciles
    BY DEF WellFiled
  <2>1. DOMAIN groups[u].instances \subseteq Nat
    BY <1>2, ListsAreLists, ReloadAssumption
  <2>2. ASSUME NEW i \in Range(groups[u].instances) PROVE i.upstream = u /\ i.born = 0
    <3>1. PICK n \in DOMAIN groups[u].instances : i = groups[u].instances[n]
      BY DEF Range
    <3>2. i = Fresh(u, Boot.upstreams[u], n, 0)
      BY <1>2, <3>1
    <3> QED
      BY <3>2 DEF Fresh
  <2> QED
    BY <1>1, <2>1, <2>2
<1>4. SharePolicy
  <2> SUFFICES ASSUME NEW u \in DOMAIN groups, NEW v \in DOMAIN groups,
                      NEW i \in Range(groups[u].instances) \cap Range(groups[v].instances)
               PROVE  groups[u].health = groups[v].health
    BY <1>1 DEF SharePolicy
  <2> QED
    BY <1>3 DEF WellFiled
<1>5. SeenAreFirst(groups)
  BY <1>1 DEF SeenAreFirst, Seen
<1> QED
  BY <1>1, <1>3, <1>4, <1>5, ReloadAssumption
     DEF IInv, RegistryServesActive, ProbesFit, Earned, NothingAhead

\* reconcile, one listing: the instance is the first that the group had of its
\* policy, address and weight, or one born now, and then the group had none.
LEMMA InstanceCases ==
  ASSUME NEW u, NEW spec, NEW n, WellFiled(groups)
  PROVE  /\ Instance(u, spec, n).address = spec.addresses[n].address
         /\ Instance(u, spec, n).weight = spec.addresses[n].weight
         /\ \/ /\ u \in DOMAIN groups
               /\ groups[u].health = spec.health
               /\ Instance(u, spec, n) \in Range(groups[u].instances)
               /\ Instance(u, spec, n) = First(groups[u].instances, spec.addresses[n])
            \/ /\ Instance(u, spec, n).upstream = u
               /\ Instance(u, spec, n).born = reconciles + 1
               /\ u \in DOMAIN groups /\ groups[u].health = spec.health =>
                    Alike(groups[u].instances, spec.addresses[n]) = {}
<1> DEFINE x == spec.addresses[n]
           old == Reusable(u, spec)
<1>1. CASE Alike(old, x) # {}
  <2>1. u \in DOMAIN groups /\ groups[u].health = spec.health /\ old = groups[u].instances
    <3>1. Alike(<<>>, x) = {}
      BY DEF Alike
    <3> QED
      BY <1>1, <3>1 DEF Reusable
  <2>2. DOMAIN old \subseteq Nat
    BY <2>1 DEF WellFiled
  <2>3. PICK k \in Alike(old, x) : First(old, x) = old[k]
    BY <1>1, <2>2, FirstIsAlike
  <2>4. Instance(u, spec, n) = First(old, x)
    BY <1>1 DEF Instance
  <2>5. k \in DOMAIN old /\ old[k].address = x.address /\ old[k].weight = x.weight
    BY DEF Alike
  <2> QED
    BY <2>1, <2>3, <2>4, <2>5 DEF Range
<1>2. CASE Alike(old, x) = {}
  <2>1. Instance(u, spec, n) = Fresh(u, spec, n, reconciles + 1)
    BY <1>2 DEF Instance
  <2> QED
    BY <1>2, <2>1 DEF Reusable, Fresh
<1> QED
  BY <1>1, <1>2

\* What the registry holds after a reconcile, instance by instance.
LEMMA ReconciledCases ==
  ASSUME NEW m, NEW u \in DOMAIN Reconciled(m),
         NEW i \in Range(Reconciled(m)[u].instances)
  PROVE  /\ u \in DOMAIN m.upstreams
         /\ Reconciled(m)[u].health = m.upstreams[u].health
         /\ \E n \in DOMAIN m.upstreams[u].addresses : i = Instance(u, m.upstreams[u], n)
  BY DEF Reconciled, Range

LEMMA ReconcileIInv == IInv /\ Reconcile => IInv'
<1> SUFFICES ASSUME IInv, Reconcile PROVE IInv'
  OBVIOUS
<1>1. CASE building.fault = "upstreams"
  <2>1. /\ pc' = "recv"
        /\ UNCHANGED <<groups, reconciles, active, probes, healthy, proved, disk>>
        /\ building' = NoManifest
    BY <1>1 DEF Reconcile, Done, proberVars, fileVars
  <2> QED
    BY <2>1 DEF Reconcile, IInv, RegistryServesActive, WellFiled, ProbesFit,
                Earned, NothingAhead, SharePolicy, SeenAreFirst, Seen
<1>2. CASE building.fault # "upstreams"
  <2> DEFINE G == Reconciled(building)
             up == building.upstreams
  <2>1. /\ groups' = G /\ reconciles' = reconciles + 1 /\ pc' = "swap"
        /\ UNCHANGED <<active, probes, healthy, proved>>
    BY <1>2 DEF Reconcile, proberVars
  <2>2. /\ reconciles \in Nat /\ reconciles' \in Nat
        /\ groups = active.groups
    BY <2>1 DEF IInv, Reconcile, RegistryServesActive
  <2>3. ASSUME NEW u \in DOMAIN G, NEW i \in Range(G[u].instances)
        PROVE  /\ i.upstream = u
               /\ i.born \in Nat
               /\ \/ /\ u \in DOMAIN groups /\ i \in Range(groups[u].instances)
                     /\ groups[u].health = G[u].health
                     /\ i.born <= reconciles
                     /\ i = First(groups[u].instances, i)
                  \/ /\ i.born = reconciles + 1
                     /\ u \in DOMAIN groups /\ groups[u].health = G[u].health =>
                          Alike(groups[u].instances, i) = {}
    <3>1. PICK n : i = Instance(u, up[u], n)
      BY ReconciledCases
    <3>2. G[u].health = up[u].health
      BY ReconciledCases
    <3> DEFINE x == up[u].addresses[n]
    <3>3. i.address = x.address /\ i.weight = x.weight
      BY <3>1, InstanceCases DEF IInv
    <3>4. \/ /\ u \in DOMAIN groups /\ i \in Range(groups[u].instances)
             /\ groups[u].health = up[u].health
             /\ i = First(groups[u].instances, x)
          \/ /\ i.upstream = u
             /\ i.born = reconciles + 1
             /\ u \in DOMAIN groups /\ groups[u].health = up[u].health =>
                  Alike(groups[u].instances, x) = {}
      BY <3>1, InstanceCases DEF IInv
    <3>5. Alike(groups[u].instances, i) = Alike(groups[u].instances, x) /\ First(groups[u].instances, i) = First(groups[u].instances, x)
      BY <3>3, FirstIsShared
    <3>6. CASE u \in DOMAIN groups /\ i \in Range(groups[u].instances) /\ groups[u].health = up[u].health
                 /\ i = First(groups[u].instances, x)
      BY <3>2, <3>5, <3>6 DEF IInv, WellFiled
    <3>7. CASE /\ i.upstream = u
               /\ i.born = reconciles + 1
               /\ u \in DOMAIN groups /\ groups[u].health = up[u].health =>
                    Alike(groups[u].instances, x) = {}
      BY <2>2, <3>2, <3>5, <3>7
    <3> QED
      BY <3>4, <3>6, <3>7
  <2>4. WellFiled(groups)'
    <3> SUFFICES ASSUME NEW u \in DOMAIN G
                 PROVE  /\ DOMAIN G[u].instances \subseteq Nat
                        /\ \A i \in Range(G[u].instances) :
                             i.upstream = u /\ i.born \in Nat /\ i.born <= reconciles'
      BY <2>1 DEF WellFiled
    <3>1. /\ u \in DOMAIN up
          /\ DOMAIN G[u].instances = DOMAIN up[u].addresses
      BY DEF Reconciled
    <3>2. DOMAIN G[u].instances \subseteq Nat
      BY <3>1, ListsAreLists DEF IInv
    <3> QED
      BY <2>1, <2>2, <2>3, <3>2
  <2>5. Follows(active.groups, G)
    <3> SUFFICES ASSUME NEW u \in DOMAIN groups \cap DOMAIN G,
                        groups[u].health = G[u].health,
                        NEW j \in Range(G[u].instances),
                        Alike(groups[u].instances, j) # {}
                 PROVE  j = First(groups[u].instances, j)
      BY <2>2 DEF Follows
    <3> QED
      BY <2>3
  <2>6. SeenAreFirst(groups)'
    <3> SUFFICES ASSUME NEW u \in DOMAIN G, NEW i \in Range(G[u].instances), i \in Seen
                 PROVE  i = First(G[u].instances, i)
      BY <2>1 DEF SeenAreFirst, Seen
    <3> DEFINE new == G[u].instances
    <3>1. i.born \in Nat /\ i.born <= reconciles
      BY DEF IInv, NothingAhead, Seen
    <3>2. /\ u \in DOMAIN groups /\ groups[u].health = G[u].health
          /\ i \in Range(groups[u].instances) /\ i = First(groups[u].instances, i)
      BY <2>2, <2>3, <3>1
    <3>3. DOMAIN new \subseteq Nat
      BY <2>1, <2>4 DEF WellFiled
    <3>4. PICK m \in DOMAIN new : new[m] = i
      BY DEF Range
    <3>5. m \in Alike(new, i)
      BY <3>4 DEF Alike
    <3>6. PICK k \in Alike(new, i) : First(new, i) = new[k]
      BY <3>3, <3>5, FirstIsAlike
    <3>7. /\ new[k] \in Range(new)
          /\ new[k].address = i.address /\ new[k].weight = i.weight
      BY DEF Alike, Range
    <3>8. /\ Alike(groups[u].instances, new[k]) = Alike(groups[u].instances, i)
          /\ First(groups[u].instances, new[k]) = First(groups[u].instances, i)
      BY <3>7, FirstIsShared
    <3>9. Alike(groups[u].instances, i) # {}
      BY <3>2 DEF Alike, Range
    <3>10. new[k] = First(groups[u].instances, new[k])
      BY <2>3, <3>2, <3>7, <3>8, <3>9
    <3> QED
      BY <3>2, <3>6, <3>8, <3>10
  <2>7. ProbesFit(groups)'
    <3> SUFFICES ASSUME NEW u \in DOMAIN G, NEW p \in probes,
                        p.instance \in Range(G[u].instances)
                 PROVE  p.policy = G[u].health
      BY <2>1 DEF ProbesFit
    <3>1. p.instance.born \in Nat /\ p.instance.born <= reconciles
      BY DEF IInv, NothingAhead
    <3>2. /\ u \in DOMAIN groups /\ p.instance \in Range(groups[u].instances)
          /\ groups[u].health = G[u].health
      BY <2>2, <2>3, <3>1
    <3> QED
      BY <3>2 DEF IInv, ProbesFit
  <2>8. Earned(groups)'
    <3> SUFFICES ASSUME NEW u \in DOMAIN G,
                        NEW i \in Range(G[u].instances) \cap healthy
                 PROVE  [instance |-> i, policy |-> G[u].health] \in proved
      BY <2>1 DEF Earned
    <3>1. i.born \in Nat /\ i.born <= reconciles
      BY DEF IInv, NothingAhead
    <3>2. /\ u \in DOMAIN groups /\ i \in Range(groups[u].instances)
          /\ groups[u].health = G[u].health
      BY <2>2, <2>3, <3>1
    <3> QED
      BY <3>2 DEF IInv, Earned
  <2>9. SharePolicy'
    <3> SUFFICES ASSUME NEW u \in DOMAIN G, NEW v \in DOMAIN groups,
                        NEW i \in Range(G[u].instances) \cap Range(groups[v].instances)
                 PROVE  G[u].health = groups[v].health
      BY <2>1, <2>2 DEF SharePolicy
    <3>1. i.upstream = v /\ i.born \in Nat /\ i.born <= reconciles
      BY DEF IInv, WellFiled
    <3> QED
      BY <2>2, <2>3, <3>1
  <2>10. NothingAhead'
    BY <2>1, <2>2 DEF IInv, NothingAhead
  <2>11. WellFiled(active.groups)'
    BY <2>1, <2>2 DEF IInv, WellFiled
  <2>12. disk' = disk /\ building' = building
    BY <1>2 DEF Reconcile, fileVars
  <2> QED
    BY <2>1, <2>2, <2>4, <2>5, <2>6, <2>7, <2>8, <2>9, <2>10, <2>11, <2>12
       DEF IInv, RegistryServesActive, ProbesFit, Earned, SeenAreFirst, Seen
<1> QED
  BY <1>1, <1>2

\* Steps that leave the groups, the probes and the health alone.
LEMMA QuietIInv ==
  ASSUME IInv, UNCHANGED <<groups, active, reconciles, probes, healthy, proved>>,
         disk' \in Manifests, building' \in {building, disk, NoManifest},
         pc' = "swap" => pc = "swap", pc = "swap" => pc' = "swap"
  PROVE  IInv'
  BY DEF IInv, RegistryServesActive, WellFiled, ProbesFit, Earned,
         NothingAhead, SharePolicy, SeenAreFirst, Seen

LEMMA SwapIInv == IInv /\ Swap => IInv'
<1> SUFFICES ASSUME IInv, Swap PROVE IInv'
  OBVIOUS
<1>1. /\ active'.groups = groups /\ pc' = "recv"
      /\ UNCHANGED <<groups, reconciles, probes, healthy, proved, disk>>
      /\ building' = NoManifest
  BY DEF Swap, Done, proberVars, fileVars
<1>2. SharePolicy'
  <2> SUFFICES ASSUME NEW u \in DOMAIN groups, NEW v \in DOMAIN groups,
                      NEW i \in Range(groups[u].instances) \cap Range(groups[v].instances)
               PROVE  groups[u].health = groups[v].health
    BY <1>1 DEF SharePolicy
  <2> QED
    BY DEF IInv, WellFiled
<1> QED
  BY <1>1, <1>2
     DEF IInv, RegistryServesActive, WellFiled, ProbesFit, Earned, NothingAhead,
         SeenAreFirst, Seen

\* The supervisor probes registered instances under their group's policy.
LEMMA ProberPassIInv == IInv /\ ProberPass => IInv'
<1> SUFFICES ASSUME IInv, ProberPass PROVE IInv'
  OBVIOUS
<1>1. UNCHANGED <<groups, active, reconciles, pc, healthy, proved, disk, building>>
  BY DEF ProberPass, reloadVars, fileVars
<1>2. ASSUME NEW p \in probes', p \notin probes
      PROVE  \E u \in DOMAIN groups : \E n \in DOMAIN groups[u].instances :
               /\ p = [instance |-> groups[u].instances[n], policy |-> groups[u].health]
               /\ groups[u].instances[n] \in Range(groups[u].instances)
               /\ IsFirst(groups[u].instances, n)
  BY <1>2 DEF ProberPass, Range
<1>3. NothingAhead'
  <2> SUFFICES ASSUME NEW p \in probes'
               PROVE  /\ p = [instance |-> p.instance, policy |-> p.policy]
                      /\ p.instance.born \in Nat
                      /\ p.instance.born <= reconciles
    BY <1>1 DEF IInv, NothingAhead
  <2>1. CASE p \in probes
    BY <2>1 DEF IInv, NothingAhead
  <2>2. CASE p \notin probes
    BY <1>2, <2>2 DEF IInv, WellFiled
  <2> QED
    BY <2>1, <2>2
<1>4. ProbesFit(groups)'
  <2> SUFFICES ASSUME NEW v \in DOMAIN groups, NEW p \in probes',
                      p.instance \in Range(groups[v].instances)
               PROVE  p.policy = groups[v].health
    BY <1>1 DEF ProbesFit
  <2>1. CASE p \in probes
    BY <2>1 DEF IInv, ProbesFit
  <2>2. CASE p \notin probes
    BY <1>2, <2>2 DEF IInv, WellFiled
  <2> QED
    BY <2>1, <2>2
<1>5. ProbesFit(active.groups)'
  <2> SUFFICES ASSUME NEW v \in DOMAIN active.groups, NEW p \in probes',
                      p.instance \in Range(active.groups[v].instances)
               PROVE  p.policy = active.groups[v].health
    BY <1>1 DEF ProbesFit
  <2>1. CASE p \in probes
    BY <2>1 DEF IInv, ProbesFit
  <2>2. CASE p \notin probes
    BY <1>2, <2>2 DEF IInv, SharePolicy
  <2> QED
    BY <2>1, <2>2
<1>6. ASSUME NEW p \in probes', p \notin probes, NEW v \in DOMAIN groups,
             p.instance \in Range(groups[v].instances)
      PROVE  p.instance = First(groups[v].instances, p.instance)
  <2>1. PICK u \in DOMAIN groups : \E n \in DOMAIN groups[u].instances :
          /\ p = [instance |-> groups[u].instances[n], policy |-> groups[u].health]
          /\ groups[u].instances[n] \in Range(groups[u].instances)
          /\ IsFirst(groups[u].instances, n)
    BY <1>2, <1>6
  <2>0. PICK n \in DOMAIN groups[u].instances :
          /\ p = [instance |-> groups[u].instances[n], policy |-> groups[u].health]
          /\ groups[u].instances[n] \in Range(groups[u].instances)
          /\ IsFirst(groups[u].instances, n)
    BY <2>1
  <2> DEFINE list == groups[v].instances
             i == list[n]
  <2>2. u = v /\ p.instance = i
    BY <1>6, <2>0 DEF IInv, WellFiled
  <2>3. DOMAIN list \subseteq Nat
    BY DEF IInv, WellFiled
  <2>4. n \in Alike(list, i)
    BY <2>0, <2>2 DEF Alike
  <2>5. PICK k \in Alike(list, i) :
          First(list, i) = list[k] /\ \A j \in Alike(list, i) : k <= j
    BY <2>3, <2>4, FirstIsAlike
  <2>6. k <= n /\ k \in Nat /\ n \in Nat
    BY <2>3, <2>4, <2>5 DEF Alike
  <2>7. n <= k
    BY <2>0, <2>2 DEF IsFirst, Alike
  <2>8. k = n
    BY <2>6, <2>7
  <2> QED
    BY <2>2, <2>5, <2>8
<1>7. SeenAreFirst(groups)'
  <2> SUFFICES ASSUME NEW v \in DOMAIN groups, NEW i \in Range(groups[v].instances), i \in Seen'
               PROVE  i = First(groups[v].instances, i)
    BY <1>1 DEF SeenAreFirst
  <2>1. CASE i \in Seen
    BY <2>1 DEF IInv, SeenAreFirst
  <2>2. CASE i \notin Seen
    <3>1. PICK p \in probes' : p \notin probes /\ p.instance = i
      BY <1>1, <2>2 DEF Seen
    <3> QED
      BY <1>6, <3>1
  <2> QED
    BY <2>1, <2>2
<1>8. SeenAreFirst(active.groups)'
  <2> SUFFICES ASSUME NEW v \in DOMAIN active.groups,
                      NEW i \in Range(active.groups[v].instances), i \in Seen'
               PROVE  i = First(active.groups[v].instances, i)
    BY <1>1 DEF SeenAreFirst
  <2>1. CASE i \in Seen
    BY <2>1 DEF IInv, SeenAreFirst
  <2>2. CASE i \notin Seen /\ pc = "swap"
    <3>1. PICK p \in probes' : p \notin probes /\ p.instance = i
      BY <1>1, <2>2 DEF Seen
    <3>2. PICK u \in DOMAIN groups : i \in Range(groups[u].instances)
      BY <1>2, <3>1
    <3>3. u = v
      BY <3>2 DEF IInv, WellFiled
    <3>4. groups[v].health = active.groups[v].health
      BY <3>2, <3>3 DEF IInv, SharePolicy
    <3>5. Alike(active.groups[v].instances, i) # {}
      BY DEF Alike, Range
    <3> QED
      BY <2>2, <3>2, <3>3, <3>4, <3>5 DEF IInv, Follows
  <2>3. CASE i \notin Seen /\ pc # "swap"
    <3>1. PICK p \in probes' : p \notin probes /\ p.instance = i
      BY <1>1, <2>3 DEF Seen
    <3>2. groups = active.groups
      BY <2>3 DEF IInv, RegistryServesActive
    <3> QED
      BY <1>6, <3>1, <3>2
  <2> QED
    BY <2>1, <2>2, <2>3
<1>9. Earned(groups)' /\ Earned(active.groups)'
  BY <1>1 DEF IInv, Earned
<1>10. /\ SharePolicy' /\ WellFiled(groups)' /\ WellFiled(active.groups)'
       /\ RegistryServesActive'
  BY <1>1 DEF IInv, RegistryServesActive, WellFiled, SharePolicy
<1> QED
  BY <1>1, <1>3, <1>4, <1>5, <1>7, <1>8, <1>9, <1>10 DEF IInv

\* The instance a successful probe promotes was probed under its own policy.
LEMMA ProbeSucceedsIInv ==
  ASSUME NEW p PROVE IInv /\ ProbeSucceeds(p) => IInv'
<1> SUFFICES ASSUME IInv, ProbeSucceeds(p) PROVE IInv'
  OBVIOUS
<1>1. /\ UNCHANGED <<groups, active, reconciles, pc, disk, building>>
      /\ probes' \subseteq probes
      /\ p \in probes
      /\ healthy' \subseteq healthy \cup {p.instance}
      /\ proved' = proved \cup {p}
  BY DEF ProbeSucceeds, reloadVars, fileVars
<1>2. p = [instance |-> p.instance, policy |-> p.policy]
  BY <1>1 DEF IInv, NothingAhead
<1>3. Earned(groups)' /\ Earned(active.groups)'
  BY <1>1, <1>2 DEF IInv, Earned, ProbesFit
<1>4. NothingAhead'
  BY <1>1 DEF IInv, NothingAhead
<1>5. Seen' \subseteq Seen
  BY <1>1 DEF Seen
<1>6. SeenAreFirst(groups)' /\ SeenAreFirst(active.groups)'
  BY <1>1, <1>5 DEF IInv, SeenAreFirst
<1>7. ProbesFit(groups)' /\ ProbesFit(active.groups)'
  <2>1. ProbesFit(groups) /\ ProbesFit(active.groups)
    BY DEF IInv
  <2> QED
    BY <1>1, <2>1 DEF ProbesFit
<1>8. SharePolicy' /\ RegistryServesActive'
  <2>1. SharePolicy /\ RegistryServesActive
    BY DEF IInv
  <2> QED
    BY <1>1, <2>1 DEF RegistryServesActive, SharePolicy
<1>9. WellFiled(groups)' /\ WellFiled(active.groups)'
  <2>1. WellFiled(groups) /\ WellFiled(active.groups)
    BY DEF IInv
  <2> QED
    BY <1>1, <2>1 DEF WellFiled
<1> QED
  BY <1>1, <1>3, <1>4, <1>6, <1>7, <1>8, <1>9 DEF IInv

\* A failure can only take an instance out.
LEMMA DemoteIInv ==
  ASSUME IInv, UNCHANGED <<groups, active, reconciles, pc, proved, disk, building>>,
         probes' \subseteq probes, healthy' \subseteq healthy
  PROVE  IInv'
<1>1. SeenAreFirst(groups)' /\ SeenAreFirst(active.groups)'
  BY DEF IInv, SeenAreFirst, Seen
<1>2. /\ ProbesFit(groups)' /\ ProbesFit(active.groups)' /\ NothingAhead'
      /\ Earned(groups)' /\ Earned(active.groups)'
  BY DEF IInv, ProbesFit, Earned, NothingAhead
<1>3. /\ SharePolicy' /\ WellFiled(groups)' /\ WellFiled(active.groups)'
      /\ RegistryServesActive'
  BY DEF IInv, RegistryServesActive, WellFiled, SharePolicy
<1> QED
  BY <1>1, <1>2, <1>3 DEF IInv

LEMMA NextIInv == IInv /\ [Next]_vars => IInv'
<1> SUFFICES ASSUME IInv, [Next]_vars PROVE IInv'
  OBVIOUS
<1> USE DEF fileVars
<1>0. disk \in Manifests
  BY DEF IInv
<1>1. CASE \E m \in Manifests : Edit(m)
  BY <1>1, QuietIInv DEF Edit, reloadVars, proberVars
<1>2. CASE Hangup
  BY <1>0, <1>2, QuietIInv DEF Hangup, reloadVars, proberVars
<1>3. CASE Recv
  BY <1>0, <1>3, QuietIInv DEF Recv, proberVars
<1>4. CASE ReadManifest
  BY <1>0, <1>4, QuietIInv DEF ReadManifest, Done, proberVars
<1>5. CASE Build
  BY <1>0, <1>5, QuietIInv DEF Build, Done, proberVars
<1>6. CASE Reconcile
  BY <1>6, ReconcileIInv
<1>7. CASE Swap
  BY <1>7, SwapIInv
<1>8. CASE ProberPass
  BY <1>8, ProberPassIInv
<1>9. CASE \E k \in waiting : IntervalElapses(k)
  BY <1>0, <1>9, QuietIInv DEF IntervalElapses, reloadVars
<1>10. ASSUME NEW p \in probes, ProbeSucceeds(p) PROVE IInv'
  BY <1>10, ProbeSucceedsIInv
<1>11. ASSUME NEW p \in probes, ProbeFails(p) PROVE IInv'
  <2>1. /\ UNCHANGED <<groups, active, reconciles, pc, proved, disk, building>>
        /\ probes' \subseteq probes /\ healthy' \subseteq healthy
    BY <1>11 DEF ProbeFails, reloadVars, fileVars
  <2> QED
    BY <2>1, DemoteIInv
<1>12. ASSUME NEW i \in healthy, PassiveFailure(i) PROVE IInv'
  <2>1. /\ UNCHANGED <<groups, active, reconciles, pc, proved, disk, building>>
        /\ probes' \subseteq probes /\ healthy' \subseteq healthy
    BY <1>12 DEF PassiveFailure, reloadVars, fileVars
  <2> QED
    BY <2>1, DemoteIInv
<1>13. CASE UNCHANGED vars
  BY <1>0, <1>13, QuietIInv DEF vars, reloadVars, proberVars
<1> QED
  BY <1>1, <1>2, <1>3, <1>4, <1>5, <1>6, <1>7, <1>8, <1>9, <1>10, <1>11,
     <1>12, <1>13 DEF Next, ReloadThread, ProbeEnds

\* A swap puts in the groups it found in the registry.
LEMMA StepKeepsUnchanged ==
  IInv /\ [Next]_vars => [KeepsUnchanged(active.groups, active'.groups)]_active
<1> SUFFICES ASSUME IInv, [Next]_vars, active' # active
             PROVE  KeepsUnchanged(active.groups, active'.groups)
  OBVIOUS
<1>1. Swap
  BY DEF Next, ReloadThread, ProbeEnds, vars, Edit, Hangup, Recv, ReadManifest,
         Build, Reconcile, ProberPass, IntervalElapses, ProbeSucceeds,
         ProbeFails, PassiveFailure, reloadVars
<1>2. active'.groups = groups /\ Follows(active.groups, groups)
  BY <1>1 DEF Swap, IInv
<1> SUFFICES ASSUME NEW u \in DOMAIN active.groups \cap DOMAIN groups,
                    active.groups[u].health = groups[u].health,
                    NEW j \in Range(groups[u].instances),
                    NEW k \in Alike(active.groups[u].instances, j)
             PROVE  LET old == active.groups[u].instances
                        was == {old[m] : m \in Alike(old, j)}
                    IN  j \in was /\ was \cap healthy \subseteq {j}
  BY <1>2 DEF KeepsUnchanged
<1> DEFINE old == active.groups[u].instances
           was == {old[m] : m \in Alike(old, j)}
<1>3. j = First(old, j)
  BY <1>2 DEF Follows
<1>4. DOMAIN old \subseteq Nat
  BY DEF IInv, WellFiled
<1>5. j \in was
  BY <1>3, <1>4, FirstIsAlike
<1>6. ASSUME NEW m \in Alike(old, j), old[m] \in healthy PROVE old[m] = j
  <2>1. old[m] \in Range(old) /\ old[m].address = j.address /\ old[m].weight = j.weight
    BY DEF Alike, Range
  <2>2. old[m] = First(old, old[m])
    BY <1>6, <2>1 DEF IInv, SeenAreFirst, Seen
  <2> QED
    BY <1>3, <2>1, <2>2, FirstIsShared
<1> QED
  BY <1>5, <1>6

LEMMA IInvHolds == Spec => []IInv
  BY InitIInv, NextIInv, PTL DEF Spec

\* Except between reconcile and the swap, routes and registry hold the same
\* groups; a rejected reload disturbs neither (build_active).
THEOREM RoutesMeetRegistry == Spec => []RegistryServesActive
<1>1. IInv => RegistryServesActive
  BY DEF IInv
<1> QED
  BY <1>1, IInvHolds, PTL

\* No instance gets traffic before a probe of its own under the policy of its
\* group has succeeded (reconcile, probe_once).
THEOREM TrafficIsEarned == Spec => []HealthIsEarned
<1>1. IInv => HealthIsEarned
  BY DEF IInv, Earned, HealthIsEarned
<1> QED
  BY <1>1, IInvHolds, PTL

\* A reload keeps the instances it does not change, with their health
\* (reconcile, reload_from_disk).
THEOREM ReloadKeepsHealth == Spec => HealthSurvivesReload
  BY IInvHolds, StepKeepsUnchanged, PTL DEF Spec, HealthSurvivesReload
=============================================================================

---------------------------- MODULE ConfigReload ----------------------------
(***************************************************************************)
(* Hot reload.  The SIGHUP loop serve_reloads (crates/control/src/         *)
(* reload.rs), reload_from_disk (control_reload.rs), build_active          *)
(* (lib.rs) and UpstreamRegistry::reconcile (upstream/registry.rs) run on  *)
(* one thread; the health supervisor (crates/server/src/health.rs) and the *)
(* probes it spawns run beside it and read the registry, not the active    *)
(* configuration.                                                          *)
(*                                                                         *)
(* An instance stands for one Arc<UpstreamInstance>: two reconciles that   *)
(* build the same address make two instances, told apart by `born`, and so *)
(* do two listings of it in one upstream, which nothing refuses, told      *)
(* apart by `listed`.  The counters behind an instance's health bit are    *)
(* module InstanceHealth; here a probe after the first success, or a       *)
(* failure, may or may not flip it.  What a manifest holds besides its     *)
(* upstreams (filters, chain, routes, TLS) matters only through whether it *)
(* builds.                                                                 *)
(***************************************************************************)
EXTENDS Naturals, Functions

CONSTANTS
  Upstreams, Addresses, Weights, Policies,
  MaxListed,    \* how many addresses an upstream lists at most
  Manifests,    \* contents the manifest file may have
  Boot,         \* the manifest the process started with
  MaxEdits      \* bound of the model: edits of the file

\* An upstream's section gives its health policy and lists its addresses, each
\* with a weight.  `rest` stands for all else, `fault` is where a manifest is turned
\* away, or "none".
NoManifest == [fault |-> "none", rest |-> "", upstreams |-> <<>>]
Faults == {"none", "parse", "trust", "build", "upstreams"}

ASSUME ReloadAssumption ==
  /\ Boot \in Manifests /\ Boot.fault = "none"
  /\ MaxEdits \in Nat /\ MaxListed \in Nat
  /\ \A m \in Manifests :
       /\ m.fault \in Faults
       /\ DOMAIN m.upstreams \subseteq Upstreams
       /\ \A u \in DOMAIN m.upstreams :
            /\ m.upstreams[u].health \in Policies
            /\ \E n \in 0..MaxListed :
                 m.upstreams[u].addresses
                   \in [1..n -> [address : Addresses, weight : Weights]]

VARIABLES
  disk,         \* the manifest file
  pending,      \* a SIGHUP is waiting to be received
  pc,           \* where the reload thread is
  building,     \* the manifest it is building
  active,       \* ActiveConfig: the manifest and the groups its routes hold
  groups,       \* the registry's map
  reconciles,   \* reconciles that went through, the source of `born`
  waiting,      \* keys in the supervisor's `last` whose interval has not passed
  probes,       \* probe_once tasks in flight
  healthy,      \* instances in rotation
  proved,       \* history: probes that succeeded
  edits         \* history: edits of the file

reloadVars == <<pc, building, active, groups, reconciles>>
proberVars == <<waiting, probes, healthy, proved>>
fileVars == <<disk, edits>>
vars == <<reloadVars, proberVars, fileVars, pending>>

Instances ==
  [upstream : Upstreams, address : Addresses, weight : Weights,
   born : 0..MaxEdits, listed : 1..MaxListed]
Groups == [health : Policies, instances : UNION {[1..n -> Instances] : n \in 0..MaxListed}]

\* An instance's key in the supervisor's bookkeeping has neither its weight nor
\* its identity.
Key(i) == <<i.upstream, i.address>>

Registered == UNION {Range(groups[u].instances) : u \in DOMAIN groups}

----------------------------------------------------------------------------
\* The registry.

ReusableAnyPolicyMut(u, spec) ==
  IF u \in DOMAIN groups THEN groups[u].instances ELSE <<>>

\* Instances of the group now registered under the name are candidates for
\* reuse only if the health policy is the same.
Reusable(u, spec) ==
  IF u \in DOMAIN groups /\ groups[u].health = spec.health
  THEN groups[u].instances ELSE <<>>

Fresh(u, spec, n, born) ==
  [upstream |-> u, address |-> spec.addresses[n].address,
   weight |-> spec.addresses[n].weight, born |-> born, listed |-> n]

\* Where a list has the address and weight of x.
Alike(list, x) == {k \in DOMAIN list : list[k].address = x.address /\ list[k].weight = x.weight}

LastMut(list, x) ==
  list[CHOOSE k \in Alike(list, x) : \A j \in Alike(list, x) : j <= k]

First(list, x) ==
  list[CHOOSE k \in Alike(list, x) : \A j \in Alike(list, x) : k <= j]

\* The instance of the nth listing: the first old one of its address and weight,
\* else a new one.
Instance(u, spec, n) ==
  LET old == Reusable(u, spec)
      x   == spec.addresses[n]
  IN  IF Alike(old, x) # {} THEN First(old, x)
      ELSE Fresh(u, spec, n, reconciles + 1)

Reconciled(m) ==
  [u \in DOMAIN m.upstreams |->
     LET spec == m.upstreams[u] IN
     [health    |-> spec.health,
      instances |-> [n \in DOMAIN spec.addresses |-> Instance(u, spec, n)]]]

----------------------------------------------------------------------------
\* The operator and the reload thread.

Init ==
  LET first == [u \in DOMAIN Boot.upstreams |->
                  [health    |-> Boot.upstreams[u].health,
                   instances |-> [n \in DOMAIN Boot.upstreams[u].addresses |->
                                   Fresh(u, Boot.upstreams[u], n, 0)]]]
  IN  /\ disk = Boot
      /\ pending = FALSE
      /\ pc = "recv"
      /\ building = NoManifest
      /\ active = [manifest |-> Boot, groups |-> first]
      /\ groups = first
      /\ reconciles = 0
      /\ waiting = {}
      /\ probes = {}
      /\ healthy = {}
      /\ proved = {}
      /\ edits = 0

Edit(m) ==
  /\ edits < MaxEdits
  /\ m # disk
  /\ disk' = m
  /\ edits' = edits + 1
  /\ UNCHANGED <<pending, reloadVars, proberVars>>

\* A SIGHUP that finds another one waiting is the same SIGHUP.
Hangup ==
  /\ pending' = TRUE
  /\ UNCHANGED <<reloadVars, proberVars, fileVars>>

Recv ==
  /\ pc = "recv"
  /\ pending
  /\ pending' = FALSE
  /\ pc' = "read"
  /\ UNCHANGED <<building, active, groups, reconciles, proberVars,
                 fileVars>>

DoneDropsTriggerMut ==
  /\ pc' = "recv"
  /\ building' = NoManifest
  /\ pending' = FALSE

\* reload_from_disk has returned, the outcome is logged and the loop goes back
\* to recv.
Done ==
  /\ pc' = "recv"
  /\ building' = NoManifest
  /\ UNCHANGED pending

\* The trigger carries nothing: the file is read now.  A manifest that does not
\* parse or touches [trust] is refused; one with the content hash of the active
\* configuration is left alone.
ReadManifest ==
  /\ pc = "read"
  /\ IF disk.fault \in {"parse", "trust"} \/ disk = active.manifest
     THEN Done
     ELSE /\ building' = disk
          /\ pc' = "build"
          /\ UNCHANGED pending
  /\ UNCHANGED <<active, groups, reconciles, proberVars, fileVars>>

\* Filters, chain, routes, TLS and the hash: everything that can fail and
\* leaves no trace, in front of the registry.
Build ==
  /\ pc = "build"
  /\ IF building.fault = "build" THEN Done
     ELSE pc' = "reconcile" /\ UNCHANGED <<building, pending>>
  /\ UNCHANGED <<active, groups, reconciles, proberVars, fileVars>>

ReconcileHalfwayMut ==
  /\ pc = "reconcile"
  /\ groups' = Reconciled(building)
  /\ reconciles' = reconciles + 1
  /\ IF building.fault = "upstreams" THEN Done
     ELSE pc' = "swap" /\ UNCHANGED <<building, pending>>
  /\ UNCHANGED <<active, proberVars, fileVars>>

\* The upstreams are all validated before the first group is built; then the
\* map is replaced under its lock.
Reconcile ==
  /\ pc = "reconcile"
  /\ IF building.fault = "upstreams"
     THEN Done /\ UNCHANGED <<groups, reconciles>>
     ELSE /\ groups' = Reconciled(building)
          /\ reconciles' = reconciles + 1
          /\ pc' = "swap"
          /\ UNCHANGED <<building, pending>>
  /\ UNCHANGED <<active, proberVars, fileVars>>

\* The routes resolve their groups in the registry and the new configuration
\* is stored.
Swap ==
  /\ pc = "swap"
  /\ active' = [manifest |-> building, groups |-> groups]
  /\ Done
  /\ UNCHANGED <<groups, reconciles, proberVars, fileVars>>

----------------------------------------------------------------------------
\* The supervisor, its probes, and the requests' passive failures.

\* Of the listings of one address in an upstream, the first.
IsFirst(list, n) == \A k \in DOMAIN list : list[k].address = list[n].address => n <= k

\* One turn of the loop: probe what is due, forget keys that are gone.  A probe
\* is entered under its key at once, so that of several listings of an address
\* the first alone is due.  No key of a registered instance is due afterwards.
ProberPass ==
  /\ probes' = probes \cup
       UNION {{[instance |-> groups[u].instances[n], policy |-> groups[u].health] :
                 n \in {k \in DOMAIN groups[u].instances :
                          /\ Key(groups[u].instances[k]) \notin waiting
                          /\ IsFirst(groups[u].instances, k)}} :
              u \in DOMAIN groups}
  /\ waiting' = {Key(i) : i \in Registered}
  /\ UNCHANGED <<healthy, proved, reloadVars, fileVars, pending>>

IntervalElapsesNeverMut(k) ==
  /\ k \in waiting
  /\ k \notin {Key(i) : i \in Registered}
  /\ waiting' = waiting \ {k}
  /\ UNCHANGED <<probes, healthy, proved, reloadVars, fileVars, pending>>

\* The interval since the key's last probe has passed.
IntervalElapses(k) ==
  /\ k \in waiting
  /\ waiting' = waiting \ {k}
  /\ UNCHANGED <<probes, healthy, proved, reloadVars, fileVars, pending>>

\* The first success an instance ever has promotes it; a later one does so if
\* it completes healthy_threshold.
ProbeSucceeds(p) ==
  /\ p \in probes
  /\ probes' = probes \ {p}
  /\ proved' = proved \cup {p}
  /\ \/ healthy' = healthy \cup {p.instance}
     \/ /\ \E q \in proved : q.instance = p.instance
        /\ UNCHANGED healthy
  /\ UNCHANGED <<waiting, reloadVars, fileVars, pending>>

ProbeFails(p) ==
  /\ p \in probes
  /\ probes' = probes \ {p}
  /\ healthy' \in {healthy, healthy \ {p.instance}}
  /\ UNCHANGED <<waiting, proved, reloadVars, fileVars, pending>>

\* A request that could not connect.  It may be pinned to a configuration long
\* replaced.
PassiveFailure(i) ==
  /\ i \in healthy
  /\ healthy' = healthy \ {i}
  /\ UNCHANGED <<waiting, probes, proved, reloadVars, fileVars, pending>>

ReloadThread == Recv \/ ReadManifest \/ Build \/ Reconcile \/ Swap

ProbeEnds == \E p \in probes : ProbeSucceeds(p) \/ ProbeFails(p)

Next ==
  \/ \E m \in Manifests : Edit(m)
  \/ Hangup
  \/ ReloadThread
  \/ ProberPass
  \/ \E k \in waiting : IntervalElapses(k)
  \/ ProbeEnds
  \/ \E i \in healthy : PassiveFailure(i)

Spec == Init /\ [][Next]_vars

\* The reload thread runs, the supervisor's sleep ends, and time passes.
FairSpec ==
  /\ Spec
  /\ WF_vars(ReloadThread)
  /\ WF_vars(ProberPass)
  /\ \A k \in Upstreams \X Addresses : WF_vars(IntervalElapses(k))

----------------------------------------------------------------------------
TypeOK ==
  /\ disk \in Manifests
  /\ pending \in BOOLEAN
  /\ pc \in {"recv", "read", "build", "reconcile", "swap"}
  /\ building \in Manifests \cup {NoManifest}
  /\ active.manifest \in Manifests
  /\ DOMAIN groups \subseteq Upstreams
  /\ groups \in [DOMAIN groups -> Groups]
  /\ DOMAIN active.groups \subseteq Upstreams
  /\ active.groups \in [DOMAIN active.groups -> Groups]
  /\ reconciles \in 0..MaxEdits
  /\ waiting \subseteq Upstreams \X Addresses
  /\ probes \subseteq [instance : Instances, policy : Policies]
  /\ healthy \subseteq Instances
  /\ proved \subseteq [instance : Instances, policy : Policies]
  /\ edits \in 0..MaxEdits

\* Except between reconcile and the swap, the groups the routes hold are the
\* ones the registry has, so the instances that get traffic are the ones the
\* supervisor probes; in particular a rejected reload changed neither
\* (build_active: "a rejected reload never leaves the registry reconciled to a
\* manifest whose active was not swapped in").
RegistryServesActive == pc # "swap" => groups = active.groups

\* An instance gets traffic only after a probe of that very instance, made
\* under the health policy its group has now, succeeded: neither a late probe
\* of a replaced instance nor a change of policy lets one in.
HealthIsEarned ==
  \A u \in DOMAIN active.groups :
    \A i \in Range(active.groups[u].instances) \cap healthy :
      [instance |-> i, policy |-> active.groups[u].health] \in proved

\* A swap gives every listing that its upstream had, with its policy, address
\* and weight, an instance it had for them, and the one in rotation if there was
\* one: the health there is survives, of an address listed twice too.
KeepsUnchanged(old, new) ==
  \A u \in DOMAIN old \cap DOMAIN new :
    old[u].health = new[u].health =>
      \A j \in Range(new[u].instances) :
        LET was == {old[u].instances[k] : k \in Alike(old[u].instances, j)}
        IN  was # {} => j \in was /\ was \cap healthy \subseteq {j}

HealthSurvivesReload == [][KeepsUnchanged(active.groups, active'.groups)]_active

\* The instance that is i's upstream's first for i's address is i.
Foremost(i) ==
  /\ i.upstream \in DOMAIN groups
  /\ LET list == groups[i.upstream].instances
     IN  \E n \in DOMAIN list : list[n] = i /\ IsFirst(list, n)

Probing(i) == \E p \in probes : p.instance = i

\* The instance that an upstream lists first for an address is probed, or
\* replaced, or overtaken: the key that its predecessor, or another listing of
\* its address, has in `last` delays it by no more than an interval. A later
\* listing of the same address is not probed (run_health_loop keys `last` by
\* upstream and address), so nothing is said of it.
EveryAddressProbed == \A i \in Instances : Foremost(i) ~> (~Foremost(i) \/ Probing(i))

\* A SIGHUP sent after an edit is not lost, even when it comes while another
\* reload is running: a manifest that builds becomes the active configuration
\* unless the file changes again.
EditTakesEffect ==
  \A m \in {n \in Manifests : n.fault = "none"} :
    (pending /\ disk = m) ~> (disk # m \/ active.manifest = m)
=============================================================================

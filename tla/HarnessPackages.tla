---------------------------- MODULE HarnessPackages ----------------------------
(***************************************************************************)
(* Plugins: the runtime of backend/app/services/harness_plugins.py, which  *)
(* activates a plugin once the services it requires are offered, and the   *)
(* package manager of harness_packages.py, which unmounts every external   *)
(* plugin and mounts again what the active profile names.                  *)
(*                                                                         *)
(* A refresh runs without suspension in its handler.  An id is a number,   *)
(* the order of ids as strings.  A version is a number, a constraint the   *)
(* least version that satisfies it.                                        *)
(***************************************************************************)
EXTENDS Integers, Sequences, SequencesExt, FiniteSets

CONSTANTS
    Builtins,          \* manifests of BUILTIN_PLUGIN_MANIFESTS
    ExternalManifests, \* manifests of packages that parse
    Profiles,          \* names of profiles besides the two built-in ones
    Absent,            \* no package of this id
    GrantedToTrusted,  \* HARNESS_TRUSTED_PLUGIN_PERMISSIONS
    MaxPackageSteps    \* bound: requests, edits of the directory and restarts

ASSUME ManifestsAssumption ==
    \A m \in Builtins \cup ExternalManifests :
        /\ m.id \in Nat /\ m.priority \in Int /\ m.version \in Nat
        /\ \A r \in m.requires : r.least \in Nat
ASSUME PackageIdsAssumption ==
    /\ \A m \in Builtins, n \in ExternalManifests : m.id # n.id
    /\ \A m, n \in Builtins : m.id = n.id => m = n
    /\ \A m \in Builtins : ~m.external
    /\ \A m \in ExternalManifests : m.external
    /\ Absent \notin ExternalManifests
    /\ IsFiniteSet(Builtins) /\ IsFiniteSet({m.id : m \in ExternalManifests})
    /\ MaxPackageSteps \in Nat

VARIABLES
    runtime,       \* CISRE_HARNESS_RUNTIME: plugins by id, bindings, listeners
    packageFiles,  \* packages/<id>.yaml
    profileFiles,  \* profiles/<name>.yaml
    activeProfile,
    packageSteps

packageVars == <<runtime, packageFiles, profileFiles, activeProfile, packageSteps>>

PackageIds == {m.id : m \in ExternalManifests}
ProfileNames == {"production", "development"} \cup Profiles

-----------------------------------------------------------------------------
(* The runtime.                                                             *)

\* The elements of a set by a linear order.
InOrder(set, before(_, _)) ==
    [n \in 1 .. Cardinality(set) |->
        CHOOSE x \in set : Cardinality({y \in set : before(y, x)}) = n - 1]
Ascending(set) == InOrder(set, <)

Needed(m) == {r.service : r \in m.requires}
Offers(r, service, scope) ==
    \E b \in r.bindings : b.service = service /\ b.scope \in {scope, "global"}
Missing(r, m) == {s \in Needed(m) : ~Offers(r, s, m.scope)}

\* The listeners a setup registers: those of external plugins on tools/ events
\* are passed over, because no external plugin is granted ops:execute.
Heard(m) == IF m.external THEN {e \in m.events : ~e.tools} ELSE m.events
Clashes(r, m) ==
    \E e \in Heard(m) : \E l \in {k.on : k \in r.listeners} \cup Heard(m) :
        l.event = e.event /\ l.mode # e.mode

Dispose(r, ids) ==
    [r EXCEPT !.bindings = {b \in @ : b.plugin \notin ids},
              !.listeners = {l \in @ : l.plugin \notin ids}]

\* setup: every service and listener, or none of them and "failed".
SetUp(r, m) ==
    IF Clashes(r, m) THEN [Dispose(r, {m.id}) EXCEPT !.plugins[m.id].status = "failed"]
    ELSE [r EXCEPT
            !.plugins[m.id].status = "active",
            !.bindings = @ \cup {[plugin |-> m.id, service |-> s, scope |-> m.scope] :
                                     s \in m.provides},
            !.listeners = @ \cup {[plugin |-> m.id, on |-> e] : e \in Heard(m)}]

Try(r, id) ==
    LET m == r.plugins[id].manifest IN
    IF r.plugins[id].status = "active" THEN r
    ELSE IF Missing(r, m) # {} THEN [r EXCEPT !.plugins[id].status = "pending"]
    ELSE SetUp(r, m)

\* By priority and id, the highest first.
Higher(m, n) == m.priority > n.priority \/ (m.priority = n.priority /\ m.id > n.id)
Order(r) ==
    InOrder(DOMAIN r.plugins, LAMBDA i, j : Higher(r.plugins[i].manifest, r.plugins[j].manifest))
Pass(r) == FoldLeft(Try, r, Order(r))

\* _reconcile: passes until one activates nothing; a further pass changes
\* nothing, and each one before activates a plugin.
Reconciled(r) ==
    FoldLeft(LAMBDA q, n : Pass(q), r, [n \in 1 .. Cardinality(DOMAIN r.plugins) + 1 |-> n])

With(r, m) ==
    [r EXCEPT !.plugins =
        [id \in DOMAIN @ \cup {m.id} |->
            IF id = m.id THEN [manifest |-> m, status |-> "pending"] ELSE @[id]]]
Mount(r, m) == IF m.id \in DOMAIN r.plugins THEN r ELSE Reconciled(With(r, m))

\* The plugin leaves, and the dependents disposed with it wait again.
Without(r, id, dependents) ==
    [Dispose(r, dependents \cup {id}) EXCEPT !.plugins =
        [i \in DOMAIN @ \ {id} |->
            IF i \in dependents THEN [@[i] EXCEPT !.status = "pending"] ELSE @[i]]]

\* Mutant: its dependents keep running.
UnmountAlone(r, id) == Reconciled(Without(r, id, {}))

\* Active plugins that require one of its services are disposed as well, and
\* come back in the same reconciliation when another plugin offers it.
Dependents(r, id) ==
    {i \in DOMAIN r.plugins \ {id} :
        /\ r.plugins[i].status = "active"
        /\ Needed(r.plugins[i].manifest) \cap r.plugins[id].manifest.provides # {}}
Unmount(r, id) == Reconciled(Without(r, id, Dependents(r, id)))

NoPlugins == [plugins |-> [id \in {} |-> Absent], bindings |-> {}, listeners |-> {}]
BuiltinRuntime ==
    FoldLeft(Mount, NoPlugins, InOrder(Builtins, LAMBDA m, n : m.id < n.id))

\* The built-in plugins that can be activated one after the other, and what
\* BUILTIN_PLUGIN_MANIFESTS has in common: each of them is one of those or
\* requires a service that only packages offer, and their listeners agree.
GivenBy(set, m) ==
    \A s \in Needed(m) :
        \E n \in set : s \in n.provides /\ n.scope \in {m.scope, "global"}
SelfSupported ==
    {m \in Builtins :
        \A set \in SUBSET Builtins :
            (\A n \in Builtins : GivenBy(set, n) => n \in set) => m \in set}
ASSUME BuiltinsAssumption ==
    /\ \A m \in Builtins :
          \/ m \in SelfSupported
          \/ \E s \in Needed(m) : \A n \in Builtins : s \notin n.provides
    /\ \A m, n \in Builtins : \A e \in Heard(m), l \in Heard(n) :
          e.event = l.event => e.mode = l.mode

-----------------------------------------------------------------------------
(* The package manager.                                                     *)

\* _permissions and the last test of _parse_package: mutation, execution and
\* secrets are never granted, egress only to trusted digests and allowed hosts.
Reserved == {"kubernetes:mutate", "ops:execute", "secrets:read"}
SafePermissions == {"inventory:read", "service:provide"}
Granted(m) ==
    (m.requests \cap (SafePermissions \cup (IF m.trusted THEN GrantedToTrusted ELSE {})))
        \ Reserved
Denied(m) ==
    (m.requests \ Granted(m))
        \cup (IF m.remote /\ ~("network:egress" \in Granted(m) /\ m.hostAllowed)
              THEN {"network:egress"} ELSE {})

\* _profile_plan: what the profile lists, or every package when it lists none;
\* a patch may disable an id or add one.  An unknown profile is production.
Selected(name) == IF name \in ProfileNames THEN name ELSE "production"
Listing(profile, name, found) ==
    IF profile.plugins = <<>> /\ name # "production"
    THEN Ascending(found) ELSE profile.plugins
Candidates(files, profiles, name) ==
    LET found == {id \in PackageIds : files[id] # Absent}
        listed == Listing(profiles[name], name, found)
    IN [listed |-> listed,
        enabled |-> {id \in found \cap ToSet(listed) : id \notin profiles[name].disabled}]

\* _check_requirements: some enabled candidate, mounted or not, or some active
\* plugin offers the service in a version that satisfies.
Incompatible(r, m, manifests) ==
    {q \in m.requires :
        ~\E n \in manifests \cup {r.plugins[id].manifest :
                     id \in {i \in DOMAIN r.plugins : r.plugins[i].status = "active"}} :
            q.service \in n.provides /\ n.version >= q.least}

\* refresh: every package is unmounted, then the enabled candidates are mounted.
Unmounted(r) ==
    FoldLeft(Unmount, r, Ascending({id \in DOMAIN r.plugins : r.plugins[id].manifest.external}))
MountAllowed(r, id, enabled, files) ==
    IF \/ id \notin enabled \/ Denied(files[id]) # {}
       \/ Incompatible(r, files[id], {files[i] : i \in enabled}) # {}
    THEN r ELSE Mount(r, files[id])
Refreshed(r, files, profiles, name) ==
    LET candidates == Candidates(files, profiles, Selected(name))
    IN FoldLeft(LAMBDA q, id : MountAllowed(q, id, candidates.enabled, files),
                Unmounted(r), candidates.listed)

Refresh(name) ==
    /\ runtime' = Refreshed(runtime, packageFiles', profileFiles', name)
    /\ activeProfile' = Selected(name)

CountStep ==
    packageSteps < MaxPackageSteps /\ packageSteps' = packageSteps + 1

-----------------------------------------------------------------------------
(* The requests, the mounted directory and restarts.                        *)

\* reload, and an install that fails: the files are put back, then refreshed.
ReloadPackages ==
    /\ CountStep /\ UNCHANGED <<packageFiles, profileFiles>>
    /\ Refresh(activeProfile)

ActivateProfile(name) ==
    /\ CountStep /\ UNCHANGED <<packageFiles, profileFiles>>
    /\ Refresh(name)

WithPlugin(profile, id) ==
    IF id \in ToSet(profile.plugins) THEN profile
    ELSE [profile EXCEPT !.plugins = Append(@, id)]

InstallSource(m, addToProfile) ==
    /\ CountStep
    /\ packageFiles' = [packageFiles EXCEPT ![m.id] = m]
    /\ profileFiles' = IF addToProfile
                       THEN [profileFiles EXCEPT ![activeProfile] = WithPlugin(@, m.id)]
                       ELSE profileFiles
    /\ Refresh(activeProfile)

\* A package dropped into the directory or taken out of it is only seen by the
\* next refresh.
EditDirectory(id) ==
    /\ CountStep
    /\ \E m \in {n \in ExternalManifests : n.id = id} \cup {Absent} :
          packageFiles' = [packageFiles EXCEPT ![id] = m]
    /\ UNCHANGED <<runtime, profileFiles, activeProfile>>

\* The process may also end in an install, after the package was written and
\* before the profile.
RestartHarness(name) ==
    /\ CountStep
    /\ \/ UNCHANGED packageFiles
       \/ \E m \in ExternalManifests : packageFiles' = [packageFiles EXCEPT ![m.id] = m]
    /\ UNCHANGED profileFiles
    /\ runtime' = Refreshed(BuiltinRuntime, packageFiles', profileFiles, name)
    /\ activeProfile' = Selected(name)

PackagesInit ==
    /\ packageFiles = [id \in PackageIds |-> Absent]
    /\ \E id \in PackageIds :
          profileFiles = [name \in ProfileNames |->
              [plugins |-> <<>>, disabled |-> IF name \in Profiles THEN {id} ELSE {}]]
    /\ activeProfile \in ProfileNames
    /\ runtime = Refreshed(BuiltinRuntime, packageFiles, profileFiles, activeProfile)
    /\ packageSteps = 0

PackagesNext ==
    \/ ReloadPackages
    \/ \E name \in ProfileNames \cup {"unknown"} :
          ActivateProfile(name) \/ RestartHarness(name)
    \/ \E m \in ExternalManifests, add \in BOOLEAN : InstallSource(m, add)
    \/ \E id \in PackageIds : EditDirectory(id)

PackagesSpec == PackagesInit /\ [][PackagesNext]_packageVars

-----------------------------------------------------------------------------
PackagesTypeOK ==
    /\ DOMAIN runtime.plugins \subseteq {m.id : m \in Builtins} \cup PackageIds
    /\ \A id \in DOMAIN runtime.plugins :
          runtime.plugins[id].status \in {"pending", "active", "failed"}
    /\ packageFiles \in [PackageIds -> ExternalManifests \cup {Absent}]
    /\ profileFiles \in [ProfileNames ->
           [plugins : Seq(PackageIds), disabled : SUBSET PackageIds]]
    /\ activeProfile \in ProfileNames /\ packageSteps \in 0 .. MaxPackageSteps

WithStatus(s) == {id \in DOMAIN runtime.plugins : runtime.plugins[id].status = s}

\* The plugins that can be activated one after the other, starting from none:
\* the least set that holds what it supports.
Supported(set) ==
    {id \in DOMAIN runtime.plugins \ WithStatus("failed") :
        GivenBy({runtime.plugins[i].manifest : i \in set}, runtime.plugins[id].manifest)}
WellSupported ==
    {id \in DOMAIN runtime.plugins :
        \A set \in SUBSET DOMAIN runtime.plugins : Supported(set) \subseteq set => id \in set}

(* After any sequence of installs, reloads, profiles and restarts the       *)
(* active plugins are those that can be activated one after the other:      *)
(* none lives on a service that is gone or on itself, none waits for a      *)
(* service that is there, the approval gate comes back when a package that  *)
(* offered its router is taken away, and what fails to set up clashes with  *)
(* a listener.  Nothing but active plugins offers or listens.               *)
ActiveIsSupported ==
    /\ WithStatus("active") = WellSupported
    /\ \A id \in WithStatus("failed") : Clashes(runtime, runtime.plugins[id].manifest)
    /\ {b.plugin : b \in runtime.bindings} \cup {l.plugin : l \in runtime.listeners}
           \subseteq WithStatus("active")
=============================================================================

---------------------------- MODULE ClusterRegistry ----------------------------
(***************************************************************************)
(* backend/app/services/cluster_registry.py with the handlers that call it *)
(* and the inventory of the registered clusters they feed: a table of      *)
(* kubeconfigs in SQLite, and a TTL cache in memory whose key names the    *)
(* clusters.                                                               *)
(*                                                                         *)
(* A handler runs its registry call in a thread; each statement of SQL is  *)
(* atomic, the probes of a cluster between them are not.  A kubeconfig is  *)
(* the server it names and a token; which pairs a server accepts changes   *)
(* while probes are under way.                                             *)
(***************************************************************************)
EXTENDS Integers, FiniteSets

CONSTANTS
    ClusterIds,       \* ids in managed_clusters
    Kubeconfigs,      \* [server, token], the ones that are uploaded or arise
    NoRow,            \* the id is not in the table
    NoEntry,          \* the key is not in the cache
    Callers,          \* requests under way
    MaxCalls,         \* bound: requests in all
    MaxTurns          \* bound: changes of what the servers accept

ASSUME KubeconfigsAssumption ==
    \A k, l \in Kubeconfigs :
        [server |-> k.server, token |-> l.token] \in Kubeconfigs
ASSUME RegistryBoundsAssumption == MaxCalls \in Nat /\ MaxTurns \in Nat

VARIABLES
    rows,       \* managed_clusters: the kubeconfig and the status of an id
    accepted,   \* the kubeconfigs the servers accept
    caller,     \* what each request does, and what it has read
    inventory,  \* RANCHER_INVENTORY_CACHE: by the ids in the key
    calls, turns,
    proved,     \* history: kubeconfigs a probe has found connected
    shown       \* history: what the last answered inventory showed, and
                \* which clusters were registered when it was asked for

clusterVars == <<rows, accepted, caller, inventory, calls, turns, proved, shown>>

Free == [at |-> "free"]
Registered == {c \in ClusterIds : rows[c] # NoRow}
Row(k, status) == [kubeconfig |-> k, status |-> status]

Moves(r, step) == caller' = [caller EXCEPT ![r] = step]
Calls(r, step) ==
    /\ caller[r].at = "free" /\ calls < MaxCalls
    /\ calls' = calls + 1
    /\ Moves(r, step)
    /\ UNCHANGED <<rows, accepted, inventory, turns, proved, shown>>

-----------------------------------------------------------------------------
(* save_verified: probe, save as pending, mark as connected.                *)

\* POST /kubeconfig: a new id, or one that exists.
Upload(r, c, k) ==
    Calls(r, [at |-> "probing", op |-> "upload", cluster |-> c, kubeconfig |-> k])

\* refresh_token: the stored kubeconfig with the new token in it.
RefreshToken(r, c, token) ==
    /\ c \in Registered
    /\ Calls(r, [at |-> "probing", op |-> "refresh", cluster |-> c,
                 kubeconfig |-> [server |-> rows[c].kubeconfig.server, token |-> token]])

\* Mutant: what the probe found is not looked at.
ProbedIsSaved(r) ==
    /\ caller[r].at = "probing"
    /\ Moves(r, [caller[r] EXCEPT !.at = "saving"])
    /\ UNCHANGED <<rows, accepted, inventory, calls, turns, proved, shown>>

\* probe_content: a failure ends the request and leaves the table alone.
Probed(r) ==
    /\ caller[r].at = "probing"
    /\ \/ /\ caller[r].kubeconfig \in accepted
          /\ proved' = proved \cup {caller[r].kubeconfig}
          /\ Moves(r, [caller[r] EXCEPT !.at = "saving"])
       \/ /\ Moves(r, Free)
          /\ UNCHANGED proved
    /\ UNCHANGED <<rows, accepted, inventory, calls, turns, shown>>

\* save: INSERT ... ON CONFLICT(id) DO UPDATE.
SaveRow(r) ==
    /\ caller[r].at = "saving"
    /\ rows' = [rows EXCEPT ![caller[r].cluster] = Row(caller[r].kubeconfig, "pending")]
    /\ Moves(r, [caller[r] EXCEPT !.at = "marking"])
    /\ UNCHANGED <<accepted, inventory, calls, turns, proved, shown>>

\* UPDATE ... WHERE id: a row that is gone ends the request with an error,
\* before it has dropped the cache.
MarkRow(r) ==
    /\ caller[r].at = "marking"
    /\ \/ /\ caller[r].cluster \in Registered
          /\ rows' = [rows EXCEPT ![caller[r].cluster].status = "connected"]
          /\ Moves(r, [at |-> "dropping"])
       \/ /\ caller[r].cluster \notin Registered
          /\ Moves(r, Free)
          /\ UNCHANGED rows
    /\ UNCHANGED <<accepted, inventory, calls, turns, proved, shown>>

-----------------------------------------------------------------------------
\* verify_managed_cluster: probe with what is stored now, and write the result
\* to what is stored then.
Verify(r, c) ==
    /\ c \in Registered
    /\ Calls(r, [at |-> "verifying", cluster |-> c, kubeconfig |-> rows[c].kubeconfig])

Verified(r) ==
    /\ caller[r].at = "verifying"
    /\ \E status \in {"unreachable"} \cup
           (IF caller[r].kubeconfig \in accepted THEN {"connected"} ELSE {}) :
          /\ proved' = IF status = "connected" THEN proved \cup {caller[r].kubeconfig} ELSE proved
          /\ rows' = IF caller[r].cluster \in Registered
                     THEN [rows EXCEPT ![caller[r].cluster].status = status] ELSE rows
    /\ Moves(r, Free)
    /\ UNCHANGED <<accepted, inventory, calls, turns, shown>>

\* delete_managed_cluster.
DeleteRow(r, c) ==
    /\ caller[r].at = "free" /\ calls < MaxCalls /\ c \in Registered
    /\ calls' = calls + 1
    /\ rows' = [rows EXCEPT ![c] = NoRow]
    /\ Moves(r, [at |-> "dropping"])
    /\ UNCHANGED <<accepted, inventory, turns, proved, shown>>

\* invalidate() without a prefix.
DropInventory(r) ==
    /\ caller[r].at = "dropping"
    /\ inventory' = [key \in SUBSET ClusterIds |-> NoEntry]
    /\ Moves(r, Free)
    /\ UNCHANGED <<rows, accepted, calls, turns, proved, shown>>

-----------------------------------------------------------------------------
\* Mutant: one entry for whatever is registered.
OneKey(ids) == ClusterIds
KeyOf(ids) == ids

\* rancher_inventory: a hit is answered at once, otherwise all clusters are
\* read side by side, each from its thread.
AskInventory(r) ==
    /\ caller[r].at = "free" /\ calls < MaxCalls /\ Registered # {}
    /\ calls' = calls + 1
    /\ LET entry == inventory[KeyOf(Registered)] IN
       \/ /\ entry # NoEntry
          /\ shown' = [asked |-> Registered, lists |-> entry]
          /\ UNCHANGED caller
       \/ /\ entry = NoEntry
          /\ Moves(r, [at |-> "reading", asked |-> Registered, lists |-> <<>>])
          /\ UNCHANGED shown
    /\ UNCHANGED <<rows, accepted, inventory, turns, proved>>

\* inventory(cluster_id): the server the id stands for at this moment, or an
\* error of the request or of a row that is gone.
ReadCluster(r, c) ==
    /\ caller[r].at = "reading" /\ c \in caller[r].asked \ DOMAIN caller[r].lists
    /\ \E from \in {"error"} \cup
           (IF c \in Registered /\ rows[c].kubeconfig \in accepted
            THEN {rows[c].kubeconfig.server} ELSE {}) :
          Moves(r, [caller[r] EXCEPT !.lists =
                      [d \in DOMAIN @ \cup {c} |-> IF d = c THEN from ELSE @[d]]])
    /\ UNCHANGED <<rows, accepted, inventory, calls, turns, proved, shown>>

FillInventory(r) ==
    /\ caller[r].at = "reading" /\ DOMAIN caller[r].lists = caller[r].asked
    /\ inventory' = [inventory EXCEPT ![KeyOf(caller[r].asked)] = caller[r].lists]
    /\ shown' = [asked |-> caller[r].asked, lists |-> caller[r].lists]
    /\ Moves(r, Free)
    /\ UNCHANGED <<rows, accepted, calls, turns, proved>>

\* The TTL of an entry is over.
ExpireInventory ==
    /\ \E key \in SUBSET ClusterIds :
          /\ inventory[key] # NoEntry
          /\ inventory' = [inventory EXCEPT ![key] = NoEntry]
    /\ UNCHANGED <<rows, accepted, caller, calls, turns, proved, shown>>

\* A token is issued or revoked.
ServersTurn ==
    /\ turns < MaxTurns
    /\ turns' = turns + 1
    /\ \E k \in Kubeconfigs :
          accepted' = IF k \in accepted THEN accepted \ {k} ELSE accepted \cup {k}
    /\ UNCHANGED <<rows, caller, inventory, calls, proved, shown>>

\* The table is on disk; requests and cache are not.
RestartRegistry ==
    /\ turns < MaxTurns
    /\ turns' = turns + 1
    /\ caller' = [r \in Callers |-> Free]
    /\ inventory' = [key \in SUBSET ClusterIds |-> NoEntry]
    /\ UNCHANGED <<rows, accepted, calls, proved, shown>>

\* The process starts over a table of earlier uploads.
ClustersInit ==
    /\ rows \in [ClusterIds -> {NoRow} \cup {Row(k, "connected") : k \in Kubeconfigs}]
    /\ accepted \in SUBSET Kubeconfigs
    /\ caller = [r \in Callers |-> Free]
    /\ inventory = [key \in SUBSET ClusterIds |-> NoEntry]
    /\ calls = 0 /\ turns = 0
    /\ proved = {rows[c].kubeconfig : c \in Registered}
    /\ shown = [asked |-> {}, lists |-> <<>>]

HandlerStep(r) ==
    \/ Probed(r) \/ SaveRow(r) \/ MarkRow(r) \/ Verified(r) \/ DropInventory(r)
    \/ AskInventory(r) \/ FillInventory(r)
    \/ \E c \in ClusterIds :
          \/ Verify(r, c) \/ DeleteRow(r, c) \/ ReadCluster(r, c)
          \/ \E k \in Kubeconfigs : Upload(r, c, k) \/ RefreshToken(r, c, k.token)

ClustersNext ==
    \/ \E r \in Callers : HandlerStep(r)
    \/ ExpireInventory \/ ServersTurn \/ RestartRegistry

ClustersSpec == ClustersInit /\ [][ClustersNext]_clusterVars

-----------------------------------------------------------------------------
Servers == {k.server : k \in Kubeconfigs}
Listings == UNION {[ids -> Servers \cup {"error"}] : ids \in SUBSET ClusterIds}

ClustersTypeOK ==
    /\ rows \in [ClusterIds -> {NoRow} \cup
          [kubeconfig : Kubeconfigs, status : {"pending", "connected", "unreachable"}]]
    /\ accepted \subseteq Kubeconfigs /\ proved \subseteq Kubeconfigs
    /\ caller \in [Callers -> {Free, [at |-> "dropping"]}
          \cup [at : {"probing", "saving", "marking"}, op : {"upload", "refresh"},
                cluster : ClusterIds, kubeconfig : Kubeconfigs]
          \cup [at : {"verifying"}, cluster : ClusterIds, kubeconfig : Kubeconfigs]
          \cup [at : {"reading"}, asked : SUBSET ClusterIds, lists : Listings]]
    /\ inventory \in [SUBSET ClusterIds -> {NoEntry} \cup Listings]
    /\ calls \in 0 .. MaxCalls /\ turns \in 0 .. MaxTurns
    /\ shown \in [asked : SUBSET ClusterIds, lists : Listings]

(* No upload and no new token, however they overlap with deletes, other     *)
(* uploads and a restart, put a kubeconfig into the table that no probe has *)
(* found working: a failed update does not replace good credentials.        *)
StoredWasProved == \A c \in Registered : rows[c].kubeconfig \in proved

(* An inventory names the clusters that were registered when it was asked   *)
(* for, no deleted one and none too few, although entries are written after *)
(* the invalidation that should have dropped them.                          *)
InventoryOfRegistered == DOMAIN shown.lists = shown.asked

(* Both, at every state.                                                    *)
RegistryIsSound == StoredWasProved /\ InventoryOfRegistered

(* A new token goes into the kubeconfig that is there: the row still exists *)
(* and names the server it was read with.                                   *)
RefreshIsAtomic ==
    [][\A r \in Callers :
          caller[r].at = "saving" /\ caller[r].op = "refresh" /\ caller'[r].at = "marking" =>
             /\ caller[r].cluster \in Registered
             /\ rows[caller[r].cluster].kubeconfig.server = caller[r].kubeconfig.server]_clusterVars
=============================================================================

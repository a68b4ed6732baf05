----------------------------- MODULE ClusterCache -----------------------------
(***************************************************************************)
(* The per-organization Kubernetes client and its cache                    *)
(* (worker/clusters.go).  One organization: its kubeconfig is stored by    *)
(* the API and changes there at any time.  Time passes in ticks: what ages is  *)
(* counted up to where it makes no further difference.                     *)
(***************************************************************************)
EXTENDS Naturals, JobBody

CONSTANTS
    Project,        \* the project of each job
    Versions,       \* bound: kubeconfigs the organization ever stores, 1..n
    Broken,         \* the versions no client can be built from
    TTL,            \* cacheTTL, in ticks
    FetchBound,     \* bound: ticks a fetch and the use of its answer may take
    NoEntry

ClusterCacheAssumption ==
    /\ Versions \in Nat \ {0}
    /\ Broken \subseteq 1..Versions
    /\ TTL \in Nat \ {0} /\ FetchBound \in Nat

VARIABLES
    stored,     \* the kubeconfig the API holds
    replaced,   \* how long ago each earlier one was replaced
    entry,      \* byOrgID: the cached client and its age
    mapped,     \* byProjID: the projects whose organization is known
    fetch       \* the fetch of each job: how long ago it was sent, what it returned

cacheVars == <<stored, replaced, entry, mapped, fetch>>

Entries == [client : 1..Versions, age : 0..TTL]
NoFetch == [age |-> 0, got |-> 0]

CacheTypeOK ==
    /\ stored \in 1..Versions
    /\ replaced \in [1..Versions -> 0..(TTL + FetchBound)]
    /\ entry \in Entries \cup {NoEntry}
    /\ mapped \subseteq {Project[j] : j \in Jobs}
    /\ fetch \in [Jobs -> [age : 0..FetchBound, got : 0..Versions]]

CacheInit ==
    /\ stored = 1
    /\ replaced = [v \in 1..Versions |-> 0]
    /\ entry = NoEntry /\ mapped = {}
    /\ fetch = [j \in Jobs |-> NoFetch]

-----------------------------------------------------------------------------
(* Mutant: an entry is as good as it was when it was built.                *)
FreshForever == entry # NoEntry

Fresh == entry # NoEntry /\ entry.age < TTL

(* A resolved job works with the client the entry then holds, in all three *)
(* cases.  The fast path, under the lock.                                  *)
Cached(j) ==
    /\ Fresh /\ Project[j] \in mapped
    /\ Go(j, "queued", "gate")
    /\ UNCHANGED <<stored, replaced, entry, mapped, fetch>>

(* The lock is released while the API is asked.                            *)
Ask(j) ==
    /\ ~(Fresh /\ Project[j] \in mapped)
    /\ Go(j, "queued", "fetch")
    /\ UNCHANGED cacheVars

FetchOrganizationCluster(j) ==
    /\ Works
    /\ Go(j, "fetch", "build")
    /\ fetch' = [fetch EXCEPT ![j].got = stored]
    /\ UNCHANGED <<stored, replaced, entry, mapped>>

FetchFails(j) ==
    /\ MayFail("api")
    /\ Go(j, "fetch", "failed")
    /\ fetch' = [fetch EXCEPT ![j] = NoFetch]
    /\ UNCHANGED <<stored, replaced, entry, mapped>>

(* Another goroutine built a client meanwhile: it is taken as it is, with  *)
(* no look at the kubeconfig just fetched.                                 *)
Reuse(j) ==
    /\ Fresh
    /\ Go(j, "build", "gate")
    /\ mapped' = mapped \cup {Project[j]}
    /\ fetch' = [fetch EXCEPT ![j] = NoFetch]
    /\ UNCHANGED <<stored, replaced, entry>>

Build(j) ==
    /\ ~Fresh /\ fetch[j].got \notin Broken
    /\ Go(j, "build", "gate")
    /\ mapped' = mapped \cup {Project[j]}
    /\ entry' = [client |-> fetch[j].got, age |-> 0]
    /\ fetch' = [fetch EXCEPT ![j] = NoFetch]
    /\ UNCHANGED <<stored, replaced>>

(* The entries of the project and of its organization are purged.          *)
BuildFails(j) ==
    /\ ~Fresh /\ fetch[j].got \in Broken
    /\ Go(j, "build", "failed")
    /\ mapped' = mapped \ {Project[j]}
    /\ entry' = NoEntry
    /\ fetch' = [fetch EXCEPT ![j] = NoFetch]
    /\ UNCHANGED <<stored, replaced>>

Resolve(j) ==
    \/ Cached(j) \/ Ask(j) \/ FetchOrganizationCluster(j) \/ FetchFails(j)
    \/ Reuse(j) \/ Build(j) \/ BuildFails(j)

-----------------------------------------------------------------------------
(* Time, and what the API stores, matter only while a client is still to   *)
(* be resolved, and once there is an answer or a client that can age.      *)
Aging ==
    /\ \E j \in Jobs : at[j] \in {"queued", "fetch", "build"}
    /\ entry # NoEntry \/ \E j \in Jobs : at[j] = "build"

(* The organization stores another kubeconfig.                             *)
StoreKubeconfig ==
    /\ stored < Versions /\ Aging
    /\ stored' = stored + 1
    /\ UNCHANGED <<at, replaced, entry, mapped, fetch>>

Older(age, cap) == IF age < cap THEN age + 1 ELSE age

Tick ==
    /\ Aging
    /\ \A j \in Jobs : at[j] \in {"fetch", "build"} => fetch[j].age < FetchBound
    /\ replaced' = [v \in 1..Versions |->
                      IF v < stored THEN Older(replaced[v], TTL + FetchBound) ELSE 0]
    /\ entry' = IF entry = NoEntry THEN entry ELSE [entry EXCEPT !.age = Older(@, TTL)]
    /\ fetch' = [j \in Jobs |-> IF at[j] \in {"fetch", "build"} THEN [fetch[j] EXCEPT !.age = @ + 1]
                               ELSE fetch[j]]
    /\ UNCHANGED <<at, stored, mapped>>

ForgetCache == entry' = NoEntry /\ mapped' = {} /\ fetch' = [j \in Jobs |-> NoFetch]

-----------------------------------------------------------------------------
(* A job is never given a client whose kubeconfig was replaced longer ago  *)
(* than the TTL and one fetch together (clusters.go: the client is built   *)
(* from an answer that may be as old as the fetch was slow, and then       *)
(* counts as new).  A comment there promises more, that a client is reused *)
(* only for the kubeconfig just fetched: Reuse compares none, so a job may *)
(* be given an older client than the one it has the kubeconfig of in hand. *)
ClusterIsRecent ==
    [][\A j \in Jobs :
        at[j] # "gate" /\ at'[j] = "gate" =>
            \/ entry'.client = stored
            \/ replaced[entry'.client] < TTL + FetchBound]_at
=============================================================================

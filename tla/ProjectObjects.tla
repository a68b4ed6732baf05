---------------------------- MODULE ProjectObjects ----------------------------
(***************************************************************************)
(* The objects a job keeps up to date in its project's namespace: the      *)
(* ResourceQuota, the Secret project-env and the primary Ingress           *)
(* (k8s/namespace.go, k8s/secret.go, k8s/ingress.go).  Each is created if  *)
(* it is missing and otherwise read and written back, and Kubernetes       *)
(* refuses a write that carries an older resourceVersion.                  *)
(***************************************************************************)
EXTENDS Naturals, JobBody

CONSTANTS
    Settings,       \* bound: quotas an admin ever sets, 1..n; 0 is the built-in default
    NoObject

ProjectObjectsAssumption ==
    /\ Settings \in Nat
    /\ NoObject \notin [hard : Nat, foreign : BOOLEAN]

VARIABLES
    limits,     \* the ResourceQuota: the managed limits, and somebody else's limit
    secret,     \* the Secret is there
    ingress,    \* the Ingress is there
    want,       \* the quota each job was given
    seen,       \* the limits each job is about to write back, as it read them
    current     \* the jobs that have read an object nobody has written since

objectVars == <<limits, secret, ingress, want, seen, current>>

Default == 0
Limits  == [hard : 0..Settings, foreign : BOOLEAN]

ObjectsTypeOK ==
    /\ limits \in Limits \cup {NoObject}
    /\ seen \in [Jobs -> Limits \cup {NoObject}]
    /\ secret \in BOOLEAN /\ ingress \in BOOLEAN
    /\ want \in [Jobs -> 0..Settings]
    /\ current \subseteq Jobs

ObjectsInit ==
    /\ limits = NoObject /\ secret = FALSE /\ ingress = FALSE
    /\ want = [j \in Jobs |-> Default]
    /\ seen = [j \in Jobs |-> NoObject]
    /\ current = {}

(* A write leaves every other reader of the object, all of them at the     *)
(* same step, with an older resourceVersion.                               *)
Overtake(step) == current' = current \ {k \in Jobs : at[k] = step}

Read(j) == current' = current \cup {j}

(* Where a job goes when its preview, or the job itself, cannot go on.     *)
GiveUp(j) == IF kind[j] = "preview" THEN "done" ELSE "failed"

-----------------------------------------------------------------------------
(* EnsureProjectNamespace.                                                 *)

(* Whatever an admin has set by now; an answer that does not come is       *)
(* replaced by the built-in default.                                       *)
FetchQuota(j) ==
    /\ Go(j, "quota", "namespace")
    /\ \E quota \in 0..Settings :
          /\ IF quota = Default THEN MayFail("api") ELSE Works
          /\ want' = [want EXCEPT ![j] = quota]
    /\ UNCHANGED <<limits, secret, ingress, seen, current>>

Provided(j) == want' = [want EXCEPT ![j] = Default] /\ seen' = [seen EXCEPT ![j] = NoObject]

(* The namespace is created, or exists; then the quota is looked at.       *)
ReadQuota(j) ==
    /\ Works
    /\ \/ limits = NoObject /\ Go(j, "namespace", "createQuota") /\ UNCHANGED <<want, seen, current>>
       \/ /\ limits # NoObject /\ limits.hard # want[j]
          /\ Go(j, "namespace", "updateQuota")
          /\ Read(j) /\ seen' = [seen EXCEPT ![j] = limits]
          /\ UNCHANGED want
       \/ /\ limits # NoObject /\ limits.hard = want[j]
          /\ Go(j, "namespace", Body(j))
          /\ Provided(j)
          /\ UNCHANGED current
    /\ UNCHANGED <<limits, secret, ingress>>

(* Somebody else's quota, created meanwhile, is as good as this one.       *)
CreateQuota(j) ==
    /\ Works
    /\ Go(j, "createQuota", Body(j))
    /\ limits' = IF limits = NoObject THEN [hard |-> want[j], foreign |-> FALSE] ELSE limits
    /\ Provided(j)
    /\ UNCHANGED <<secret, ingress, current>>

(* The managed limits replace their like among the limits that were read.  *)
Merged(j) == [seen[j] EXCEPT !.hard = want[j]]

(* Mutant: the write carries no resourceVersion.                           *)
UpdateQuotaBlind(j) ==
    /\ Works
    /\ Go(j, "updateQuota", Body(j))
    /\ limits' = Merged(j)
    /\ Overtake("updateQuota")
    /\ Provided(j)
    /\ UNCHANGED <<secret, ingress>>

(* Refused if the quota was written since it was read.                     *)
UpdateQuota(j) ==
    /\ Works
    /\ \/ /\ j \in current /\ Go(j, "updateQuota", Body(j))
          /\ limits' = Merged(j) /\ Overtake("updateQuota")
       \/ j \notin current /\ Go(j, "updateQuota", "failed") /\ UNCHANGED <<limits, current>>
    /\ Provided(j)
    /\ UNCHANGED <<secret, ingress>>

QuotaFails(j) ==
    /\ MayFail("k8s")
    /\ \E step \in {"namespace", "createQuota", "updateQuota"} : Go(j, step, "failed")
    /\ current' = current \ {j}
    /\ Provided(j)
    /\ UNCHANGED <<limits, secret, ingress>>

-----------------------------------------------------------------------------
(* EnsureProjectSecret, for a deploy and for a preview alike: the secrets  *)
(* are fetched, then the Secret is created, or read and written.           *)

PushSecret(j) ==
    /\ Works
    /\ IF secret THEN Go(j, "secrets", "putSecret") /\ Read(j)
       ELSE Go(j, "secrets", "chart") /\ UNCHANGED current
    /\ secret' = TRUE
    /\ UNCHANGED <<limits, ingress, want, seen>>

PutSecret(j) ==
    /\ Works
    /\ \/ j \in current /\ Go(j, "putSecret", "chart") /\ Overtake("putSecret")
       \/ j \notin current /\ Go(j, "putSecret", GiveUp(j)) /\ UNCHANGED current
    /\ UNCHANGED <<limits, secret, ingress, want, seen>>

SecretFails(j) ==
    /\ MayFail("api") \/ MayFail("k8s")
    /\ \E step \in {"secrets", "putSecret"} : Go(j, step, GiveUp(j))
    /\ current' = current \ {j}
    /\ UNCHANGED <<limits, secret, ingress, want, seen>>

-----------------------------------------------------------------------------
(* EnsureProjectIngress, the last step of a deploy.                        *)

ReadIngress(j) ==
    /\ Works
    /\ IF ingress THEN Go(j, "expose", "putIngress") /\ Read(j)
       ELSE Go(j, "expose", "done") /\ UNCHANGED current
    /\ ingress' = TRUE
    /\ UNCHANGED <<limits, secret, want, seen>>

PutIngress(j) ==
    /\ Works
    /\ \/ j \in current /\ Go(j, "putIngress", "done") /\ Overtake("putIngress")
       \/ j \notin current /\ Go(j, "putIngress", "failed") /\ UNCHANGED current
    /\ UNCHANGED <<limits, secret, ingress, want, seen>>

IngressFails(j) ==
    /\ MayFail("api") \/ MayFail("k8s")
    /\ \E step \in {"expose", "putIngress"} : Go(j, step, "failed")
    /\ current' = current \ {j}
    /\ UNCHANGED <<limits, secret, ingress, want, seen>>

Provision(j) ==
    \/ FetchQuota(j) \/ ReadQuota(j) \/ CreateQuota(j) \/ UpdateQuota(j) \/ QuotaFails(j)
    \/ PushSecret(j) \/ PutSecret(j) \/ SecretFails(j)
    \/ ReadIngress(j) \/ PutIngress(j) \/ IngressFails(j)

-----------------------------------------------------------------------------
(* Somebody else puts a limit of their own on the namespace.  It matters   *)
(* only to jobs that still look at the quota.                              *)
AddForeignLimit ==
    /\ \E j \in Jobs : at[j] \in {"queued", "fetch", "build", "gate", "quota", "namespace",
                                   "createQuota", "updateQuota"}
    /\ limits # NoObject /\ ~limits.foreign
    /\ limits' = [limits EXCEPT !.foreign = TRUE]
    /\ Overtake("updateQuota")
    /\ UNCHANGED <<at, secret, ingress, want, seen>>

ForgetReads ==
    /\ want' = [j \in Jobs |-> Default]
    /\ seen' = [j \in Jobs |-> NoObject]
    /\ current' = {}

-----------------------------------------------------------------------------
(* A limit that somebody else put on the namespace survives every job, the *)
(* ones included that read the quota before the limit was there            *)
(* (namespace.go: what is written back is merged into the limits as they   *)
(* were read, so it takes the refusal of a stale write as well).           *)
ForeignLimitsKept ==
    [][limits # NoObject /\ limits.foreign => limits'.foreign]_limits
=============================================================================

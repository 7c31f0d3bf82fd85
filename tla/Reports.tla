------------------------------- MODULE Reports -------------------------------
(***************************************************************************)
(* What naisd reports on its own account and what Fasit keeps of it: the   *)
(* list of helm releases, published by the scheduler and after every helm  *)
(* command (internal/naisd/status_reporter.go), and the heartbeat          *)
(* (health_reporter.go), through Pub/Sub to the receiver                   *)
(* (internal/reconciler/receiver.go), which stores them in                 *)
(* release_statuses and health_statuses.                                   *)
(*                                                                         *)
(* One environment.  Pub/Sub delivers lists in any order and to handlers   *)
(* that overlap.  Faults, at most MaxFaults:                               *)
(*   publish   a list cannot be published                                  *)
(*   receiver  Fasit fails in the middle of storing a list                 *)
(*   slow      a heartbeat is three minutes on its way                     *)
(*   crash     the naisd pod dies                                          *)
(***************************************************************************)
EXTENDS Integers

CONSTANTS
    Names,          \* releases
    Slots,          \* bound: lists under way at a time
    Beats,          \* bound: heartbeats under way at a time
    MaxChanges,     \* bound: helm commands
    MaxFaults       \* bound: occurrences of faults

ASSUME ReportsAssumption == MaxChanges \in Nat /\ MaxFaults \in Nat

VARIABLES
    pod,            \* the naisd pod: "up", "down", or "gone" for good
    cluster,        \* [Names -> release: "none", "old" or "new"]
    owed,           \* a helm command has ended and its list is not out yet
    wire,           \* [Slots -> a list of releases under way, being stored]
    inventory,      \* [Names -> row of release_statuses]
    beat,           \* [Beats -> a heartbeat under way: "none", "fresh", "stale"]
    health,         \* the row of health_statuses
    changesLeft,
    faultsLeft

vars == <<pod, cluster, owed, wire, inventory, beat, health, changesLeft, faultsLeft>>
agentVars == <<pod, cluster, owed, changesLeft>>
listVars == <<wire, inventory>>
healthVars == <<beat, health>>

Empty == [phase |-> "empty", list |-> [n \in Names |-> "none"], left |-> {}]

Init ==
    /\ pod = "up" /\ owed = FALSE
    /\ cluster = [n \in Names |-> "old"]
    /\ wire = [s \in Slots |-> Empty]
    /\ inventory = [n \in Names |-> "none"]
    /\ beat = [b \in Beats |-> "none"] /\ health = "none"
    /\ changesLeft = MaxChanges /\ faultsLeft = MaxFaults

Fault == faultsLeft > 0 /\ faultsLeft' = faultsLeft - 1

-----------------------------------------------------------------------------
(* naisd *)

\* A handler has run helm upgrade or helm uninstall.
RunHelm(n) ==
    /\ pod = "up" /\ ~owed /\ changesLeft > 0
    /\ changesLeft' = changesLeft - 1
    /\ \E v \in {"new", "none"} : cluster' = [cluster EXCEPT ![n] = v]
    /\ owed' = TRUE
    /\ UNCHANGED <<pod, listVars, healthVars, faultsLeft>>

\* StatusReporter.Run: list the releases and publish them; a failure is logged.
PublishList ==
    \/ /\ \E s \in Slots :
             /\ wire[s] = Empty
             /\ wire' = [wire EXCEPT ![s] = [phase |-> "wire", list |-> cluster, left |-> {}]]
       /\ UNCHANGED faultsLeft
    \/ wire' = wire /\ Fault

\* Trigger, after helm, whether it succeeded or not.
RepublishHelmList ==
    /\ pod = "up" /\ owed
    /\ PublishList
    /\ owed' = FALSE
    /\ UNCHANGED <<pod, cluster, changesLeft, inventory, healthVars>>

\* The scheduler, every 15 minutes: long after the lists before it are stored.
ReportReleases ==
    /\ pod = "up" /\ \A s \in Slots : wire[s] = Empty
    /\ PublishList
    /\ UNCHANGED <<agentVars, inventory, healthVars>>

\* The scheduler, every minute.
ReportHealth ==
    /\ pod = "up"
    /\ \E b \in Beats : beat[b] = "none" /\ beat' = [beat EXCEPT ![b] = "fresh"]
    /\ UNCHANGED <<agentVars, listVars, health, faultsLeft>>

\* The pod dies, and comes back unless the cluster is gone for good.
PodDies ==
    /\ pod = "up" /\ Fault
    /\ pod' \in {"down", "gone"}
    /\ owed' = FALSE
    /\ UNCHANGED <<cluster, changesLeft, listVars, healthVars>>

PodStarts ==
    /\ pod = "down"
    /\ pod' = "up"
    /\ UNCHANGED <<cluster, owed, changesLeft, listVars, healthVars, faultsLeft>>

-----------------------------------------------------------------------------
(* Receiver.releaseStatus: the delete and the inserts use the pool, not the *)
(* transaction they are wrapped in, so each is visible at once.             *)

\* Mutant: the rows of releases that are gone stay.
DeleteReleaseStatusesMutant(s) ==
    /\ wire[s].phase = "wire"
    /\ wire' = [wire EXCEPT ![s].phase = "insert", ![s].left = {n \in Names : wire[s].list[n] # "none"}]
    /\ UNCHANGED <<inventory, agentVars, healthVars, faultsLeft>>

DeleteReleaseStatuses(s) ==
    /\ wire[s].phase = "wire"
    /\ inventory' = [n \in Names |-> "none"]
    /\ wire' = [wire EXCEPT ![s].phase = "insert", ![s].left = {n \in Names : wire[s].list[n] # "none"}]
    /\ UNCHANGED <<agentVars, healthVars, faultsLeft>>

SetReleaseStatus(s, n) ==
    /\ wire[s].phase = "insert" /\ n \in wire[s].left
    /\ inventory' = [inventory EXCEPT ![n] = wire[s].list[n]]
    /\ wire' = [wire EXCEPT ![s].left = @ \ {n}]
    /\ UNCHANGED <<agentVars, healthVars, faultsLeft>>

\* The handler returns nil and the message is acknowledged.
AckList(s) ==
    /\ wire[s].phase = "insert" /\ wire[s].left = {}
    /\ wire' = [wire EXCEPT ![s] = Empty]
    /\ UNCHANGED <<inventory, agentVars, healthVars, faultsLeft>>

\* An error or a restart of Fasit: the message is delivered again.
NackList(s) ==
    /\ wire[s].phase = "insert"
    /\ Fault
    /\ wire' = [wire EXCEPT ![s].phase = "wire", ![s].left = {}]
    /\ UNCHANGED <<inventory, agentVars, healthVars>>

-----------------------------------------------------------------------------
(* Receiver.healthStatus: the row is overwritten, whichever time is newer *)

SetNaisdHealthStatus(report) == health' = report

\* Mutant: only a missing row is written.
healthStatusMutant(b) ==
    /\ beat[b] # "none"
    /\ health' = IF health = "none" THEN beat[b] ELSE health
    /\ beat' = [beat EXCEPT ![b] = "none"]
    /\ UNCHANGED <<agentVars, listVars, faultsLeft>>

healthStatus(b) ==
    /\ beat[b] # "none"
    /\ SetNaisdHealthStatus(beat[b])
    /\ beat' = [beat EXCEPT ![b] = "none"]
    /\ UNCHANGED <<agentVars, listVars, faultsLeft>>

\* Three minutes pass without a newer report: Healthy turns false.
HealthExpires ==
    /\ health = "fresh"
    /\ health' = "stale"
    /\ UNCHANGED <<agentVars, listVars, beat, faultsLeft>>

BeatExpires(b) ==
    /\ beat[b] = "fresh" /\ Fault
    /\ beat' = [beat EXCEPT ![b] = "stale"]
    /\ UNCHANGED <<agentVars, listVars, health>>

-----------------------------------------------------------------------------
StoreList(s) == \/ DeleteReleaseStatuses(s) \/ AckList(s)
                \/ \E n \in Names : SetReleaseStatus(s, n)

Next ==
    \/ \E n \in Names : RunHelm(n)
    \/ RepublishHelmList \/ ReportReleases \/ ReportHealth
    \/ PodDies \/ PodStarts
    \/ \E s \in Slots : StoreList(s) \/ NackList(s)
    \/ \E b \in Beats : healthStatus(b) \/ BeatExpires(b)
    \/ HealthExpires

\* Goroutines run, clocks run out, Kubernetes starts pods, Pub/Sub delivers.
Fairness ==
    /\ WF_vars(RepublishHelmList) /\ WF_vars(ReportReleases)
    /\ WF_vars(ReportHealth) /\ WF_vars(PodStarts)
    /\ \A s \in Slots : WF_vars(StoreList(s))
    /\ \A b \in Beats : WF_vars(healthStatus(b))
    /\ WF_vars(HealthExpires)

Spec == Init /\ [][Next]_vars /\ Fairness

-----------------------------------------------------------------------------
(* What the pages read *)

GetReleaseStatus(n) == inventory[n]
ListReleaseStatuses == {<<n, inventory[n]>> : n \in {x \in Names : inventory[x] # "none"}}

-----------------------------------------------------------------------------
(* Properties *)

InventoryIsRight ==
    /\ \A n \in Names : GetReleaseStatus(n) = cluster[n]
    /\ ListReleaseStatuses = {<<n, cluster[n]>> : n \in {x \in Names : cluster[x] # "none"}}

\* While naisd runs, the releases the pages show become right again and again,
\* through lists that were stored at the same time and so mixed, torn apart by
\* a failure, repeated and out of order.
InventoryRepairs == <>[](pod = "up") => []<>InventoryIsRight

\* A running naisd is seen as healthy again and again; one that stays away is
\* seen as unhealthy for good.
HealthFollowsPod ==
    /\ <>[](pod = "up") => []<>(health = "fresh")
    /\ <>[](pod = "gone") => <>[](health # "fresh")

=============================================================================

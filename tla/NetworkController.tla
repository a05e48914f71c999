-------------------------- MODULE NetworkController --------------------------
(***************************************************************************)
(* The network of a pod in the LCOW v2 shim (internal/controller/network): *)
(* the endpoints of its namespace as NICs of the VM and of the guest, and  *)
(* their replacement after a migration.  Every operation runs under one    *)
(* mutex, so each is one action; what the pod's Resume does to the network *)
(* is one action too, since it holds the pod.                              *)
(*                                                                         *)
(* An endpoint is a host and a name; the namespace of a host has one       *)
(* endpoint per name.  A NIC is a number that is not used again.           *)
(***************************************************************************)
EXTENDS Integers, FiniteSets

CONSTANTS
    EndpointNames,
    Eth0,          \* the names that end in eth0
    NetFaults,     \* the calls that may fail
    MaxMoves,      \* bound: migrations
    MaxNics        \* bound: NICs made

ASSUME NetworkAssumption ==
    /\ IsFiniteSet(EndpointNames) /\ Eth0 \subseteq EndpointNames
    /\ MaxMoves \in Nat /\ MaxNics \in Nat
    /\ NetFaults \subseteq {"lookup", "addNic", "addInterface", "removeInterface",
                            "removeNic", "resumeContainer"}

VARIABLES
    netState,      \* State
    vmEndpoints,   \* the NICs the controller has, each with its endpoint
    migratedNamespace, \* migratedNamespaceID is set
    podMigrating,  \* the pod's isMigrating
    supported,     \* isNamespaceSupportedByGuest
    netSaved,      \* the endpoints of the last snapshot
    onHost,        \* which host the pod is on
    vmNics,        \* the NICs the VM has
    guestNics,     \* the NICs the guest has
    halfReset,     \* a reset failed after it had added a NIC
    dropped        \* a teardown in the middle of a migration dropped the bindings

netVars == <<netState, vmEndpoints, migratedNamespace, podMigrating, supported, netSaved,
             onHost, vmNics, guestNics, halfReset, dropped>>

NicsOf(bindings) == {b.nic : b \in bindings}

NetworkInit ==
    /\ netState = "NotConfigured" /\ vmEndpoints = {} /\ migratedNamespace = FALSE
    /\ podMigrating = FALSE /\ supported \in BOOLEAN /\ netSaved = {}
    /\ onHost = 0 /\ vmNics = {} /\ guestNics = {} /\ halfReset = FALSE
    /\ dropped = FALSE

-----------------------------------------------------------------------------
(* Adding the endpoints of a namespace, one after the other.                *)

Namespace(h) == {h} \X EndpointNames

\* fetchEndpointsInNamespace: in any order, those named eth0 first.
Fetched(h) ==
    {o \in [1 .. Cardinality(EndpointNames) -> Namespace(h)] :
        \A i, j \in DOMAIN o :
            /\ o[i] = o[j] => i = j
            /\ i < j /\ o[j][2] \in Eth0 => o[i][2] \in Eth0}

\* The NICs known to anybody, and guid.NewV4.
KnownNics == NicsOf(vmEndpoints \cup vmNics \cup netSaved) \cup guestNics
LastNic == IF KnownNics = {} THEN 0 ELSE CHOOSE n \in KnownNics : \A k \in KnownNics : k <= n

Bound(order, n) == {[nic |-> LastNic + i, endpoint |-> order[i]] : i \in 1 .. n}

\* Mutant: a NIC is tracked when the guest has it.
TrackedLate(order, n, wired) == Bound(order, n)

\* addEndpointToGuestNamespace tracks a NIC as soon as the VM has it.
TrackedEarly(order, n, wired) == wired

\* The first n endpoints are added.  The next one, if there is one, fails in the
\* VM, or in the guest, which may then have the NIC or not.
AddEndpoints(order, kept, inGuest, ok) ==
    \E n \in 0 .. Cardinality(EndpointNames), fails \in {"", "addNic", "addInterface"} :
        /\ ok <=> n = Cardinality(EndpointNames)
        /\ ok <=> fails = ""
        /\ ok \/ fails \in NetFaults
        /\ fails = "addInterface" => supported
        /\ LET wired == Bound(order, IF fails = "addInterface" THEN n + 1 ELSE n)
           IN /\ LastNic + n + 1 <= MaxNics
              /\ vmEndpoints' = kept \cup TrackedEarly(order, n, wired)
              /\ vmNics' = vmNics \cup wired
              /\ \E got \in {Bound(order, n), wired} :
                    guestNics' = IF supported THEN inGuest \cup NicsOf(got) ELSE inGuest

Setup ==
    /\ netState = "NotConfigured"
    /\ \/ /\ "lookup" \in NetFaults /\ netState' = "Invalid"
          /\ UNCHANGED <<vmEndpoints, vmNics, guestNics>>
       \/ \E order \in Fetched(onHost), ok \in BOOLEAN :
             /\ AddEndpoints(order, vmEndpoints, guestNics, ok)
             /\ netState' = IF ok THEN "Configured" ELSE "Invalid"
    /\ UNCHANGED <<migratedNamespace, podMigrating, supported, netSaved, onHost, halfReset,
                   dropped>>

-----------------------------------------------------------------------------
(* Teardown tries every NIC: the guest first, then the VM.                  *)

\* Those that stay in the guest, and those the guest gave up and the VM did not.
\* The VM may refuse to remove a NIC it does not have.
TeardownFails(inGuest, inVM) ==
    /\ inGuest # {} => supported /\ "removeInterface" \in NetFaults
    /\ \A b \in inVM : "removeNic" \in NetFaults \/ b \notin vmNics

\* In the middle of a migration only the bindings are dropped: the NICs stay
\* where they are, in the VM of the source or in the guest that has moved.
TeardownMigrating ==
    /\ netState \in {"SourceMigrating", "DestinationMigrating"}
    /\ vmEndpoints' = {} /\ netState' = "TornDown" /\ dropped' = TRUE
    /\ UNCHANGED <<vmNics, guestNics>>

MayTearDown == netState \in {"Configured", "Invalid"}

TeardownNics ==
    /\ MayTearDown
    /\ \E inGuest \in SUBSET vmEndpoints : \E inVM \in SUBSET (vmEndpoints \ inGuest) :
          /\ TeardownFails(inGuest, inVM)
          /\ vmEndpoints' = inGuest \cup inVM
          /\ vmNics' = vmNics \ (vmEndpoints \ vmEndpoints')
          /\ guestNics' = IF supported THEN guestNics \ NicsOf(vmEndpoints \ inGuest) ELSE guestNics
    /\ netState' = IF vmEndpoints' = {} THEN "TornDown" ELSE "Invalid"
    /\ UNCHANGED dropped

\* Teardown of a network that never was, or no longer is, does nothing.
TeardownNothing ==
    /\ netState \in {"NotConfigured", "TornDown"}
    /\ UNCHANGED <<netState, vmEndpoints, vmNics, guestNics, dropped>>

Teardown ==
    /\ TeardownMigrating \/ TeardownNics \/ TeardownNothing
    /\ UNCHANGED <<migratedNamespace, podMigrating, supported, netSaved, onHost, halfReset>>

-----------------------------------------------------------------------------
(* Migration.                                                               *)

\* A session begins after the last one is finalized.
SaveNetwork ==
    /\ netState \in {"Configured", "SourceMigrating"}
    /\ netState = "Configured" => ~podMigrating
    /\ netState' = "SourceMigrating" /\ netSaved' = vmEndpoints /\ podMigrating' = TRUE
    /\ UNCHANGED <<vmEndpoints, migratedNamespace, supported, onHost, vmNics, guestNics, halfReset,
                   dropped>>

\* The guest moves with its NICs; the VM of the next host has none of them.
ImportNetwork ==
    /\ netState = "SourceMigrating" /\ onHost < MaxMoves
    /\ netState' = "DestinationMigrating"
    /\ onHost' = onHost + 1
    /\ vmEndpoints' = netSaved /\ migratedNamespace' = FALSE /\ vmNics' = {} /\ halfReset' = FALSE
    /\ UNCHANGED <<podMigrating, supported, netSaved, guestNics, dropped>>

PatchNetwork ==
    /\ netState = "DestinationMigrating"
    /\ migratedNamespace' = TRUE
    /\ UNCHANGED <<netState, vmEndpoints, podMigrating, supported, netSaved, onHost, vmNics,
                   guestNics, halfReset, dropped>>

\* Mutant: the NICs of the source stay in the guest.
StaleStays(stale) == guestNics

\* ResetAfterMigration removes the NICs it has from the guest only.
StaleRemoved(stale) == IF supported THEN guestNics \ NicsOf(stale) ELSE guestNics

ResetFails ==
    \/ /\ supported /\ "removeInterface" \in NetFaults
       /\ \E stale \in SUBSET vmEndpoints :
             /\ stale # vmEndpoints
             /\ vmEndpoints' = vmEndpoints \ stale /\ guestNics' = StaleRemoved(stale)
       /\ UNCHANGED <<vmNics, halfReset>>
    \/ /\ "lookup" \in NetFaults
       /\ vmEndpoints' = {} /\ guestNics' = StaleRemoved(vmEndpoints)
       /\ UNCHANGED <<vmNics, halfReset>>
    \/ /\ \E order \in Fetched(onHost) : AddEndpoints(order, {}, StaleRemoved(vmEndpoints), FALSE)
       /\ halfReset' = (halfReset \/ vmNics' # vmNics)

ResetAfterMigration(ok) ==
    \/ ok /\ ~migratedNamespace /\ UNCHANGED <<vmEndpoints, vmNics, guestNics, halfReset>>
    \/ /\ ok /\ migratedNamespace
       /\ \E order \in Fetched(onHost) : AddEndpoints(order, {}, StaleRemoved(vmEndpoints), TRUE)
       /\ UNCHANGED halfReset
    \/ ~ok /\ migratedNamespace /\ ResetFails

\* Controller.Resume, which binds the VM and the guest.
ResumeNetwork ==
    /\ netState \in {"Configured", "SourceMigrating", "DestinationMigrating"}
    /\ netState' = "Configured"

\* The pod's Resume: the network, the containers, and on the destination the
\* endpoints (a source has no migratedNamespace).  A retry finds the network
\* Configured.  The pods of a destination are patched before they resume.
ResumePod ==
    /\ podMigrating /\ ResumeNetwork
    /\ netState = "DestinationMigrating" => migratedNamespace
    /\ \/ /\ "resumeContainer" \in NetFaults
          /\ UNCHANGED <<vmEndpoints, vmNics, guestNics, halfReset, migratedNamespace,
                         podMigrating>>
       \/ \E ok \in BOOLEAN :
             /\ ResetAfterMigration(ok)
             /\ migratedNamespace' = (migratedNamespace /\ ~ok)
             /\ podMigrating' = ~ok
    /\ UNCHANGED <<supported, netSaved, onHost, dropped>>

NetworkNext ==
    Setup \/ Teardown \/ SaveNetwork \/ ImportNetwork \/ PatchNetwork \/ ResumePod

\* A teardown that fails is retried, and neither the guest nor the VM refuses for
\* ever to remove a NIC it has.
NetworkFairness == SF_netVars(Teardown /\ vmEndpoints \subseteq vmNics /\ netState' = "TornDown")

-----------------------------------------------------------------------------
(* Properties.                                                              *)

\* A pod that is not migrating and whose network is configured has one NIC for
\* each endpoint of its host's namespace, in the VM and in the guest, and the
\* guest has no other, whatever failed and was retried on the way.
NicsWired ==
    netState = "Configured" /\ ~podMigrating =>
        /\ {b.endpoint : b \in vmEndpoints} = Namespace(onHost)
        /\ Cardinality(vmEndpoints) = Cardinality(EndpointNames)
        /\ vmEndpoints \subseteq vmNics
        /\ guestNics = IF supported THEN NicsOf(vmEndpoints) ELSE {}

\* The controller tracks every NIC the VM and the guest have, so a teardown that
\* succeeds leaves none.  There are two exceptions.  A teardown in the middle of a
\* migration removes nothing.  And a reset that has failed after it had added a
\* NIC leaves it to the next reset, which takes it for a NIC of the source.
NicsTracked ==
    ~dropped =>
        /\ guestNics \subseteq NicsOf(vmEndpoints)
        /\ ~halfReset => vmNics \subseteq vmEndpoints

\* A network whose set-up or teardown failed is torn down by retries (Teardown is
\* all that a network in StateInvalid accepts).
NetworkReleased == []<>(netState = "Invalid" => podMigrating)
=============================================================================

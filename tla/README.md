# Verification of hcsshim

TLA+ models, model-checking runs and proofs for the two containerd shims of this repository and
what they stand on: `cmd/containerd-shim-lcow-v2` with its controllers, which runs the Linux
containers of a sandbox in one utility VM and can move that sandbox to another host;
`cmd/containerd-shim-runhcs-v1` with `internal/hcsoci`, `internal/uvm` and `internal/hcs/v2`; the GCS
bridge between host and guest; and the agent inside a Linux guest.

| module | models | run |
|---|---|---|
| `ScsiController` | `internal/controller/device/scsi` | `scsi_faults`, `devices` |
| `ScsiProofs` | the proofs about it | TLAPS |
| `Plan9Controller`, `VpciController`, `NetworkController` | `internal/controller/device/plan9`, `.../vpci`, `internal/controller/network` | `devices`, `plan9_retry` |
| `VmDevices` | the four device controllers of one VM | `devices` |
| `DeviceProofs` | the proofs about them, on top of `ScsiProofs` | TLAPS |
| `MigrationSession` | the life cycle a session promises (abstract) | refined in `mig_quiescent`, TLAPS |
| `VmOps` | the operations of `internal/controller/vm` that a migration drives | with `Migration` |
| `Migration` | `internal/controller/migration`, `pod/save_lcow.go` | `mig_races`, `mig_quiescent` |
| `Notifications` | `migration/notifications.go`, the event channel of `internal/hcs/v2` | `mig_races` |
| `MigrationWatched` | the two together | `mig_races` |
| `MigrationProofs` | the proofs about `Migration` and `Notifications` | TLAPS |
| `ContainerResources`, `Container` | `internal/controller/linuxcontainer`, `.../process`, the exec and delete RPCs | `ctr_lifecycle` |
| `ContainerProofs` | the proofs about them | TLAPS |
| `GcsWire`, `HostBridge`, `GuestBridge`, `GcsBridge` | `internal/gcs`, `internal/guest/bridge`, `cmd/gcs` and their connection | `gcs_bridge`, `gcs_live` |
| `GcsBridgeProofs` | the proofs about them | TLAPS |
| `HostMounts`, `GuestMounts`, `GuestHost` | `internal/guest/runtime/hcsv2`, the mount rules of `pkg/securitypolicy` | `guest_host`, `guest_mounts` |
| `GuestProofs` | the proofs about them | TLAPS |
| `ShimExec`, `RunhcsShim` | tasks, execs and pods of the v1 shim | `shim_v1` |
| `HcsSystem` | handles, callbacks and waiters of `internal/hcs/v2`; creation, `Start`, `Wait` and `Close` of a VM in `internal/uvm` | `shim_v1` |
| `ShimHost` | the v1 shim beside its handles | `shim_v1` |
| `ShimProofs` | the proofs about the last four | TLAPS |
| `UvmScsi`, `MemoryPool`, `UvmVPMem`, `UvmShares` | `internal/uvm/scsi`, `internal/memory`, virtual PMem, VSMB and PCI devices of `internal/uvm` | `uvm_resources` |
| `UvmScsiProofs` | the proofs about `UvmScsi` | TLAPS |
| `ContainerCreation` | `internal/hcsoci`, `layers`, `devices`, `resources`, `credentials` | `uvm_resources` |
| `UtilityVM` | these five together | `uvm_resources` |
| `MC*` | instances for TLC | |

A comment `Mutant:` marks an operator no specification uses. It is a plausible mistake in the
definition that follows it, kept to show that a property can fail.

## 1. The system

**The v2 shim.** Its task, sandbox and migration services receive RPCs concurrently. They own one
VM controller, one migration controller, a map of pods and one channel of events. Creating a
container holds the service mutex throughout, so containers are created one at a time; exec, kill,
delete and the migration calls are not serialised with each other. A container controller
allocates layers, disks, shares and devices, creates the container in the guest and owns a table of
process controllers. The SCSI, Plan9, vPCI and network controllers hand out reservations, count
references, and tell the VM and the guest what to attach and mount. A migration session freezes
SCSI and the pods, streams the VM in a goroutine, and is finalized with RESUME or STOP; it may be
cancelled at any time.

**The v1 shim.** One task per container, one exec per process, and for each a goroutine that waits
for it to exit; another waits for the VM. Creating a container acquires up to fifteen things in ten
functions, each of which undoes its own part. The VM shares disks, layers and directories among
containers by counting. Below, every HCS handle has a callback that signals its end once, and waiters
that the signal, or the closing of the handle, releases.

**The bridge.** Calls are multiplexed over one hvsock connection by a send loop, a receive loop and
a table of outstanding calls. A migration drops the connection and resumes it on another, and on the
destination the guest answers calls of the source.

**The guest agent.** It serves requests concurrently, or one at a time under a confidential policy,
and keeps containers, pods, processes with their waiters, namespaces with their adapters, and a
record of mounts beside the policy's own.

**What is hard here.** Mutexes released in the middle of an operation. Channels closed by several
parties. Multi-step releases that fail half way and are retried. Things shared by count among
callers that fail. A freeze that must stop every change behind a snapshot. A VM, a guest or a
connection that can go at any point. `PROJECT.json` lists each such place with its line and the
properties that watch it.

## 2. The models

Throughout, a handler that holds its mutex from beginning to end is one action; one that lets go of
it is split there. A call that is refused changes nothing and is no action. Every host and guest
call in a `Faults` constant may fail on every attempt, with the partial effects the code leaves.
Variables for the *world* (the bus, the guest's mounts, the NICs, the processes) change only when a
call succeeds, so the properties compare the books with the world.

### Devices of the v2 shim

`ScsiController`: `Reserve`, `MapToGuest`, `UnmapFromGuest`, `Save`, `Import`,
`UpdateDiskHostPath`, `Resume`. `reservations`, `disksByPath`, `controllerSlots` and `isMigrating`
are the fields of `Controller`; `mounts` flattens the `mounts` map of every disk; `bus` and
`guestMounts` are what the VM and the guest have. `CreateDestinationVM` is the part of the VM's
creation that attaches what `HCSAttachments` lists, and `NilDereference` the crash of a call whose
slot is empty. `Import` rebuilds the controller as the code does: every disk becomes attached, every
mount mounted, reference counts go through `uint32`, and with equal paths the index keeps any of
them. A caller reserves, maps once, and unmaps until that succeeds
(`scsi/controller.go:22-34`). A container names each of its disks once on the destination and two
disks do not get one path; HCS refuses to attach an image twice.

`Plan9Controller` and `VpciController` have the same shape: shares by path with one counted mount,
devices by identity with a shared GUID. `NetworkController` has one action per operation and one for
the pod's `Resume`, which drives the network, the containers and `ResetAfterMigration`; a teardown in
the middle of it is in section 6. NICs are
numbers that are not used again. The pods of a destination are patched before they are resumed.

`VmDevices` composes the four. Each has its own mutex and none reads another's state, so their steps
commute and a behaviour uses one of them (`used`).

### Migration

`VmOps` has one operator per VM method a session calls; it yields the set of outcomes, the VM
afterwards and whether the method failed. A VM is its state, the freeze of its SCSI controller, the
tolerance of its bridge, whether its exit is watched, and whether its guest manager has a connection
(`gc`) and a listener.

`Migration` composes it with the session, the pods and the goroutines. `Transfer` spawns a driver,
which steps through `TimeOut`/`Claim`, `RunStart`, `RunTransfer`, `RunEnds`, `Complete` or
`FailTransfer`, taking the mutex where the code does; inside `StartLiveMigrationTransfer` it holds
the VM's mutex and every action that needs the VM waits. `Cancel` is `CancelBegin`, `CancelAborts`,
`CancelEnds`. `FinalizeStop` and `FinalizeResume` are one step each, with every partial outcome.
`closed` is the set of closed channels, and `panicked` a channel closed twice or a nil VM controller
used. `Quiesces` says whether the orchestrator waits for the calls it made before it winds a
session down.

`MigrationSession` is the abstract specification: the phases and their order, without VM, pods or
goroutines. `ImplementsSession` states that `Migration` implements it, `INSTANCE MigrationSession
WITH phase <- state, side <- origin, Nobody <- None`.

`Notifications` is built over that abstraction: of a session it needs that it exists, fails and is
cleaned up. The HCS callback, the forwarder of each session's notifier, subscribers joining, leaving
and reading are actions; channels are bounded as in the code, with smaller bounds.

### Containers of the v2 shim

`ContainerResources` is the bookkeeping of a container's resources. `Progress` says how far `Create`
got: the layers, the scratch, then the mounts, with disks and shares in any order, then the devices;
`Allocated` is what it has on its lists by then. A reservation is on its list before it is mapped, so an
allocation that fails has listed what it failed on. `Attempts` is the order of release and
`ReleaseResources` the set of outcomes, one for each attempt that can fail. `world` is what the device
controllers and the guest hold for the container. `Container` has the handlers of the container and
process controllers. What the code does outside the container's mutex is a step of its own:
`ProcessExits`, `WakeUp` and `PublishExit` for `handleProcessExit`, `InitStops` and `InitPublishes` for
`handleInitProcessExit`, `DeleteBegins`, `DeleteWaits` and `Delete` for `DeleteProcess`, `NewProcess`
and `CreateExec` for an exec request. A container begins fresh or imported from a migration.

### The bridge

`GcsWire` is a sequence of connections, each of which loses what is under way when it drops.
`HostBridge` has the callers inside `AsyncRPC` and `RPC`, the send loop and the receive loop; each
critical section of `bridge.mu` and each read or write is a step. `GuestBridge` has the reader, the
handlers and the writer of each `ListenAndServe`, and the publication of exits. `GcsBridge`
composes them on the source, which loses its connection with waits outstanding, and on the
destination, which takes over answers the guest owes the source. There `restore` follows `Resume`:
connect, negotiate, seed the request identifiers with the source's (`SourceNextID`), then open the
containers and preregister the waits, under the identifiers `WaitID` they had on the source, in the
order `Opening`. Calls are admitted once that is done. `SourceAssumption` says what a source hands
over: waits with identifiers of their own, below its next one and above 0, which was its own
negotiation, and a list that names nothing twice.

### The guest agent

`HostMounts` is the record of mounts, as operators, since the caller holds its lock; a path is the
sequence of its components. `GuestMounts` has one action per mount request of a confidential guest,
which serves one at a time: the policy decides and records, the record is updated, the mount is
made, and a failure rolls back what the code rolls back. `GuestHost` adds containers, pods,
processes and adapters, each handler split where another may take a lock. Each container identifier
has several objects, one for every time it is created. The host deletes a container only after its
creation was answered, and not twice at once.

### The v1 shim

`ShimExec` is an exec as a record with its transitions under the state lock. `RunhcsShim` has the
tasks and pods: a request is one action except where it waits, and the goroutines of a task are the
closer, the one that waits for the VM, and the timer of a SIGKILL. A release of resources that fails
is logged and the closing goes on (`Kept`). Every exec and every task keeps the status it reports, so
that one the shim made up can be told from one a process had.

`HcsSystem` has the handles of systems and processes: their callbacks and `waitBackground`; `Start`,
`Pause`, `Resume` and `Save`, which hold the read lock until HCS has answered or their time is up;
`Terminate`, `Signal` with its forced unblocking, `Kill`, and `Close`, which takes the write lock. On
top it has `UtilityVM`: its creation, `Start`, `Wait` and `Close`, and the output of the VM. A Linux
VM connects for it during `Start`; the listener of a Windows VM stays until `Close`, which alone
closes the channel `Wait` looks at, so its connections are left out. Of HCS it is assumed that it does
one operation on a system at a time; that a system that was not started ends only when told to; that
every exit of a system is notified unless the service is lost first, while that of a process may go
unnoticed; and that the output of a Linux VM ends with the VM. A VM is closed by one goroutine at a
time. `Kill` is called once per process, and one that cannot open the process is left out, since it
changes nothing. `Close` goes on for as long as a VM runs that HCS refused to terminate, or whose
service is gone while its output is open (`StillRuns`).

`ShimHost` composes the two: tasks see the VM only through `Wait`, `Terminate` and `Close`, so a
behaviour is of one of them.

### Resources of a v1 utility VM

`UvmScsi` has the attach and the mount manager: the first caller does the work without the mutex, the
others wait on the entry's channel. Entries outlive their place in the table and are named by the caller
that made them. The path of a mount is the caller's or made from the entry's index (`Generated`), and
callers do not ask for one of the latter kind. `MemoryPool` is the buddy allocator and `UvmVPMem` the
layers on it; `UvmShares` the VSMB shares and PCI devices. `ContainerCreation` is a sequence of calls in
stages: each stage undoes its own calls on failure and hands over what it acquired when it returns; what
was handed over is released by `ReleaseResources`. `UtilityVM` composes them, and again a behaviour uses
one (`used`), since no call of one reads the state of another.

## 3. Properties and runs

Deadlock is checked in `devices`. Elsewhere it is not: a shim without requests rests, and the bounds
on sessions, creations and connections end a behaviour.

| run | states | instance | shows |
|---|---|---|---|
| `scsi_faults` | 128,471 | 3 callers, 2 disks, 3 slots with a boot disk, 1 migration, every call may fail | `BusMatchesSlots`, `GuestMountsTracked`, `NoImageTwice`: the books agree with the bus and the guest; `FrozenIsSnapshot`: a frozen source stays at its snapshot |
| `devices` | 28,317 | 2 callers, 2 disks of 2 partitions, 1 migration; 3 callers of 2 Plan9 paths; 3 of 2 vPCI devices; a pod with 2 endpoints over 2 migrations | `DevicesServed`: what was handed out stays usable; `DevicesReclaimed`: references are exact, nothing is lost track of; `DevicesReleased`: retries release |
| `mig_races` | 256,093 | 1 session, 2 drivers, 2 cancels, 2 pods, every call may fail; and 2 sessions with 2 subscribers and 3 events | `TransferOwned`: one goroutine drives, Cancel wins; `StreamsOnlyExported`; `StreamsFaithful`: events in order, of their session, complete for who keeps up |
| `mig_quiescent` | 3,573 | 2 sessions, 1 driver, 1 cancel, 2 pods | `ImplementsSession`; `RunningIsThawed`, `FinalizedIsSettled`: nothing stays frozen; `WoundDown`: sessions end, or can no longer be finalized |
| `ctr_lifecycle` | 40,379 | 2 layers, scratch, a disk, a share, a device, init, 1 exec, 2 deletes | exits are reported, once and after the teardown; no channel is closed twice; a freeze finds the init process alone; nothing is lost track of, and deletes can be retried |
| `gcs_bridge` | 1,765,732 | a negotiation and a query that may be abandoned, a wait; 2 connections; source and destination | `NeverPanics`, `NoCallLost`, `AnsweredByOwn` |
| `gcs_live` | 171,471 | a query and a wait on the source, 2 connections | `CallsReturn`: every call that was accepted returns |
| `shim_v1` | 494,761 | a pod with a workload or one task with an exec, every kind; a system with each kind of output, with a process in it or a goroutine that pauses and resumes, 2 operations, one kind of call failing | `ClosedReleased`: closed means released; `OneExit`; `ExitsAreReal`; `EverythingCloses` |
| `guest_host` | 76,598 | a pod and a container, each created up to twice; 2 adapters; a process with 2 waits and an exec with one | `PodsAgree`, `CountExact`, `AdaptersMoved`, `ExitDelivered` |
| `guest_mounts` | 1,043,584 | 2 layers, a disk, a share, overlays of 2 containers, failing mounts and unmounts | `MetadataAgrees`: policy and kernel agree; `OverlayBacked`: no disk on record goes from under an overlay |
| `uvm_resources` | 334,132 | 4 callers on one free slot, one more that gives up; 6 layers on 2 PMem devices; 5 shares, 2 devices; each kind of container, each call failing | `DisksServed`, `LayersPacked`, `ResourcesServed`, `CreationUndone`, `AddsReturn` |

`plan9_retry` is expected to fail; section 5 has it.

**Why the bounds are enough.** Three callers are the fewest with two sharing a thing and one beside
them, so that a release by one meets the use by another and the reuse of its place by the third. Two
partitions distinguish a mount from its disk. Two disks can exchange paths on the destination. Two
migrations let a network be reset that was already reset. Two drivers and two cancels give every
pair of racing goroutines; the first of two sessions is the *earlier session* of any longer history,
since `Cleanup` resets every field. Two pods separate a pod that failed from one before or after it.
Two connections give one drop and one resumption; the bridge keeps nothing of the connection before.
Event channels of two and three events let a buffer fill and an event arrive behind it. Three
classes of memory let a region be split twice and merged twice; the sizes are zero, below, at and
above the bounds of the classes, and too large for a device. A container is created with everything
optional, with nothing, and with all but one, so that every failure meets every thing acquired
before it. Once the record of the guest has lost a disk, `guest_mounts` goes on only from states
without a second such loss, a share, an error or a container (`LostBound`); a container does nothing to
the mounts but keep its overlay from being removed. The theorems have no
bounds.

**One at a time.** Where components share no state their steps commute, and the composition picks at
the start which of them a behaviour uses (`used` in `VmDevices` and `UtilityVM`, `watched` in
`MigrationWatched`, `used` in `ShimHost`, `Scenarios` in `GuestHost`, `Teams` in
`UvmScsi`). The rest stays in its initial state. Nothing is lost for properties that are
conjunctions over the components, and the state spaces add up instead of multiplying.

**Fairness.** Goroutines are weakly fair: the Go scheduler runs them, and calls that were made
return (`Background` in `RunhcsShim` and `GuestHost`, `Running` in `UvmScsi` and `HcsSystem`,
`Fairness` in `Container`, `GcsBridge` and `Migration`). One condition on the disjunction is enough
where each of the actions can be taken only finitely often in a row. Beyond that:

* `devices`: a caller that has reserved maps, and one that is releasing retries; a release that is
  possible again and again succeeds (strong fairness), which is what a host and a guest that do not
  refuse for ever give. A migration ends.
* `mig_quiescent`: the orchestrator keeps asking for one outcome or the other, and for `Cleanup`; an
  attempt that could succeed again and again does. Sockets need not arrive: the timeout of the driver
  covers that.
* `gcs_live`: timers fire. Connections and the guest owe nothing.
* `ctr_lifecycle`, `shim_v1`, `guest_host`, `uvm_resources`: goroutines only. Processes may run for
  ever, callers may never call.

## 4. Proofs

Theorems hold for every value of the constants: any number of callers, sessions, goroutines,
processes, connections and failing calls. Each follows from an inductive invariant.

| property | theorem | of |
|---|---|---|
| `BusMatchesSlots`, `NoImageTwice`, `GuestMountsTracked`, `FrozenIsSnapshot` | `BusAlwaysMatches`, `ImageAttachedOnce`, `GuestMountsAlwaysTracked`, `FrozenStaysSnapshot` | `ScsiController` |
| `DevicesServed`, `DevicesReclaimed` | `DevicesAlwaysServed`, `DevicesAlwaysReclaimed` | `VmDevices`, under `Reclaimable` |
| `RunningIsThawed`, `CancelWins` | `RunningAlwaysThawed`, `CancelAlwaysWins` | `Migration` |
| `TransferOwned`, `StreamsOnlyExported` | `TransferAlwaysOwned`, `StreamAlwaysExported` | `Migration`, sessions that come to rest or one session |
| `FinalizedIsSettled` | `FinalizedAlwaysSettled` | `Migration`, a stopped VM can be closed |
| `ImplementsSession` | `SessionImplemented` | `Migration`, one transfer and one cancel at a time |
| `StreamsFaithful` | `StreamsAlwaysFaithful` | `MigrationWatched` |
| `NeverPanics`, `NoCallLost`, `AnsweredByOwn` | `BridgeNeverPanics`, `BridgeLosesNoCall`, `BridgeAnswersOwn` | `GcsBridge` |
| `ClosedReleased`, `OneExit`, `ExitsAreReal` | `ClosedAlwaysReleased`, `ExitPublishedOnce`, `ExitsAlwaysReal` | `ShimHost` |
| `ClosedOnce`, `ExitPublished`, `FreezeAgrees`, `Tracked` | `ContainerClosesOnce`, `ContainerExitPublished`, `ContainerFreezeAgrees`, `ContainerTracked` | `Container` |
| `DeletedReleased` | `ContainerDeletedReleased` | `Container`, a guest that deletes container state |
| `DeletePossible` | `ContainerDeletePossible` | `Container`, overlay and layers may fail |
| `PodsAgree`, `CountExact`, `AdaptersMoved` | `PodsAlwaysAgree`, `CountAlwaysExact`, `AdaptersAlwaysMoved` | `GuestHost` |
| `MetadataAgrees`, `OverlayBacked` | `MetadataAlwaysAgrees`, `OverlaysAlwaysBacked` | `GuestHost` |
| `DisksServed` | `DisksAlwaysServed` | `UvmScsi`, no caller gives up waiting for a mount |

**SCSI.** The only assumption is `ScsiAssumption`: boot disks sit in existing slots, have distinct
paths that no caller reserves, and bounds are natural numbers. None of the properties is inductive
alone. `Inv` adds:

* `SlotShape` and `MountsInSlots`: an empty slot holds nothing. `Reserve` puts a new disk into it
  and must not inherit a mount.
* `RootfsKept`: the boot disks stay and are never reserved. They are on the bus although their slot
  says Reserved, an exception that `BusMatchesSlots` makes and that only holds if no caller can
  reach them.
* `MountedOnAttached`: only an attached disk has mounted partitions. It lets `DetachFromVM`, which
  looks at the table of mounts, conclude about the guest.
* `Importing`: while paths are rewritten, `IndexSound` does not hold. A patched disk owns its path;
  the entry of one that is not patched may have been taken over by one that is. When every path is
  distinct again, which HCS requires to create the VM, `IndexSound` follows.

`UnmapFromGuestIs` first restates the action by its effects: on the mounts, on the disk and the bus,
on the slot (kept or freed) and on the caller's reservation. The invariant is then proved from these.

`CountInv` extends `Inv` with what the callers have, for `DevicesServed` and `DevicesReclaimed`. In
`Counted`, the count of a mount is the cardinality of its `Holders`, and a mount with a holder that
was told so is in the guest. In `InUse`, a disk is kept by a mount somebody reserved, or is Ejected and
has one caller that still has to remove it. In `Entitled`, the slot of a caller has the disk it asked
for. A step of one caller changes the holders of one partition by that caller at most, and lemmas on
cardinalities turn that into the new count. `FewFaults` is what this part needs: finitely many callers,
fewer than the width of a count; `add` and `eject` do not fail and there is one migration (section 6
has what happens otherwise). Guest mounts, unmounts and unplugs may fail, more than the run lets fail.

**The other devices.** `Plan9Inv`: a share counts its users, no two shares have a name, and what the VM
and the guest have are the names of the shares that are added and mounted. `VpciInv`: the devices of the
VM are those that are Ready or could not be returned, and what a caller releases without having been
given it is not Ready and will not be; without this, a device could be taken back from a caller that has
it. `NetworkInv`: a namespace is wired from the set-up on, except between a migration and its reset, and
once its bindings were dropped (`dropped`) it is torn down for good. They assume finitely many callers
(the counts are cardinalities) and more names for shares than paths and callers can use up; for Plan9,
that the VM does not refuse to remove a share (section 5). `DevicesInv` is the conjunction: a step of
`VmDevices` is one of one controller.

**Migration.** Lemmas about each operation of `VmOps` say what it can do to a VM; `Sound` is kept by
all of them. Three invariants stand on that:

* `OwnInv`, for who drives. `ClaimKept`: while a goroutine is past its claim, the session is past the
  point where another can claim it, for good. `CancelKept`: after a Cancel the state stays one from
  which nothing is claimed or completed. `ExportHeld`: from the export to the claim the VM and every pod
  are frozen, and the goroutine that streams starts from there. `ClaimKept` does not hold if an
  orchestrator winds a session down under a running goroutine and begins another: `Cleanup` does not
  stop it, and it then drives the next session. So the two theorems assume that `Quiesces` holds or that
  there is one session.
* `SettleInv`, for how a session ends. `Sided`: a session has a side, and on the destination a pod is
  migrating or thawed. A sandbox that is stopped after Finalized, and whose VM then cannot be closed,
  has an Invalid VM; the theorem excludes that pair of failures and no other.
* `AtWork`, for the refinement: which goroutines and cancelling threads are under way in which state.
  Each action is then a step of `MigrationSession` or a stutter. `OneAtATime` is needed: the timeout of
  a second driver fails a session that is complete, and of two cancelling threads the second can fail a
  session that is cancelled. The abstract life cycle allows neither.

**Notifications.** `StreamInv` has no assumption but that buffers hold at least one event. A stream is
  what a subscriber was shown last and what waits in its channel (`Shown`). `SoundStream` says of each
  that its messages follow one another without a gap, or in order with gaps once one was dropped; that
  none is later than the notifier's last; and that a stream that is open is of the session that is
  active, whose last message it has unless it dropped one. The last part is what a subscription that
  replays the last message and a broadcast that races with it both have to keep.

**The bridge.** A request identifier travels: from the table to the send loop and its buffer, over the
wire to a handler, and back in a response. `Uses(i, c)` says that it is in one of these places with call
`c`. The core of `Inv` is that an identifier is a wait's, from the source, or was given out by this
bridge (`Owned`), and that it is with one call (`OneCall`); an answer can then complete no call but its
own. `Numbered` is what makes it hold on the destination: before the seed, the one identifier given out
is 0, which no wait of the source has. `Tabled` and `Untaken` say that a call in the table is incomplete
and there once, so that no channel of a call is closed twice; `Unopened` and `NotifiedOnce` do the same
for the channels of containers. The assumption is `SourceAssumption`.

**The v1 shim.** `TasksInv`: of the two goroutines that may close a task, the one that is in `closeHost`
holds it (`SoundTask`); the closer gets there only after the release, and the other only after it saw
the VM gone. The count of published exits is determined by where the goroutines are, so it never reaches
two. `SoundExec`: an exec whose process is waited for is running until the wait is over, and has then
the status of that process, which is dead, or of the failed wait. The status in the exit event of a task
is that of its init exec, unless the VM was gone first. `HandlesInv`: an exit that HCS has still to
notify, or that a callback has signalled, is that of a system or process that has exited. There are no
hypotheses.

**Containers.** `LifeInv` has the container, its processes and the goroutines that watch them:
`SoundProcess` orders the record of an exit, the closing of `exitedCh` and the event; `SoundInit` ties
the state of the container to that of its init process. `ResInv` says that the lists cover what is held
(`Covered`). `RetryInv` says the converse while the init process is listed (`Releasable`): what is on a
list is still held, so that no attempt fails for being repeated. Both rest on lemmas about `Attempts`: a
release that fails at an attempt has released what comes before it and nothing after it
(`ReleaseOutcome`), and what is left on the lists follows (`ReleaseCovered`, `ReleaseRetried`).
`ReservationsAssumption` says that the reservations of a container are distinct: a specification names
each of its disks, shares and devices once. Two theorems have a hypothesis. With a guest that does not
support `DeleteContainerState`, the guest keeps the container. With a flaky release of a mount or a
device, the lists already released stay and the retry fails for good (`container.go:288`, section 6):
`LayersFlaky` is the condition under which `DeletePossible` is true at all.

**The guest agent.** `PodInv`: while a container is created or deleted its object is the one under its
  ID (`Owner`), so that of two requests for one ID the one that lost changes no table. `WaitInv`: nobody
  waits for a process that was not made, and a container that is being created has none; the counter is
  then the cardinality of the waits that are not over, and one more until an exit code was read.
  `NetInv`: the namespace has the process of the container that got to the assignment of its PID, and an
  adapter whose addition was answered is listed, so the synchronisation that follows either of the two
  moves it. The one assumption (`GuestAssumption`) types the tables of the instance and has finitely
  many waits.

`MountInv` is for a confidential guest. `DevicesOK` is about HostMounts alone: only overlays refer to
devices, to devices that are there, and a device's usage is the number of references to it, which is
the cardinality of a set of pairs (overlay, position). `Backed` ties it to the kernel: what an overlay
stands on is a device it refers to, so its usage is not zero and its removal is refused. The exception
are the disks the record lost (`untracked`, section 6). With the
policy's metadata this holds until the guest has met an error it cannot roll back and takes no more
requests (`uvmError`); `DevicesOK` holds even then. `MountsAssumption` says that the paths of layers,
disks, shares and overlays differ and that a layer lies on one mount at most.

**The SCSI manager of a v1 VM.** `UvmScsiInv` names an entry by the caller that made it. `SoundSlot`: an
attachment in a slot counts at least the callers that are not through with it (`Holders`), and its disk
is on the bus once its work is done. "At least" is enough, and all that is true: a caller that gives up
leaves its reference. `SoundHolder`: a caller that is counted has an attachment in its slot, or waits
for one that failed. `SoundMount`: an entry in the table of mounts counts its users exactly, has a path
of its own, is mounted or its first caller is still at it, and somebody keeps the disk under it, if only
a caller whose unmount failed. The count of mounts must be exact since its last release unmounts and
detaches; so `Patient` is assumed: only callers that want no mount give up while they wait (section 6).

**Only model-checked:**

* liveness (`DevicesReleased`, `WoundDown`, `ExitReported`, `CallsReturn`, `EverythingCloses`,
  `ExitDelivered`, `AddsReturn`), since the prover has no fairness;
* `LayersPacked`, since the regions of the memory pool are built by recursion over classes, and
  with it `ResourcesServed`, which is about the layers placed in them;
* `CreationUndone`: the stages of a creation are written out, so the runs already have every kind of
  container with every call failing, and nothing is left to generalise but the number of attempts.

## 5. A disagreement that a run shows

`plan9_retry`: when the VM refuses to remove a share, `RemoveFromVM` fails after the guest's
unmount. The caller retries, and the retry unmounts again (`share/share.go:219`). If another caller
has mapped the share in between, that takes the mount from it, although the count says that it is
in use: "The guest unmount is issued only when it drops to zero" (`mount/mount.go:41`).

## 6. Further observations

Met while modelling. No run stands behind them; where a run or a property has to leave one out, it
is said here or in the comment on the property.

**SCSI (v2).** A guest mount that fails leaves a mount entry in state Unmounted that every later
  `UnmapFromGuest` refuses (`mount.go:96`, `151`), while the contract promises that retrying releases
  the reservation (`scsi/controller.go:33`, `mount/state.go:12`). With two holders of a disk that never
  attached, or whose eject failed, the release of the first can leave the second with an empty slot
  (`controller.go:244`). Hence `devices` has no failing `add`, `mount` and `eject` for SCSI. A
  reservation that is thawed without having been mapped leaves a Reserved mount behind (`mount.go:132`),
  the exception in `SlotsReclaimed`; a second migration imports that mount as Mounted with a count of
  zero, and nobody releases it (`MaxSaves <= 1` in `FewFaults`). `Import` takes every disk to be
  attached.

**Plan9, vPCI (v2).** A Reserved share is moved to Removed although it has a mount
(`share/share.go:139`); containers do not reach this. Of two callers of one device whose `AddToVM`
failed, the first `RemoveFromVM` untracks the GUID and the second then fails for ever; the container
does not take that for released (`container.go:228` against `vpci.go:96`). It is `RemoveFails`, and why
`DevicesReleased` leaves devices out.

**Network (v2).** The pod is stored only after its network is set up
(`service_task_internal.go:158-166`), so the Delete that the comment there relies on finds no pod
and the NICs of a failed set-up are never torn down. A reset retried after a failed add takes the
NICs it added for the source's and removes them only from the guest: they stay in the VM
(`halfReset` in `NicsTracked`; `pod/save_lcow.go` calls any failure retriable). Teardown takes neither
the pod's mutex nor `isMigrating`, and the reset checks no state, so a Delete between the network's
`Resume` and its reset revives a network that was torn down. A pod that was never patched resumes
silently with the source's NICs. A teardown in the middle of a migration only drops the bindings and
leaves the NICs where they are (`dropped` in `NicsTracked`).

**Migration.** The transfer's goroutine and `Cancel` use the VM controller without the mutex; after a
  `Cleanup` it is nil (`controller.go:256`, `441`, against the comment at `:33`). A failure that arrives
  after Finalized or while Cancelling overwrites the state (`:204`), one that arrives after `Cleanup`
  leaves an idle controller Failed (`state.go:29`), and a stale driver completes the next session
  (`:185`). Hence `Quiesces` in `mig_quiescent`. A second `Transfer` whose goroutine times out fails a
  session that is completed (`:93`); hence one driver there. A source whose export failed before the
  SCSI controller was frozen cannot be resumed (`vm/save_lcow.go:284` against `:282`), and a source that
  rolls back after its connection was given away can never reconnect (`guest.go:81` against
  `save_lcow.go:247`); a destination whose `Accept` fails has used up its listener. A retry of Finalize
  after the VM runs but a pod failed is refused (`:336`), as is every retry once an init process exited
  while frozen. If a pod's export fails half way its frozen containers are skipped by the resume
  (`pod/save_lcow.go:147`). A VM whose handle cannot be closed turns Invalid (`vm/vm.go:628`), which no
  Finalize accepts. Hence no `close` in `mig_quiescent`. `Cancel` is accepted after Finalized
  (`controller.go:384-421`), where "The next valid call is [Controller.Cleanup]" (`state.go:74-76`). If
  Finalize had brought the VM back to Running, the session can then no longer be finalized, and neither
  can one whose pod failed to resume (`Unfinishable` in `WoundDown`). `AbortMigrated` is documented for
  containers and processes and does not exist.

**Notifications.** A forwarder of a closed session may take one event of the next session from the
VM's channel and drop it; events left in the channel reach the next session's subscribers; a full
buffer loses events, the final one included ("delivers every later one", `notifications.go:118`).
Subscribing with an empty session identifier on an idle controller is not rejected and uses a nil VM
controller.

**Containers (v2).** A `Create` that fails before the guest has the container releases nothing:
deleting the guest's state of an unknown container fails first (`container.go:269`, against
`doc.go:66` and `container.go:161`). The lists of layers, disks,
shares and devices are kept when their release succeeded, so if a *later* list fails the retry asks
to unmap what is unmapped and fails for good (`container.go:235`, `288`); hence only the overlay, the
scratch and the layers fail in `ctr_lifecycle`. A failing `DeleteContainerState` makes every retry
fail. A `TaskDelete` can be published before the `TaskExit` (`container.go:372` against `378`). A
container whose `Create` failed stays in its pod and can neither be deleted nor let its sandbox be.
Killing a container that was created and not started wakes no waiter and publishes nothing until
`Delete`. Closing the event channel on shutdown (`service.go:86`) races with the exit handlers.

**GCS bridge.** A resumed bridge is never renegotiated although the guest resets its protocol
version (`guest/bridge/bridge.go:306`). A write that failed leaves its bytes in the send buffer.
`SetMigrating(false)` races with the receiver, and `MigrationState` reads an identifier another
goroutine writes. On the destination an answer that arrives before its call is registered kills the
bridge. An exit notification sent just before a drop is lost. In the guest agent, a reader that fails
late, or a notification published late, sends on a closed channel (`bridge.go:314-317`), and with two or
more queued notifications the drain can wait for ever.

**Guest agent.** The status of a container is set by its start, its creation and its exit without a
  common lock (`container.go:144`, `uvm.go:786` against `process.go:103`). Disk mounts that fail keep
  their record (`uvm.go:1419`, `1476-1481`, `1746`, `1758`, against `uvm_state.go:56-60`). `Sync` moves
  NICs that were moved before (`network.go:196-217`, against `:26-28`). A wait that comes as the last
  one ends reuses a `WaitGroup` (`process.go:60-62`), and one that timed out counts as a reader of the
  exit code (`:192-213`, against `:110-111`). A container that exits early can be deleted before its
  creation ends. A creation that fails after `runc create` leaves the container there, and the policy's
  "started" is not rolled back. The removal of a disk whose directory is missing takes it off the record
  and not off the policy's metadata: the deferred calls that put it back look at another `err`
  (`uvm.go:1476-1481`). A pmem removal unmounts whatever is at its path, a disk under an overlay
  included. Both are `untracked` in `OverlayBacked`. A failed overlay mount keeps its references.
  `RemoveNetworkNamespace` is called with a container's identifier. pmem mounts are not recorded.

**v1 shim.** `waitForHostExit` closes a task while its resources are still being released
(`task_hcs.go:675`, against `521-523`). A start event that cannot be published marks an exec exited
whose process runs. A create event that cannot be published leaves a container that is not listed. A
parent that fails to start is ignored by a standalone task. `CreateTask` of a pod checks and stores in
two steps. A failing `ReleaseResources` is only logged (`task_hcs.go:750-752`; `Kept`). A Delete that is
refused has ended the task's execs (`task_hcs.go:490-507`).

**HCS handles (v2).** `Kill` on a system that cannot be opened terminates it and closes the handle that
others share (`v2/process.go:163-174`); its flag is written under a read lock (`:220`), and
`processSignalResult` reports no error at all (`:79-101`). The handle of a VM whose properties cannot be
read is not closed (`uvm/create.go:275-285`). Two goroutines that close a VM at once, the timer of a
SIGKILL and `closeHost`, could both find the listener and close the output channel twice. `Wait` on a
Windows VM that forwards its logs returns only after `Close`: the goroutine that would close the channel
waits for it itself (`uvm/start.go:105-138`). Nobody then notices the exit of such a VM in a pod without
a sandbox container (`Unnoticed`). `CancelLiveMigration` is a stub (`v2/migration.go:244-266`).

**v1 utility VM.** A waiter that gives up in `attach` or `mount` leaves its reference
(`scsi/attach.go:66`, `scsi/mount.go:65`); for a mount, the last release then leaves it tracked and
detaches the disk, and another disk in that slot with the same config is handed out as mounted. In
`uvm_resources` only a caller that wants no mount gives up. A failed unmount in `Release` cannot be
retried. The first packed layer never becomes a regular device (`vpmem_mapped.go:200-203`, against
`:223`). A host removal that fails after the guest's leaves a tracked layer that is later handed out
unmounted (`:279-288`; `orphaned` in `LayersServed`). The allowed files of a VSMB share never shrink.
`RemoveDevice` forgets a device before the host has removed it.

**Container creation (v1).** `LeftBehind` in `ContainerCreation` names these: a failing assignment of
devices on Windows clears the list its own cleanup would release (`hcsoci/devices.go:134-137`, against
`:107`); a hypervisor-isolated block CIM keeps its scratch when combining fails
(`layers/wcow_mount.go:530-569`); the namespace stays when an endpoint cannot be added
(`hcsoci/network.go:38-49`); a credential guard stays when the query after it fails; a container whose
properties cannot be read is left open while its resources go (`create.go:338-349`, `366-370`).
`StaysWith`: the layers stay when anything before them could not be released, since the release is tried
once (`resources.go:129-164`, `create.go:227`). `InstallDrivers` stores a nil share in an interface and
panics when it releases it (`devices/drivers.go:34-46`). A failed deactivation between attempts is
ignored (`wcow_mount.go:148-152`). A disk of a block CIM that cannot be released leaves the cache entry
of an unmounted CIM (`uvm/cimfs.go:54-65`). `SetCreatedNetNS` ignores its argument. The entry that
`UpdateHvSocketService` makes stays until the VM goes (`NeverReleased`).

## 7. Not modelled

`PROJECT.json` lists every component with its status. Most of the repository's lines have no state to
model: generated protobuf and schema code, Windows bindings (`internal/winapi`, `hns`, `hcn`,
`vmcompute`, `computestorage`, `computecore`), file formats (`ext4`, `cim`, `ociwclayer`, `wclayer`,
`tar2ext4`), parsing of annotations and documents, command lines, test tools. They are sequential
conversions or single calls into the operating system, better served by tests. Also left out:

* the matching of a policy against containers and commands, evaluated by an embedded Rego
  interpreter; only the metadata of the mount rules is modelled;
* job containers, the network proxy, the sidecar and the `runhcs` command;
* in what is modelled: logging, the contents of payloads, stdio relays, readers (`Stats`, `Pids`,
  `State`), the WCOW variants of the v2 controllers, which cannot be migrated, and the
  device-mapper targets under a guest mount.

Where the project would go next: the maps of pods and containers of the v2 service with sandbox deletion
and shutdown; the memory pool with its classes as a function, so that `LayersPacked` can be proved;
job containers.

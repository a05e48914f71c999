----------------------------- MODULE UvmShares -----------------------------
(***************************************************************************)
(* The VSMB shares and the assigned PCI devices of a v1 utility VM         *)
(* (internal/uvm/vsmb.go and virtual_device.go).  Both are shared by count *)
(* under the mutex of the UtilityVM, which covers the call to the host.    *)
(***************************************************************************)
EXTENDS Integers

CONSTANTS
    Shareable,    \* what is shared: the directory, the file in it (NoFile: all of
                  \* it), whether read-only and whether direct mapping is off
    NoFile,
    PciDevices,
    ShareFaults,  \* the calls to the host that may fail
    MaxSharers,   \* bound: how often each of them is held
    Absent

\* getVSMBShareKey, and which of the two maps it is for.
ShareKey(q) == <<q.dir, q.readOnly, q.file = NoFile>>
Keys == {ShareKey(q) : q \in Shareable}

VARIABLES
    shares,   \* vsmbDirShares and vsmbFileShares
    vsmb,     \* the shares the VM has, with the files they allow
    sharers,  \* how many adds of each request are not released
    vpci,     \* vpciDevices: the counts
    assigned, \* the devices the VM has
    users     \* how many assignments of each device are not released

shareVars == <<shares, vsmb, sharers, vpci, assigned, users>>

SharesInit ==
    /\ shares = [k \in Keys |-> Absent] /\ vsmb = [k \in Keys |-> Absent]
    /\ sharers = [q \in Shareable |-> 0]
    /\ vpci = [d \in PciDevices |-> 0] /\ assigned = {}
    /\ users = [d \in PciDevices |-> 0]

NewShare == [refs |-> 0, allowed |-> {}, noDirectMap |-> FALSE]
Known(q) == IF shares[ShareKey(q)] = Absent THEN NewShare ELSE shares[ShareKey(q)]

\* Mutant: a file is added to a share the VM has without telling the VM.
TellsNew(q) == shares[ShareKey(q)] = Absent

\* The VM is told of a new share, and of a new file in a share.
Tells(q) == shares[ShareKey(q)] = Absent \/ q.file # NoFile

\* A call the host refuses changes nothing.
AddVSMB(q) ==
    LET k == ShareKey(q)
        allowed == Known(q).allowed \cup ({q.file} \ {NoFile})
    IN /\ sharers[q] < MaxSharers
       /\ vsmb' = IF Tells(q) THEN [vsmb EXCEPT ![k] = allowed] ELSE vsmb
       /\ shares' = [shares EXCEPT ![k] = [refs |-> Known(q).refs + 1, allowed |-> allowed,
                                           noDirectMap |-> q.noDirectMap]]
       /\ sharers' = [sharers EXCEPT ![q] = @ + 1]
       /\ UNCHANGED <<vpci, assigned, users>>

\* VSMBShare.Release.  The last reference removes the share unless it is mapped
\* directly; otherwise, and when the host fails, it stays with a count of zero.
RemoveVSMB(q) ==
    LET k == ShareKey(q)
        kept == [shares EXCEPT ![k].refs = @ - 1]
    IN /\ sharers[q] > 0
       /\ sharers' = [sharers EXCEPT ![q] = @ - 1]
       /\ \/ /\ \/ kept[k].refs > 0
                \/ ~shares[k].noDirectMap
                \/ "removeShare" \in ShareFaults
             /\ shares' = kept /\ UNCHANGED vsmb
          \/ /\ kept[k].refs = 0 /\ shares[k].noDirectMap
             /\ shares' = [shares EXCEPT ![k] = Absent]
             /\ vsmb' = [vsmb EXCEPT ![k] = Absent]
       /\ UNCHANGED <<vpci, assigned, users>>

\* The host assigns a device once.
AssignDevice(d) ==
    /\ users[d] < MaxSharers
    /\ vpci[d] > 0 \/ d \notin assigned
    /\ vpci' = [vpci EXCEPT ![d] = @ + 1]
    /\ assigned' = assigned \cup {d}
    /\ users' = [users EXCEPT ![d] = @ + 1]
    /\ UNCHANGED <<shares, vsmb, sharers>>

\* The device is forgotten before the host is asked to remove it.
RemoveDevice(d) ==
    /\ users[d] > 0
    /\ users' = [users EXCEPT ![d] = @ - 1]
    /\ vpci' = [vpci EXCEPT ![d] = @ - 1]
    /\ \/ (vpci[d] > 1 \/ "removeDevice" \in ShareFaults) /\ UNCHANGED assigned
       \/ vpci[d] = 1 /\ assigned' = assigned \ {d}
    /\ UNCHANGED <<shares, vsmb, sharers>>

SharesNext ==
    \/ \E q \in Shareable : AddVSMB(q) \/ RemoveVSMB(q)
    \/ \E d \in PciDevices : AssignDevice(d) \/ RemoveDevice(d)

-----------------------------------------------------------------------------
(* Properties.                                                              *)

\* What was added and not released is in the VM: a directory is shared, a file
\* is allowed in the share of its directory, a device is assigned, whoever else
\* shares it and whatever failed before.
SharesServed ==
    /\ \A q \in Shareable : sharers[q] > 0 =>
         vsmb[ShareKey(q)] # Absent /\ (q.file # NoFile => q.file \in vsmb[ShareKey(q)])
    /\ \A d \in PciDevices : users[d] > 0 => d \in assigned
=============================================================================

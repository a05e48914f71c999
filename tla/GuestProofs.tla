---------------------------- MODULE GuestProofs ----------------------------
(***************************************************************************)
(* The guest agent's tables agree while requests for one container         *)
(* interleave: pods and roots with the containers, the counter of a        *)
(* process with the waits for it, and the adapters of the network          *)
(* namespace with those that were moved into it.  For any number of        *)
(* containers, objects, waits and adapters.  In a confidential guest the   *)
(* policy's metadata, the record of mounts and the kernel agree, and no    *)
(* disk goes from under an overlay, for any number of layers, disks and    *)
(* shares and whichever mounts and unmounts fail.                          *)
(***************************************************************************)
EXTENDS GuestHost, FiniteSetTheorems, TLAPS

\* The stages of a creation, and all stages of a container object.
CreateStages == {"Added", "Rooted", "Placed", "Built", "Assigned"}
Stages == CreateStages \cup {"None", "Done", "Failed"}

\* The shape of a container object.
ObjectStates ==
    [at : Stages, status : {"Creating", "Created", "Running", "Terminated"}, started : BOOLEAN,
     starting : BOOLEAN, deleting : BOOLEAN, announced : BOOLEAN]

\* The tables of the Host and the container objects.
TablesOK ==
    /\ containers \in [Ids -> Objs \cup {None}]
    /\ pods \in [Ids -> (SUBSET Ids) \cup {None}] /\ roots \in SUBSET Ids
    /\ objs \in [Objs -> ObjectStates]

\* A container that is being created or deleted has its ID, and no other
\* object gets it meanwhile.
Owner(o, r, tab) ==
    /\ r.at \in CreateStages \/ r.deleting => tab[IdOf[o]] = o
    /\ r.deleting => r.at = "Done"
    /\ r.at = "Rooted" => Kind(IdOf[o]) = "sandbox"

\* The inductive invariant of PodsAgree: the tables are changed only by the
\* object that owns an ID.
PodInv ==
    /\ TablesOK
    /\ \A o \in Objs : Owner(o, objs[o], containers)
    /\ \A id \in roots : Kind(id) = "sandbox"
    /\ PodsAgree

\* A guest that has just started has no container.
LEMMA PodInit == Init => PodInv
<1> SUFFICES ASSUME Init PROVE PodInv
  BY Zenon
<1>1. TablesOK
  BY Zenon DEF Init, TablesOK, NoObject, ObjectStates, Stages
<1>2. \A o \in Objs : Owner(o, objs[o], containers)
  BY Zenon DEF Init, NoObject, Owner, CreateStages
<1> QED  BY <1>1, <1>2, Zenon DEF Init, PodInv, PodsAgree

\* The tables stay, and an object goes from one state to another.
LEMMA PodsKept ==
  ASSUME PodInv, UNCHANGED <<containers, pods, roots>>, NEW o \in Objs,
         NEW r \in ObjectStates, SetObj(o, r), Owner(o, r, containers)
  PROVE  PodInv'
<1>1. objs' \in [Objs -> ObjectStates] /\ \A q \in Objs : objs'[q] = IF q = o THEN r ELSE objs[q]
  BY Zenon DEF PodInv, TablesOK, SetObj
<1>2. TablesOK'
  BY <1>1, Zenon DEF PodInv, TablesOK
<1>3. \A q \in Objs : Owner(q, objs[q], containers)'
  BY <1>1, Zenon DEF PodInv, Owner
<1> QED  BY <1>2, <1>3, Zenon DEF PodInv, PodsAgree

\* Every object has an ID, and every ID a sandbox.
LEMMA IdType == ASSUME NEW o \in Objs PROVE IdOf[o] \in Ids /\ SandboxOf(IdOf[o]) \in Ids
BY GuestAssumption, Zenon

\* CreateContainer puts an object under a free ID.
LEMMA CreateContainerPods ==
  ASSUME PodInv, NEW o \in Objs, CreateContainer(o)
  PROVE  PodInv'
<1> DEFINE id == IdOf[o]
           r == [objs[o] EXCEPT !.at = "Added"]
<1>1. objs[o] \in ObjectStates /\ id \in Ids /\ None \notin Objs /\ None \notin Ids
  BY IdType, GuestAssumption, Zenon DEF PodInv, TablesOK
<1>2. r \in ObjectStates /\ r.at = "Added" /\ r.deleting = objs[o].deleting
  BY <1>1, Zenon DEF ObjectStates, Stages, CreateStages
<1>3. /\ objs' = [objs EXCEPT ![o] = r] /\ containers' = [containers EXCEPT ![id] = o]
      /\ containers[id] = None /\ UNCHANGED <<pods, roots>> /\ objs[o].at = "None"
  BY Zenon DEF CreateContainer, SetObj
<1>4. TablesOK'
  BY <1>1, <1>2, <1>3, Zenon DEF PodInv, TablesOK
<1>5. ASSUME NEW q \in Objs PROVE Owner(q, objs[q], containers)'
  <2>1. CASE q = o
    BY <1>1, <1>2, <1>3, <2>1, Zenon DEF PodInv, TablesOK, Owner
  <2>2. CASE q # o
    <3>1. objs'[q] = objs[q] /\ Owner(q, objs[q], containers)
      BY <1>3, <2>2, Zenon DEF PodInv, TablesOK
    <3>2. containers[IdOf[q]] = q => IdOf[q] # id
      BY <1>1, <1>3, Zenon
    <3>3. IdOf[q] # id => containers'[IdOf[q]] = containers[IdOf[q]]
      BY <1>3, IdType, Zenon DEF PodInv, TablesOK
    <3> QED  BY <3>1, <3>2, <3>3, Zenon DEF Owner
  <2> QED  BY <2>1, <2>2, Zenon
<1>6. ASSUME NEW x \in Ids, containers[x] # None PROVE containers'[x] # None
  BY <1>1, <1>3, <1>6, Zenon DEF PodInv, TablesOK
<1>7. PodsAgree'
  <2>1. ASSUME NEW x \in Ids, pods[x] # None
        PROVE  /\ containers'[x] # None /\ x \in pods[x]
               /\ \A c \in pods[x] : containers'[c] # None /\ SandboxOf(c) = x
    <3>1. \A c \in pods[x] : c \in Ids
      BY <2>1, Zenon DEF PodInv, TablesOK
    <3> QED  BY <2>1, <3>1, <1>6, Zenon DEF PodInv, PodsAgree
  <2>2. \A x \in roots : containers'[x] # None
    BY <1>6, Zenon DEF PodInv, PodsAgree, TablesOK
  <2> QED  BY <1>3, <2>1, <2>2, Zenon DEF PodsAgree
<1> QED  BY <1>3, <1>4, <1>5, <1>7, Zenon DEF PodInv

\* What a creation enters: the root of a sandbox, the pod, the container in
\* its pod.
LEMMA RegisterPods ==
  ASSUME PodInv, NEW o \in Objs, registerSandboxRoot(o) \/ createPodInUVM(o) \/
           createContainerInPod(o)
  PROVE  PodInv'
<1> DEFINE id == IdOf[o]
           r == [objs[o] EXCEPT !.at = IF registerSandboxRoot(o) THEN "Rooted" ELSE "Placed"]
<1>1. objs[o] \in ObjectStates /\ id \in Ids /\ SandboxOf(id) \in Ids /\
        Owner(o, objs[o], containers)
  BY IdType, Zenon DEF PodInv, TablesOK
<1>2. r \in ObjectStates /\ r.at \in {"Rooted", "Placed"} /\ r.deleting = objs[o].deleting
  BY <1>1, Zenon DEF ObjectStates, Stages, CreateStages
<1>3. objs[o].at \in CreateStages /\ containers[id] = o /\ o # None
  BY <1>1, GuestAssumption, Zenon
     DEF registerSandboxRoot, createPodInUVM, createContainerInPod, Owner, CreateStages
<1>4. objs' = [objs EXCEPT ![o] = r] /\ UNCHANGED containers
  BY Zenon DEF registerSandboxRoot, createPodInUVM, createContainerInPod, SetObj
<1>5. /\ pods' \in [Ids -> (SUBSET Ids) \cup {None}] /\ roots' \in SUBSET Ids
      /\ \A x \in roots' : x \in roots \/ (x = id /\ Kind(id) = "sandbox")
  BY <1>1, SMTT(30)
     DEF PodInv, TablesOK, registerSandboxRoot, createPodInUVM, createContainerInPod
<1>6. TablesOK'
  BY <1>1, <1>2, <1>4, <1>5, Zenon DEF PodInv, TablesOK
<1>7. Kind(id) = "sandbox" => SandboxOf(id) = id
  BY <1>1, GuestAssumption, Zenon
<1>8. ASSUME NEW q \in Objs PROVE Owner(q, objs[q], containers)'
  <2>1. registerSandboxRoot(o) => Kind(id) = "sandbox"
    BY Zenon DEF registerSandboxRoot
  <2>2. objs'[q] = IF q = o THEN r ELSE objs[q]
    BY <1>4, Zenon DEF PodInv, TablesOK
  <2>3. ~objs[o].deleting
    BY <1>1, <1>3, Zenon DEF Owner, CreateStages
  <2>4. Owner(o, r, containers)
    BY <1>1, <1>2, <1>3, <2>1, <2>3, SMTT(30) DEF Owner
  <2> QED  BY <2>2, <2>4, <1>4, Zenon DEF PodInv, Owner
<1>9. ASSUME NEW x \in Ids, pods'[x] # None
      PROVE  /\ containers[x] # None /\ x \in pods'[x]
             /\ \A c \in pods'[x] : containers[c] # None /\ SandboxOf(c) = x
  <2>1. CASE pods'[x] = pods[x]
    BY <1>9, <2>1, Zenon DEF PodInv, PodsAgree
  <2>2. CASE pods'[x] # pods[x] /\ createPodInUVM(o)
    <3>1. x = id /\ pods'[x] = {id}
      BY <1>1, <2>2, Zenon DEF createPodInUVM, PodInv, TablesOK
    <3>2. Kind(id) = "sandbox"
      BY <1>1, <2>2, Zenon DEF createPodInUVM, Owner
    <3> QED  BY <1>3, <1>7, <3>1, <3>2, Zenon
  <2>3. CASE pods'[x] # pods[x] /\ createContainerInPod(o)
    <3>1. x = SandboxOf(id) /\ pods'[x] = pods[x] \cup {id} /\ pods[x] # None
      BY <1>1, <2>3, Zenon DEF createContainerInPod, PodInv, TablesOK
    <3> QED  BY <1>3, <3>1, Zenon DEF PodInv, PodsAgree
  <2> QED  BY <2>1, <2>2, <2>3, Zenon DEF registerSandboxRoot
<1>10. PodsAgree'
  <2>1. \A x \in roots' : containers[x] # None
    BY <1>3, <1>5, Zenon DEF PodInv, PodsAgree
  <2> QED  BY <1>4, <1>9, <2>1, Zenon DEF PodsAgree
<1> QED  BY <1>5, <1>6, <1>8, <1>10, Zenon DEF PodInv

\* RemoveContainer takes out whatever is entered for an ID.
LEMMA RemovePods ==
  ASSUME PodInv, NEW o \in Objs, RemoveContainer(IdOf[o]), containers[IdOf[o]] = o,
         NEW r \in ObjectStates, SetObj(o, r), r.at \in {"Done", "Failed"}, ~r.deleting
  PROVE  PodInv'
<1> DEFINE id == IdOf[o]
           sandbox == SandboxOf(id)
<1>1. id \in Ids /\ sandbox \in Ids /\ o # None
  BY IdType, GuestAssumption, Zenon
<1>2. /\ containers' = [containers EXCEPT ![id] = None]
      /\ pods' = IF pods[sandbox] = None THEN pods
                 ELSE [pods EXCEPT ![sandbox] = IF id = sandbox THEN None ELSE @ \ {id}]
      /\ roots' = IF Kind(id) = "sandbox" THEN roots \ {id} ELSE roots
      /\ objs' = [objs EXCEPT ![o] = r]
  BY <1>1, Zenon DEF RemoveContainer, SetObj
<1>3. TablesOK'
  <2>1. containers' \in [Ids -> Objs \cup {None}] /\ roots' \in SUBSET Ids /\
          objs' \in [Objs -> ObjectStates]
    BY <1>1, <1>2, Zenon DEF PodInv, TablesOK
  <2>2. pods' \in [Ids -> (SUBSET Ids) \cup {None}]
    BY <1>1, <1>2, Zenon DEF PodInv, TablesOK
  <2> QED  BY <2>1, <2>2, Zenon DEF TablesOK
<1>4. ASSUME NEW q \in Objs PROVE Owner(q, objs[q], containers)'
  <2>1. CASE q = o
    <3>1. objs'[q] = r
      BY <1>2, <2>1, Zenon DEF PodInv, TablesOK
    <3> QED  BY <2>1, <3>1, Zenon DEF Owner, CreateStages
  <2>2. CASE q # o
    <3>1. objs'[q] = objs[q] /\ Owner(q, objs[q], containers)
      BY <1>2, <2>2, Zenon DEF PodInv, TablesOK
    <3>2. containers[IdOf[q]] = q => IdOf[q] # id
      BY <2>2, Zenon
    <3>3. IdOf[q] # id => containers'[IdOf[q]] = containers[IdOf[q]]
      BY <1>2, IdType, Zenon DEF PodInv, TablesOK
    <3> QED  BY <3>1, <3>2, <3>3, Zenon DEF Owner
  <2> QED  BY <2>1, <2>2, Zenon
<1>5. \A x \in Ids : x # id => containers'[x] = containers[x]
  BY <1>1, <1>2, Zenon DEF PodInv, TablesOK
<1>6. ASSUME NEW x \in Ids, pods'[x] # None
      PROVE  /\ containers'[x] # None /\ x \in pods'[x]
             /\ \A c \in pods'[x] : containers'[c] # None /\ SandboxOf(c) = x
  <2>1. pods[x] # None
    BY <1>1, <1>2, <1>6, Zenon DEF PodInv, TablesOK
  <2>2. /\ containers[x] # None /\ x \in pods[x]
        /\ \A c \in pods[x] : c \in Ids /\ containers[c] # None /\ SandboxOf(c) = x
    BY <2>1, Zenon DEF PodInv, PodsAgree, TablesOK
  <2>3. pods'[x] = IF x = sandbox THEN pods[x] \ {id} ELSE pods[x]
    BY <1>1, <1>2, <1>6, <2>1, Zenon DEF PodInv, TablesOK
  <2>4. x # id
    <3>1. CASE x = id
      <4>1. sandbox = id
        BY <2>2, <3>1, Zenon
      <4> QED  BY <1>1, <1>2, <1>6, <2>1, <3>1, <4>1, Zenon DEF PodInv, TablesOK
    <3> QED  BY <3>1, Zenon
  <2>5. \A c \in pods'[x] : c \in pods[x] /\ c # id
    BY <2>2, <2>3, Zenon
  <2> QED  BY <1>5, <2>2, <2>3, <2>4, <2>5, Zenon
<1>7. \A x \in roots' : x \in roots /\ x # id
  BY <1>2, Zenon DEF PodInv
<1>8. PodsAgree'
  <2>1. \A x \in roots' : containers'[x] # None
    BY <1>5, <1>7, Zenon DEF PodInv, PodsAgree, TablesOK
  <2> QED  BY <1>6, <2>1, Zenon DEF PodsAgree
<1> QED  BY <1>3, <1>4, <1>7, <1>8, Zenon DEF PodInv

\* Its creation fails, or it is deleted.
LEMMA RemovedPods ==
  ASSUME PodInv, NEW o \in Objs, CreateFails(o) \/ Deleted(o)
  PROVE  PodInv'
<1>1. objs[o] \in ObjectStates /\ Owner(o, objs[o], containers)
  BY Zenon DEF PodInv, TablesOK
<1>2. CASE CreateFails(o)
  <2>1. objs[o].at \in CreateStages /\ RemoveContainer(IdOf[o]) /\
          SetObj(o, [objs[o] EXCEPT !.at = "Failed"])
    BY <1>2, Zenon DEF CreateFails, CreateStages
  <2>2. containers[IdOf[o]] = o /\ ~objs[o].deleting
    BY <1>1, <2>1, Zenon DEF Owner, CreateStages
  <2>3. PICK r \in ObjectStates : r = [objs[o] EXCEPT !.at = "Failed"]
    BY <1>1, Zenon DEF ObjectStates, Stages
  <2>4. r.at = "Failed" /\ ~r.deleting
    BY <1>1, <2>2, <2>3, Zenon DEF ObjectStates
  <2> QED  BY <2>1, <2>2, <2>3, <2>4, RemovePods, Zenon
<1>3. CASE Deleted(o)
  <2>1. objs[o].deleting /\ RemoveContainer(IdOf[o]) /\
          SetObj(o, [objs[o] EXCEPT !.deleting = FALSE])
    BY <1>3, Zenon DEF Deleted
  <2>2. containers[IdOf[o]] = o /\ objs[o].at = "Done"
    BY <1>1, <2>1, Zenon DEF Owner
  <2>3. PICK r \in ObjectStates : r = [objs[o] EXCEPT !.deleting = FALSE]
    BY <1>1, Zenon DEF ObjectStates
  <2>4. r.at = "Done" /\ ~r.deleting
    BY <1>1, <2>2, <2>3, Zenon DEF ObjectStates
  <2> QED  BY <2>1, <2>2, <2>3, <2>4, RemovePods, Zenon
<1> QED  BY <1>2, <1>3, Zenon

\* The steps of an object that leave the tables alone.
LEMMA StagePods ==
  ASSUME PodInv, NEW o \in Objs,
         \/ Build(o) \/ Created(o) \/ AssignContainerPid(o) \/ SyncCreated(o)
         \/ StartContainer(o) \/ Started(o) \/ DeleteContainerState(o)
  PROVE  PodInv'
<1>1. objs[o] \in ObjectStates /\ Owner(o, objs[o], containers)
  BY Zenon DEF PodInv, TablesOK
<1>2. CASE Build(o) \/ AssignContainerPid(o)
  <2>1. PICK s \in {"Built", "Assigned"} : SetObj(o, [objs[o] EXCEPT !.at = s])
    BY <1>2, Zenon DEF Build, AssignContainerPid
  <2>2. objs[o].at \in CreateStages /\ UNCHANGED <<containers, pods, roots>>
    BY <1>2, Zenon DEF Build, AssignContainerPid, Placed, CreateStages
  <2>3. PICK r \in ObjectStates : r = [objs[o] EXCEPT !.at = s]
    BY <1>1, Zenon DEF ObjectStates, Stages, CreateStages
  <2>4. r.at \in {"Built", "Assigned"} /\ r.deleting = objs[o].deleting
    BY <1>1, <2>3, Zenon DEF ObjectStates
  <2>5. Owner(o, r, containers)
    BY <1>1, <2>2, <2>4, Zenon DEF Owner, CreateStages
  <2> QED  BY <2>1, <2>2, <2>3, <2>5, PodsKept, Zenon
<1>3. CASE Created(o) \/ SyncCreated(o)
  <2>1. SetObj(o, [objs[o] EXCEPT !.at = "Done", !.status = "Created"])
    BY <1>3, Zenon DEF Created, SyncCreated
  <2>2. objs[o].at \in CreateStages /\ UNCHANGED <<containers, pods, roots>>
    BY <1>3, Zenon DEF Created, SyncCreated, CreateStages
  <2>3. PICK r \in ObjectStates : r = [objs[o] EXCEPT !.at = "Done", !.status = "Created"]
    BY <1>1, Zenon DEF ObjectStates, Stages
  <2>4. r.at = "Done" /\ r.deleting = objs[o].deleting
    BY <1>1, <2>3, Zenon DEF ObjectStates
  <2>5. Owner(o, r, containers)
    BY <1>1, <2>2, <2>4, Zenon DEF Owner, CreateStages
  <2> QED  BY <2>1, <2>2, <2>3, <2>5, PodsKept, Zenon
<1>4. CASE StartContainer(o) \/ Started(o)
  <2>1. PICK r : /\ SetObj(o, r) /\ r \in ObjectStates
                 /\ r.at = objs[o].at /\ r.deleting = objs[o].deleting
    <3>1. PICK r \in {[objs[o] EXCEPT !.started = TRUE, !.starting = TRUE],
                      [objs[o] EXCEPT !.starting = FALSE, !.status = "Running"]} : SetObj(o, r)
      BY <1>4, Zenon DEF StartContainer, Started
    <3>2. r \in ObjectStates /\ r.at = objs[o].at /\ r.deleting = objs[o].deleting
      BY <1>1, <3>1, Zenon DEF ObjectStates
    <3> QED  BY <3>1, <3>2, Zenon
  <2>2. UNCHANGED <<containers, pods, roots>>
    BY <1>4, Zenon DEF StartContainer, Started
  <2>3. Owner(o, r, containers)
    BY <1>1, <2>1, Zenon DEF Owner
  <2> QED  BY <2>1, <2>2, <2>3, PodsKept, Zenon
<1>5. CASE DeleteContainerState(o)
  <2>1. /\ SetObj(o, [objs[o] EXCEPT !.deleting = TRUE]) /\ containers[IdOf[o]] = o
        /\ objs[o].at = "Done" /\ UNCHANGED <<containers, pods, roots>>
    BY <1>5, Zenon DEF DeleteContainerState, GetInitializedContainer
  <2>2. PICK r \in ObjectStates : r = [objs[o] EXCEPT !.deleting = TRUE]
    BY <1>1, Zenon DEF ObjectStates
  <2>3. r.at = "Done" /\ r.deleting
    BY <1>1, <2>1, <2>2, Zenon DEF ObjectStates
  <2>4. Owner(o, r, containers)
    BY <2>1, <2>3, Zenon DEF Owner, CreateStages
  <2> QED  BY <2>1, <2>2, <2>4, PodsKept, Zenon
<1> QED  BY <1>2, <1>3, <1>4, <1>5, Zenon

\* Exits, waits, adapters and mounts.
LEMMA OtherPods ==
  ASSUME PodInv,
         \/ \E p \in Procs : ProcessExits(p)
         \/ \E p \in Procs, g \in {"cleanup", "announce"} : Resume(p, g)
         \/ UNCHANGED <<containers, pods, roots, objs>>
  PROVE  PodInv'
<1>1. CASE UNCHANGED <<containers, pods, roots, objs>>
  BY <1>1, Zenon DEF PodInv, PodsAgree, TablesOK, Owner
<1>2. ASSUME NEW p \in Procs, ProcessExits(p) \/ \E g \in {"cleanup", "announce"} : Resume(p, g)
      PROVE  PodInv'
  <2>1. UNCHANGED <<containers, pods, roots>>
    BY <1>2, Zenon DEF ProcessExits, Resume
  <2>2. CASE UNCHANGED objs
    BY <1>1, <2>1, <2>2, Zenon
  <2>3. CASE p \in Objs /\ ~UNCHANGED objs
    <3>1. objs[p] \in ObjectStates /\ Owner(p, objs[p], containers)
      BY <2>3, Zenon DEF PodInv, TablesOK
    <3>2. PICK r : /\ SetObj(p, r) /\ r \in ObjectStates
                   /\ r.at = objs[p].at /\ r.deleting = objs[p].deleting
      <4>1. PICK r \in {[objs[p] EXCEPT !.status = "Terminated"],
                   [objs[p] EXCEPT !.announced = TRUE]} :
               SetObj(p, r)
        BY <1>2, <2>3, Zenon DEF ProcessExits, Resume, SetObj
      <4>2. r \in ObjectStates /\ r.at = objs[p].at /\ r.deleting = objs[p].deleting
        BY <3>1, <4>1, Zenon DEF ObjectStates
      <4> QED  BY <4>1, <4>2, ZenonT(40)
    <3>3. Owner(p, r, containers)
      BY <3>1, <3>2, Zenon DEF Owner
    <3> QED  BY <2>1, <2>3, <3>2, <3>3, PodsKept, Zenon
  <2>4. p \notin Objs => UNCHANGED objs
    BY <1>2, Zenon DEF ProcessExits, Resume, Blocked
  <2> QED  BY <2>2, <2>3, <2>4, Zenon
<1> QED  BY <1>1, <1>2, Zenon

\* Every step of the guest keeps PodInv.
LEMMA PodStep == ASSUME PodInv, [Next]_vars PROVE PodInv'
<1>1. ASSUME NEW o \in Objs, CreateContainer(o) \/ Steps(o) \/ StartContainer(o) \/
               DeleteContainerState(o)
      PROVE  PodInv'
  BY <1>1, CreateContainerPods, RegisterPods, RemovedPods, StagePods, Zenon DEF Steps
<1>2. CASE \E p \in Procs : ProcessExits(p)
  BY <1>2, OtherPods, Zenon
<1>3. CASE \E p \in Procs, g \in {"cleanup", "announce"} : Resume(p, g)
  BY <1>3, OtherPods, Zenon
<1>4. ASSUME NEW e \in Execs, ExecProcess(e) PROVE PodInv'
  BY <1>4, OtherPods, Zenon DEF ExecProcess
<1>5. ASSUME NEW w \in Waits, WaitOnProcess(w) \/ WaitAnswers(w) \/ WaitHasCode(w) \/
               WaitReleases(w)
      PROVE  PodInv'
  BY <1>5, OtherPods, Zenon DEF WaitOnProcess, WaitAnswers, WaitHasCode, WaitReleases
<1>6. ASSUME NEW n \in Nics, AddAdapter(n) \/ AdapterAdded(n) \/ RemoveAdapter(n) PROVE PodInv'
  BY <1>6, OtherPods, Zenon DEF AddAdapter, AdapterAdded, RemoveAdapter
<1>7. CASE ModifyHost
  BY <1>7, OtherPods, Zenon DEF ModifyHost, hostVars
<1>8. CASE UNCHANGED vars
  BY <1>8, OtherPods, Zenon DEF vars, hostVars
<1> QED  BY <1>1, <1>2, <1>3, <1>4, <1>5, <1>6, <1>7, <1>8, Zenon DEF Next, Background

\* The pods and the roots always agree with the containers.
THEOREM PodsAlwaysAgree == Spec => []PodsAgree
<1>1. Init => PodInv
  BY PodInit, Zenon
<1>2. PodInv /\ [Next]_vars => PodInv'
  BY PodStep, Zenon
<1>3. PodInv => PodsAgree
  BY Zenon DEF PodInv
<1> QED  BY <1>1, <1>2, <1>3, PTL DEF Spec
-----------------------------------------------------------------------------
(* Processes and the waits for them.                                        *)

\* The shape of a process, and of a wait for one.
ProcessStates ==
    [alive : BOOLEAN, exited : BOOLEAN, count : Int, called : BOOLEAN,
     woken : SUBSET {"cleanup", "announce"}, freed : BOOLEAN]

WaitStates ==
    [handler : {"None", "Open", "Answered", "TimedOut"},
      waiter : {"None", "Select", "Code", "Gone"}]

\* The waits for a process that are not over.
Waiting(p) == {w \in Waits : WaitOn[w] = p /\ waits[w].waiter \in {"Select", "Code"}}

\* The stages of an object that has no process yet.
Early == {"None", "Added", "Rooted", "Placed"}

\* The inductive invariant of CountExact: nobody waits for a process that was
\* not made, and one that was made lives or has exited.
WaitInv ==
    /\ procs \in [Procs -> ProcessStates] /\ waits \in [Waits -> WaitStates]
    /\ \A w \in Waits : waits[w] = NoWait \/ waits[w].waiter # "None"
    /\ \A p \in Procs : procs[p] # NoProcess => procs[p].alive \/ procs[p].exited
    /\ \A p \in Procs : procs[p] = NoProcess => Waiting(p) = {}
    /\ \A o \in Objs : objs[o].at \in Early => procs[o] = NoProcess
    /\ CountExact

\* A guest that has just started has no process.
LEMMA WaitInit == Init => WaitInv
<1> SUFFICES ASSUME Init PROVE WaitInv
  BY Zenon
<1>1. procs \in [Procs -> ProcessStates] /\ \A p \in Procs : procs[p] = NoProcess
  BY SMTT(30) DEF Init, NoProcess, ProcessStates
<1>2. /\ waits \in [Waits -> WaitStates] /\ \A p \in Procs : Waiting(p) = {}
      /\ \A w \in Waits : waits[w] = NoWait
  BY Zenon DEF Init, NoWait, WaitStates, Waiting
<1> QED  BY <1>1, <1>2, Zenon DEF WaitInv, CountExact, Procs

\* The waits for a process can be counted.
LEMMA WaitingFinite == ASSUME NEW p PROVE IsFiniteSet(Waiting(p)) /\ Cardinality(Waiting(p)) \in Nat
BY GuestAssumption, FS_Subset, FS_CardinalityType, Zenon DEF Waiting

\* What CountExact says of a process.
Exact(r, n) == r.count = n + IF r.called THEN 0 ELSE 1

\* CountExact says Exact of every process.
LEMMA ExactIs ==
  CountExact <=> \A p \in Procs : procs[p] # NoProcess => Exact(procs[p], Cardinality(Waiting(p)))
BY Zenon DEF CountExact, Exact, Waiting

\* So it does after a step.
LEMMA ExactNext ==
  (\A p \in Procs : procs'[p] # NoProcess => Exact(procs'[p], Cardinality(Waiting(p)'))) =>
    CountExact'
BY Zenon DEF CountExact, Exact, Waiting, NoProcess

\* No object gets to an early stage from a later one.
Onward == \A o \in Objs : objs'[o].at \in Early => objs[o].at \in Early

\* One object changes.
LEMMA ObjectOnward ==
  ASSUME PodInv, NEW o \in Objs, NEW r, SetObj(o, r), r.at \in Early => objs[o].at \in Early
  PROVE  Onward
BY Zenon DEF PodInv, TablesOK, SetObj, Onward

\* No step takes an object back.
LEMMA ObjectsOnward ==
  ASSUME PodInv, [Next]_vars
  PROVE  Onward
<1>0. CASE UNCHANGED objs
  BY <1>0, Zenon DEF Onward
<1>1. ASSUME NEW o \in Objs PROVE objs[o] \in ObjectStates
  BY Zenon DEF PodInv, TablesOK
<1>2. ASSUME NEW o \in Objs,
             \/ CreateContainer(o) \/ registerSandboxRoot(o) \/ createPodInUVM(o)
             \/ createContainerInPod(o) \/ Build(o) \/ AssignContainerPid(o) \/ CreateFails(o)
      PROVE  Onward
  <2>1. PICK s : SetObj(o, [objs[o] EXCEPT !.at = s])
    BY <1>2, Zenon
       DEF CreateContainer, registerSandboxRoot, createPodInUVM, createContainerInPod, Build,
                 AssignContainerPid, CreateFails
  <2>2. objs[o].at \in Early \/ SetObj(o, [objs[o] EXCEPT !.at = "Assigned"])
                             \/ SetObj(o, [objs[o] EXCEPT !.at = "Failed"])
    BY <1>2, Zenon
       DEF CreateContainer, registerSandboxRoot, createPodInUVM, createContainerInPod, Build,
                AssignContainerPid, CreateFails, Placed, Early
  <2>3. \A x : [objs[o] EXCEPT !.at = x].at = x
    BY <1>1, Zenon DEF ObjectStates
  <2> QED  BY <2>1, <2>2, <2>3, ObjectOnward, ZenonT(40) DEF Early
<1>3. ASSUME NEW o \in Objs, Created(o) \/ SyncCreated(o) PROVE Onward
  <2>1. [objs[o] EXCEPT !.at = "Done", !.status = "Created"].at = "Done"
    BY <1>1, Zenon DEF ObjectStates
  <2> QED  BY <1>3, <2>1, ObjectOnward, Zenon DEF Created, SyncCreated, Early
<1>4. ASSUME NEW o \in Objs,
             StartContainer(o) \/ Started(o) \/ DeleteContainerState(o) \/ Deleted(o)
      PROVE  Onward
  <2>1. PICK r \in {[objs[o] EXCEPT !.started = TRUE, !.starting = TRUE],
                    [objs[o] EXCEPT !.starting = FALSE, !.status = "Running"],
                    [objs[o] EXCEPT !.deleting = TRUE],
                      [objs[o] EXCEPT !.deleting = FALSE]} : SetObj(o, r)
    BY <1>4, Zenon DEF StartContainer, Started, DeleteContainerState, Deleted
  <2>2. r.at = objs[o].at
    BY <1>1, <2>1, Zenon DEF ObjectStates
  <2> QED  BY <2>1, <2>2, ObjectOnward, Zenon
<1>5. ASSUME NEW p \in Procs, ProcessExits(p) \/ \E g \in {"cleanup", "announce"} : Resume(p, g)
      PROVE  Onward
  <2>1. CASE p \in Objs
    <3>1. UNCHANGED objs \/ objs' = [objs EXCEPT ![p].status = "Terminated"]
                         \/ objs' = [objs EXCEPT ![p].announced = TRUE]
      BY <1>5, Zenon DEF ProcessExits, Resume
    <3>2. \A o \in Objs : objs'[o].at = objs[o].at
      BY <1>1, <3>1, SMTT(30) DEF PodInv, TablesOK, ObjectStates
    <3> QED  BY <3>2, Zenon DEF Onward
  <2>2. CASE p \notin Objs
    BY <1>0, <1>5, <2>2, Zenon DEF ProcessExits, Resume, Blocked
  <2> QED  BY <2>1, <2>2, Zenon
<1>6. \/ \E o \in Objs : \/ CreateContainer(o) \/ registerSandboxRoot(o) \/ createPodInUVM(o)
                         \/ createContainerInPod(o) \/ Build(o) \/ AssignContainerPid(o) \/
                              CreateFails(o)
                         \/ Created(o) \/ SyncCreated(o)
                         \/ StartContainer(o) \/ Started(o) \/ DeleteContainerState(o) \/ Deleted(o)
      \/ \E p \in Procs : ProcessExits(p) \/ \E g \in {"cleanup", "announce"} : Resume(p, g)
      \/ UNCHANGED objs
  <2>1. CASE \E w \in Waits : WaitOnProcess(w) \/ WaitAnswers(w) \/ WaitHasCode(w) \/
               WaitReleases(w)
    BY <2>1, Zenon DEF WaitOnProcess, WaitAnswers, WaitHasCode, WaitReleases
  <2>2. CASE \E n \in Nics : AddAdapter(n) \/ AdapterAdded(n) \/ RemoveAdapter(n)
    BY <2>2, Zenon DEF AddAdapter, AdapterAdded, RemoveAdapter
  <2>3. CASE ModifyHost \/ UNCHANGED vars \/ \E e \in Execs : ExecProcess(e)
    BY <2>3, Zenon DEF ModifyHost, vars, hostVars, ExecProcess
  <2> QED  BY <2>1, <2>2, <2>3, Zenon DEF Next, Background, Steps
<1> QED  BY <1>0, <1>2, <1>3, <1>4, <1>5, <1>6, Zenon

\* A process goes from one state to another and the waits stay.
LEMMA ProcessMoves ==
  ASSUME WaitInv, Onward, UNCHANGED waits, NEW p \in Procs, NEW r \in ProcessStates, SetProc(p, r),
         procs[p] # NoProcess, r.alive \/ r.exited,
         r.count = procs[p].count, r.called = procs[p].called
  PROVE  WaitInv'
<1>1. procs' \in [Procs -> ProcessStates] /\
        \A q \in Procs : procs'[q] = IF q = p THEN r ELSE procs[q]
  BY Zenon DEF WaitInv, SetProc
<1>2. \A q : Waiting(q)' = Waiting(q)
  BY Zenon DEF Waiting
<1>3. r # NoProcess
  BY SMTT(30) DEF NoProcess
<1>4. CountExact'
  <2> SUFFICES \A q \in Procs : procs'[q] # NoProcess => Exact(procs'[q], Cardinality(Waiting(q)'))
    BY ExactNext, Zenon
  <2> QED  BY <1>1, <1>2, ExactIs, Zenon DEF WaitInv, Exact
<1>5. \A o \in Objs : o \in Procs
  BY Zenon DEF Procs
<1> QED  BY <1>1, <1>2, <1>3, <1>4, <1>5, Zenon DEF WaitInv, Onward
\* A process is made that was not there.
LEMMA ProcessBegins ==
  ASSUME WaitInv, UNCHANGED waits, NEW p \in Procs, procs[p] = NoProcess, SetProc(p, newProcess),
         \A o \in Objs : objs'[o].at \in Early => o # p /\ objs[o].at \in Early
  PROVE  WaitInv'
<1>1. newProcess \in ProcessStates /\ newProcess.alive /\ newProcess.count = 1 /\ ~newProcess.called
  <2>1. NoProcess \in ProcessStates /\ NoProcess.called = FALSE
    BY DEF NoProcess, ProcessStates
  <2>2. newProcess \in ProcessStates
    BY <2>1, 1 \in Int, Zenon DEF newProcess, ProcessStates
  <2>3. newProcess.alive /\ newProcess.count = 1 /\ newProcess.called = NoProcess.called
    BY <2>1, Zenon DEF newProcess, ProcessStates
  <2> QED  BY <2>1, <2>2, <2>3, Zenon
<1>2. procs' \in [Procs -> ProcessStates] /\
        \A q \in Procs : procs'[q] = IF q = p THEN newProcess ELSE procs[q]
  BY <1>1, Zenon DEF WaitInv, SetProc
<1>3. \A q : Waiting(q)' = Waiting(q)
  BY Zenon DEF Waiting
<1>4. newProcess # NoProcess
  BY Zenon DEF NoProcess, newProcess
<1>5. Cardinality(Waiting(p)) = 0
  BY FS_EmptySet, Zenon DEF WaitInv
<1>6. CountExact'
  <2> SUFFICES \A q \in Procs : procs'[q] # NoProcess => Exact(procs'[q], Cardinality(Waiting(q)'))
    BY ExactNext, Zenon
  <2> QED  BY <1>1, <1>2, <1>3, <1>5, ExactIs, SMTT(30) DEF WaitInv, Exact
<1>7. \A o \in Objs : o \in Procs
  BY Zenon DEF Procs
<1> QED  BY <1>1, <1>2, <1>3, <1>4, <1>6, <1>7, Zenon DEF WaitInv

\* A container or an exec is started: its process counts the cleanup alone.
LEMMA BeginWaits ==
  ASSUME PodInv, WaitInv, [Next]_vars,
         (\E o \in Objs : Build(o)) \/ (\E e \in Execs : ExecProcess(e))
  PROVE  WaitInv'
<1>1. ASSUME NEW o \in Objs, Build(o) PROVE WaitInv'
  <2>1. procs[o] = NoProcess /\ o \in Procs
    BY <1>1, Zenon DEF WaitInv, Build, Placed, Early, Procs
  <2>2. objs[o] \in ObjectStates
    BY Zenon DEF PodInv, TablesOK
  <2>3. objs'[o].at = "Built"
    BY <1>1, <2>2, Zenon DEF PodInv, TablesOK, ObjectStates, Build, SetObj
  <2>4. \A q \in Objs : objs'[q].at \in Early => q # o /\ objs[q].at \in Early
    BY <2>3, ObjectsOnward, Zenon DEF Onward, Early
  <2> QED  BY <1>1, <2>1, <2>4, ProcessBegins, Zenon DEF Build
<1>2. ASSUME NEW e \in Execs, ExecProcess(e) PROVE WaitInv'
  <2>1. e \in Procs /\ e \notin Objs
    BY GuestAssumption, Zenon DEF Procs
  <2>2. \A q \in Objs : objs'[q].at \in Early => q # e /\ objs[q].at \in Early
    BY <2>1, ObjectsOnward, Zenon DEF Onward
  <2> QED  BY <1>2, <2>1, <2>2, ProcessBegins, Zenon DEF ExecProcess
<1> QED  BY <1>1, <1>2, Zenon

\* A process exits, and those that waited for it wake up.
LEMMA ExitWaits ==
  ASSUME WaitInv, Onward, NEW p \in Procs,
         ProcessExits(p) \/ \E g \in {"cleanup", "announce"} : Resume(p, g)
  PROVE  WaitInv'
<1>1. procs[p] \in ProcessStates /\ UNCHANGED waits
  BY Zenon DEF WaitInv, ProcessExits, Resume
<1>2. CASE ProcessExits(p)
  <2>1. PICK r \in ProcessStates : r = [procs[p] EXCEPT !.alive = FALSE, !.exited = TRUE]
    BY <1>1, Zenon DEF ProcessStates
  <2>2. r.exited /\ r.count = procs[p].count /\ r.called = procs[p].called /\ SetProc(p, r)
    BY <1>1, <1>2, <2>1, Zenon DEF ProcessStates, ProcessExits
  <2>3. procs[p] # NoProcess
    BY <1>2, SMTT(30) DEF ProcessExits, NoProcess
  <2> QED  BY <1>1, <2>1, <2>2, <2>3, ProcessMoves, Zenon
<1>3. ASSUME NEW g \in {"cleanup", "announce"}, Resume(p, g) PROVE WaitInv'
  <2>1. CASE UNCHANGED procs
    BY <1>1, <2>1, SMTT(30) DEF WaitInv, Onward, CountExact, Waiting
  <2>2. CASE procs[p] = NoProcess
    <3>1. g = "announce"
      BY <1>3, <2>2 DEF Resume, Blocked, NoProcess
    <3>2. [procs[p] EXCEPT !.woken = @ \ {g}, !.freed = @ \/ g = "cleanup"] = procs[p]
      <4>1. procs[p].woken = {} /\ procs[p].freed = FALSE
        BY <2>2, SMTT(30) DEF NoProcess
      <4>2. procs[p].woken \ {g} = procs[p].woken
        BY <4>1, Zenon
      <4>3. (procs[p].freed \/ g = "cleanup") = procs[p].freed
        BY <3>1, <4>1, Zenon
      <4> QED  BY <1>1, <4>2, <4>3, Zenon DEF ProcessStates
    <3> QED  BY <1>3, <2>1, <3>2, SMTT(30) DEF Resume, SetProc, WaitInv
  <2>3. CASE procs[p] # NoProcess /\
               SetProc(p, [procs[p] EXCEPT !.woken = @ \ {g}, !.freed = @ \/ g = "cleanup"])
    <3>1. PICK r \in ProcessStates : r = [procs[p] EXCEPT !.woken = @ \ {g}, !.freed = @ \/
                 g = "cleanup"]
      BY <1>1, Zenon DEF ProcessStates
    <3>2. /\ r.alive = procs[p].alive /\ r.exited = procs[p].exited
          /\ r.count = procs[p].count /\ r.called = procs[p].called
      BY <1>1, <3>1, Zenon DEF ProcessStates
    <3> QED  BY <1>1, <2>3, <3>1, <3>2, ProcessMoves, Zenon DEF WaitInv
  <2> QED  BY <1>3, <2>1, <2>2, <2>3, Zenon DEF Resume
<1> QED  BY <1>2, <1>3, Zenon

\* One wait more.
LEMMA CardAdded ==
  ASSUME NEW p, NEW w \in Waits, w \notin Waiting(p)
  PROVE  Cardinality(Waiting(p) \cup {w}) = Cardinality(Waiting(p)) + 1
BY WaitingFinite, FS_AddElement, Zenon

\* One wait less.
LEMMA CardRemoved ==
  ASSUME NEW p, NEW w \in Waiting(p)
  PROVE  Cardinality(Waiting(p) \ {w}) = Cardinality(Waiting(p)) - 1
BY WaitingFinite, FS_RemoveElement, Zenon

\* A wait begins or ends, and its process counts that.
LEMMA WaitMoves ==
  ASSUME WaitInv, Onward, NEW w \in Waits, NEW u \in WaitStates, waits' = [waits EXCEPT ![w] = u],
         u.waiter # "None",
         NEW r \in ProcessStates, SetProc(WaitOn[w], r),
         procs[WaitOn[w]] # NoProcess, r.alive \/ r.exited,
         Exact(r, Cardinality(Waiting(WaitOn[w])'))
  PROVE  WaitInv'
<1> DEFINE p == WaitOn[w]
<1>0. p \in Procs
  BY GuestAssumption, Zenon
<1>1. procs' \in [Procs -> ProcessStates] /\
        \A q \in Procs : procs'[q] = IF q = p THEN r ELSE procs[q]
  BY <1>0, Zenon DEF WaitInv, SetProc
<1>2. waits' \in [Waits -> WaitStates] /\ \A v \in Waits : waits'[v] = IF v = w THEN u ELSE waits[v]
  BY Zenon DEF WaitInv
<1>3. \A q : q # p => Waiting(q)' = Waiting(q)
  BY <1>2, Zenon DEF Waiting
<1>4. r # NoProcess
  BY SMTT(30) DEF NoProcess
<1>5. CountExact'
  <2> SUFFICES \A q \in Procs : procs'[q] # NoProcess => Exact(procs'[q], Cardinality(Waiting(q)'))
    BY ExactNext, Zenon
  <2> QED  BY <1>1, <1>3, ExactIs, Zenon DEF WaitInv
<1>6. \A o \in Objs : o \in Procs
  BY Zenon DEF Procs
<1> QED  BY <1>1, <1>2, <1>3, <1>4, <1>5, <1>6, SMTT(30) DEF WaitInv, Onward

\* A wait begins: the counter goes up with it.
LEMMA WaitOnProcessWaits ==
  ASSUME WaitInv, Onward, NEW w \in Waits, WaitOnProcess(w)
  PROVE  WaitInv'
<1> DEFINE p == WaitOn[w]
           u == [handler |-> "Open", waiter |-> "Select"]
<1>1. /\ p \in Procs /\ procs[p] \in ProcessStates /\ waits[w] = NoWait /\ procs[p] # NoProcess
      /\ waits' = [waits EXCEPT ![w] = u]
  BY GuestAssumption, Zenon DEF WaitInv, WaitOnProcess
<1>2. PICK r \in ProcessStates : r = [procs[p] EXCEPT !.count = @ + 1]
  <2>1. procs[p].count + 1 \in Int
    BY <1>1, SMTT(30) DEF ProcessStates
  <2> QED  BY <1>1, <2>1, Zenon DEF ProcessStates
<1>3. /\ r.alive = procs[p].alive /\ r.exited = procs[p].exited
      /\ r.count = procs[p].count + 1 /\ r.called = procs[p].called
  BY <1>1, <1>2, Zenon DEF ProcessStates
<1>4. w \notin Waiting(p) /\ Waiting(p)' = Waiting(p) \cup {w}
  BY <1>1, SMTT(30) DEF Waiting, NoWait, WaitInv
<1>5. Cardinality(Waiting(p)') = Cardinality(Waiting(p)) + 1
  BY <1>4, CardAdded, Zenon
<1>6. Exact(r, Cardinality(Waiting(p)'))
  <2>1. procs[p].count = Cardinality(Waiting(p)) + IF procs[p].called THEN 0 ELSE 1
    BY <1>1, ExactIs, Zenon DEF WaitInv, Exact
  <2> QED  BY <1>1, <1>3, <1>5, <2>1, WaitingFinite, SMTT(30) DEF Exact, ProcessStates
<1>7. u \in WaitStates /\ u.waiter # "None" /\ SetProc(p, r)
  BY <1>2, Zenon DEF WaitStates, WaitOnProcess
<1> QED  BY <1>1, <1>3, <1>6, <1>7, WaitMoves, Zenon DEF WaitInv

\* A wait ends: the counter goes down with it, by two when it is the first to
\* have read the exit code.
LEMMA WaitReleasesWaits ==
  ASSUME WaitInv, Onward, NEW w \in Waits, WaitReleases(w)
  PROVE  WaitInv'
<1> DEFINE p == WaitOn[w]
<1>1. /\ p \in Procs /\ procs[p] \in ProcessStates /\ waits[w] \in WaitStates
      /\ waits' = [waits EXCEPT ![w].waiter = "Gone"]
  BY GuestAssumption, Zenon DEF WaitInv, WaitReleases
<1>2. w \in Waiting(p)
  BY <1>1 DEF WaitInv, WaitReleases, Waiting, WaitStates, NoWait
<1>3. procs[p] # NoProcess
  BY <1>1, <1>2, Zenon DEF WaitInv
<1>4. PICK u \in WaitStates : u = [waits[w] EXCEPT !.waiter = "Gone"]
  BY <1>1, Zenon DEF WaitStates
<1>5. u.waiter = "Gone" /\ waits' = [waits EXCEPT ![w] = u]
  BY <1>1, <1>4, Zenon DEF WaitStates
<1>6. Waiting(p)' = Waiting(p) \ {w}
  BY <1>1, <1>5, Zenon DEF Waiting, WaitInv
<1>7. Cardinality(Waiting(p)') = Cardinality(Waiting(p)) - 1
  BY <1>2, <1>6, CardRemoved, Zenon
<1>8. PICK first \in BOOLEAN : first <=> waits[w].waiter = "Code" /\ ~procs[p].called
  BY Zenon
<1>9. SetProc(p, IF first THEN Done(p, 2, TRUE) ELSE Done(p, 1, procs[p].called))
  BY <1>8, Zenon DEF WaitReleases
<1>10. Blocked(p) \in SUBSET {"cleanup", "announce"}
  BY Zenon DEF Blocked
<1>11. PICK r \in ProcessStates : r = IF first THEN Done(p, 2, TRUE) ELSE Done(p, 1,
              procs[p].called)
  <2>1. \A n \in {1, 2} : procs[p].count - n \in Int
    BY <1>1, SMTT(30) DEF ProcessStates
  <2>2. procs[p].called \in BOOLEAN /\ procs[p].woken \in SUBSET {"cleanup", "announce"}
    BY <1>1, Zenon DEF ProcessStates
  <2>3. \A n : (IF procs[p].count = n THEN Blocked(p) ELSE procs[p].woken) \in SUBSET {"cleanup",
          "announce"}
    BY <1>10, <2>2, Zenon
  <2>4. Done(p, 2, TRUE) \in ProcessStates
    BY <1>1, <2>1, <2>2, <2>3, Zenon DEF Done, ProcessStates
  <2>5. Done(p, 1, procs[p].called) \in ProcessStates
    BY <1>1, <2>1, <2>2, <2>3, Zenon DEF Done, ProcessStates
  <2> QED  BY <2>4, <2>5, Zenon
<1>12. /\ r.alive = procs[p].alive /\ r.exited = procs[p].exited
       /\ r.count = procs[p].count - (IF first THEN 2 ELSE 1) /\
            r.called = (first \/ procs[p].called)
  BY <1>1, <1>11, Zenon DEF ProcessStates, Done
<1>13. Exact(r, Cardinality(Waiting(p)'))
  <2>1. procs[p].count = Cardinality(Waiting(p)) + IF procs[p].called THEN 0 ELSE 1
    BY <1>1, <1>3, ExactIs, Zenon DEF WaitInv, Exact
  <2>2. first => ~procs[p].called
    BY <1>8, Zenon
  <2> QED  BY <1>1, <1>7, <1>12, <2>1, <2>2, WaitingFinite, SMTT(30) DEF Exact, ProcessStates
<1>14. SetProc(p, r)
  BY <1>9, <1>11, Zenon
<1>15. r.alive \/ r.exited
  BY <1>1, <1>3, <1>12, Zenon DEF WaitInv
<1> QED  BY <1>3, <1>5, <1>13, <1>14, <1>15, WaitMoves, ZenonT(40)

\* The handler or the goroutine of a wait goes on; the process is not told.
LEMMA WaitGoesOn ==
  ASSUME WaitInv, Onward, NEW w \in Waits, WaitHasCode(w) \/ WaitAnswers(w)
  PROVE  WaitInv'
<1>1. waits[w] \in WaitStates /\ UNCHANGED procs
  BY Zenon DEF WaitInv, WaitHasCode, WaitAnswers
<1>2. /\ \/ waits[w].waiter = "Select" /\ waits' = [waits EXCEPT ![w].waiter = "Code"]
         \/ waits' = [waits EXCEPT ![w].handler = "Answered"]
         \/ waits' = [waits EXCEPT ![w].handler = "TimedOut"]
      /\ waits[w] # NoWait
  BY DEF WaitHasCode, WaitAnswers, NoWait
<1>3. /\ waits' \in [Waits -> WaitStates]
      /\ \A v \in Waits : v # w => waits'[v] = waits[v]
      /\ waits'[w].waiter \in {"Select", "Code"} <=> waits[w].waiter \in {"Select", "Code"}
      /\ waits[w].waiter # "None" => waits'[w].waiter # "None"
  BY <1>1, <1>2, SMTT(30) DEF WaitInv, WaitStates
<1>4. \A q : Waiting(q)' = Waiting(q)
  BY <1>3, Zenon DEF Waiting
<1>5. CountExact'
  <2> SUFFICES \A q \in Procs : procs'[q] # NoProcess => Exact(procs'[q], Cardinality(Waiting(q)'))
    BY ExactNext, Zenon
  <2> QED  BY <1>1, <1>4, ExactIs, Zenon DEF WaitInv
<1> QED  BY <1>1, <1>2, <1>3, <1>4, <1>5, Zenon DEF WaitInv, Onward

\* Every step of the guest keeps WaitInv.
LEMMA WaitStep ==
  ASSUME PodInv, WaitInv, [Next]_vars
  PROVE  WaitInv'
<1>0. Onward
  BY ObjectsOnward, Zenon
<1>1. CASE UNCHANGED <<procs, waits>>
  BY <1>0, <1>1, Zenon DEF WaitInv, Onward, CountExact, Waiting
<1>2. ASSUME NEW o \in Objs, CreateContainer(o) \/ Steps(o) \/ StartContainer(o) \/
               DeleteContainerState(o)
      PROVE  WaitInv'
  <2>1. Build(o) \/ UNCHANGED <<procs, waits>>
    BY <1>2, Zenon
       DEF CreateContainer, StartContainer, DeleteContainerState, Steps, registerSandboxRoot,
         createPodInUVM, createContainerInPod, Created, AssignContainerPid, SyncCreated,
           CreateFails,
         Started, Deleted
  <2> QED  BY <1>1, <2>1, BeginWaits, Zenon
<1>3. ASSUME NEW e \in Execs, ExecProcess(e) PROVE WaitInv'
  BY <1>3, BeginWaits, Zenon
<1>4. ASSUME NEW p \in Procs, ProcessExits(p) \/ \E g \in {"cleanup", "announce"} : Resume(p, g)
      PROVE  WaitInv'
  BY <1>0, <1>4, ExitWaits, Zenon
<1>5. ASSUME NEW w \in Waits, WaitOnProcess(w) \/ WaitAnswers(w) \/ WaitHasCode(w) \/
               WaitReleases(w)
      PROVE  WaitInv'
  BY <1>0, <1>5, WaitOnProcessWaits, WaitGoesOn, WaitReleasesWaits, Zenon
<1>6. ASSUME NEW n \in Nics, AddAdapter(n) \/ AdapterAdded(n) \/ RemoveAdapter(n) PROVE WaitInv'
  BY <1>1, <1>6, Zenon DEF AddAdapter, AdapterAdded, RemoveAdapter
<1>7. CASE ModifyHost \/ UNCHANGED vars
  BY <1>1, <1>7, Zenon DEF ModifyHost, hostVars, vars
<1> QED  BY <1>2, <1>3, <1>4, <1>5, <1>6, <1>7, Zenon DEF Next, Background

\* The counter of a process is always the waits for it that are not over and
\* one more until an exit code was delivered (containerProcess.Wait).
THEOREM CountAlwaysExact == Spec => []CountExact
<1>1. Init => PodInv /\ WaitInv
  BY PodInit, WaitInit, Zenon
<1>2. PodInv /\ WaitInv /\ [Next]_vars => PodInv' /\ WaitInv'
  BY PodStep, WaitStep, Zenon
<1>3. WaitInv => CountExact
  BY Zenon DEF WaitInv
<1> QED  BY <1>1, <1>2, <1>3, PTL DEF Spec
-----------------------------------------------------------------------------
(* The network namespace and its adapters.                                  *)

\* The shape of the network namespace.
NamespaceStates ==
    [known : BOOLEAN, pid : Objs \cup {None}, nics : Seq(Nics), moved : SUBSET Nics,
     adding : SUBSET Nics, answered : SUBSET Nics]

\* An adapter that is being added, or was, is listed; the namespace has the
\* process of a container that got to the assignment.
NetInv ==
    /\ ns \in NamespaceStates
    /\ ns.answered \subseteq Range(ns.nics) /\ ns.adding \subseteq Range(ns.nics)
    /\ \A o \in Objs : objs[o].at = "Assigned" => ns.pid = o
    /\ \A o \in Objs : ns.pid = o => objs[o].at \in {"Assigned", "Done", "Failed"}
    /\ AdaptersMoved

\* A guest that has just started has no adapter.
LEMMA NetInit == Init => NetInv
<1> SUFFICES ASSUME Init PROVE NetInv
  BY Zenon
<1>1. ns \in NamespaceStates /\ ns.answered = {} /\ ns.adding = {} /\ ns.pid = None
  BY SMTT(30) DEF Init, NoNamespace, NamespaceStates
<1>2. \A o \in Objs : objs[o].at = "None"
  BY Zenon DEF Init, NoObject
<1> QED  BY <1>1, <1>2, GuestAssumption, ZenonT(40) DEF NetInv, AdaptersMoved

\* What is in a sequence is in the longer one.
LEMMA AppendIs ==
  ASSUME NEW S, NEW s \in Seq(S), NEW e \in S
  PROVE  /\ Append(s, e) \in Seq(S) /\ Range(s) \subseteq Range(Append(s, e)) /\
              e \in Range(Append(s, e))
<1>1. /\ Append(s, e) \in Seq(S) /\ Len(Append(s, e)) = Len(s) + 1
      /\ \A i \in 1 .. Len(s) : Append(s, e)[i] = s[i]
      /\ Append(s, e)[Len(s) + 1] = e
  OBVIOUS
<1>2. DOMAIN s = 1 .. Len(s) /\ DOMAIN Append(s, e) = 1 .. (Len(s) + 1) /\ Len(s) \in Nat
  BY <1>1, SMTT(30)
<1> QED  BY <1>1, <1>2, SMTT(30) DEF Range

\* A sequence without one of its elements has all the others.
LEMMA RemovedAt ==
  ASSUME NEW S, NEW s \in Seq(S), NEW i \in DOMAIN s
  PROVE  Without(s, i) \in Seq(S) /\ Range(s) \ {s[i]} \subseteq Range(Without(s, i))
<1>1. /\ SubSeq(s, 1, i - 1) \in Seq(S) /\ Len(SubSeq(s, 1, i - 1)) = i - 1
      /\ \A j \in 1 .. (i - 1) : SubSeq(s, 1, i - 1)[j] = s[j]
      /\ SubSeq(s, i + 1, Len(s)) \in Seq(S) /\ Len(SubSeq(s, i + 1, Len(s))) = Len(s) - i
      /\ \A j \in 1 .. (Len(s) - i) : SubSeq(s, i + 1, Len(s))[j] = s[i + j]
  BY SMTT(30)
<1> HIDE DEF Without
<1>2. PICK a, b \in Seq(S) : a = SubSeq(s, 1, i - 1) /\ b = SubSeq(s, i + 1, Len(s))
  BY <1>1, Zenon
<1>3. Without(s, i) = a \o b
  BY <1>2, Zenon DEF Without
<1>4. /\ a \o b \in Seq(S) /\ DOMAIN (a \o b) = 1 .. (Len(a) + Len(b)) /\ Len(a) \in Nat /\
           Len(b) \in Nat
      /\ \A k \in 1 .. Len(a) : (a \o b)[k] = a[k]
      /\ \A k \in 1 .. Len(b) : (a \o b)[Len(a) + k] = b[k]
  BY SMTT(30)
<1>5. i \in 1 .. Len(s) /\ Len(s) \in Nat /\ DOMAIN s = 1 .. Len(s)
  BY SMTT(30)
<1>6. ASSUME NEW j \in DOMAIN s, j # i PROVE \E k \in DOMAIN (a \o b) : (a \o b)[k] = s[j]
  <2>1. CASE j < i
    <3>1. j \in 1 .. Len(a) /\ a[j] = s[j]
      BY <1>1, <1>2, <1>5, <2>1, SMTT(30)
    <3> QED  BY <1>4, <3>1, SMTT(30)
  <2>2. CASE j > i
    <3>1. PICK k \in 1 .. Len(b) : j = i + k
      <4>1. j - i \in 1 .. Len(b) /\ j = i + (j - i)
        BY <1>1, <1>2, <1>5, <2>2, SMTT(30)
      <4> QED  BY <4>1, Zenon
    <3>2. b[k] = s[j]
      BY <1>1, <1>2, <3>1, Zenon
    <3>3. Len(a) + k \in DOMAIN (a \o b)
      BY <1>4, <3>1, SMTT(30)
    <3> QED  BY <1>4, <3>2, <3>3, Zenon
  <2> QED  BY <1>5, <1>6, <2>1, <2>2, SMTT(30)
<1>7. ASSUME NEW x \in Range(s) \ {s[i]} PROVE x \in Range(a \o b)
  <2>1. PICK j \in DOMAIN s : x = s[j] /\ j # i
    BY Zenon DEF Range
  <2> QED  BY <1>6, <2>1, Zenon DEF Range
<1> QED  BY <1>3, <1>4, <1>7, Zenon

\* Sync moves only adapters of the namespace, and all of them when it ends
\* without an error and there is a process to move them to.
LEMMA SyncMoves ==
  ASSUME NetInv
  PROVE  /\ Movable \in SUBSET Nics
         /\ Synced /\ ns.pid # None => Range(ns.nics) \subseteq Movable
         /\ \A failed \in SyncFails : \E m \in SUBSET Nics : failed = [ns EXCEPT !.moved = @ \cup m]
<1>1. ns.nics \in Seq(Nics)
  BY Zenon DEF NetInv, NamespaceStates
<1>2. Movable \in SUBSET Nics
  BY <1>1, SMTT(30) DEF Movable
<1>3. ASSUME Synced, ns.pid # None PROVE Range(ns.nics) \subseteq Movable
  <2>1. CASE ns.nics = <<>>
    <3>1. Range(ns.nics) = {}
      BY <2>1 DEF Range
    <3> QED  BY <3>1, Zenon
  <2>2. CASE ns.nics # <<>>
    <3>1. {i \in DOMAIN ns.nics : ns.nics[i] \in ns.moved} = {}
      BY <1>1, <1>3, <2>2, Zenon DEF Synced, Range
    <3>2. procs[ns.pid].alive
      BY <1>3, <2>2, Zenon DEF Synced
    <3> QED  BY <1>1, <1>3, <3>1, <3>2, Zenon DEF Movable, Range
  <2> QED  BY <2>1, <2>2, Zenon
<1>4. ASSUME NEW failed \in SyncFails
      PROVE  \E m \in SUBSET Nics : failed = [ns EXCEPT !.moved = @ \cup m]
  <2>1. PICK m : m \subseteq Movable /\ failed = [ns EXCEPT !.moved = @ \cup m]
    BY <1>4, Zenon DEF SyncFails
  <2> QED  BY <1>2, <2>1, Zenon
<1> QED  BY <1>2, <1>3, <1>4, Zenon

\* The namespace stays: an object that has it keeps its stage and is not
\* brought to life.
LEMMA NetKept ==
  ASSUME NetInv, UNCHANGED ns,
         \A o \in Objs : \/ objs'[o].at = objs[o].at /\ (procs'[o].alive => procs[o].alive)
                         \/ ns.pid # o /\ objs'[o].at # "Assigned"
                         \/ objs[o].at = "Assigned" /\ objs'[o].at = "Failed"
  PROVE  NetInv'
BY Zenon DEF NetInv, AdaptersMoved

\* The namespace changes, and the containers do not.
LEMMA NetChanges ==
  ASSUME NetInv, UNCHANGED <<objs, procs>>, ns' \in NamespaceStates, ns'.pid = ns.pid,
         ns'.answered \subseteq Range(ns'.nics), ns'.adding \subseteq Range(ns'.nics),
         ns.pid # None /\ procs[ns.pid].alive /\ ns.answered \subseteq ns.moved =>
           ns'.answered \subseteq ns'.moved
  PROVE  NetInv'
BY GuestAssumption, Zenon DEF NetInv, AdaptersMoved

\* An adapter is added, in two steps, or removed.
LEMMA AdapterNet ==
  ASSUME NetInv, NEW n \in Nics, AddAdapter(n) \/ AdapterAdded(n) \/ RemoveAdapter(n)
  PROVE  NetInv'
<1>1. UNCHANGED <<objs, procs>> /\ ns \in NamespaceStates /\ ns.nics \in Seq(Nics)
  BY ZenonT(40) DEF AddAdapter, AdapterAdded, RemoveAdapter, NetInv, NamespaceStates
<1>2. CASE AddAdapter(n)
  <2>1. /\ Append(ns.nics, n) \in Seq(Nics) /\ Range(ns.nics) \subseteq Range(Append(ns.nics, n))
        /\ n \in Range(Append(ns.nics, n))
    BY <1>1, AppendIs, Zenon
  <2>2. ns' = [ns EXCEPT !.known = TRUE, !.nics = Append(@, n), !.adding = @ \cup {n}]
    BY <1>2, Zenon DEF AddAdapter
  <2>3. /\ ns' \in NamespaceStates /\ ns'.pid = ns.pid /\ ns'.nics = Append(ns.nics, n)
        /\ ns'.adding = ns.adding \cup {n} /\ ns'.answered = ns.answered /\ ns'.moved = ns.moved
    BY <1>1, <2>1, <2>2, Zenon DEF NamespaceStates
  <2> QED  BY <1>1, <2>1, <2>3, NetChanges, Zenon DEF NetInv
<1>3. CASE AdapterAdded(n)
  <2>1. PICK m \in SUBSET Nics, a \in {ns.answered, ns.answered \cup {n}} :
          /\ ns' = [[ns EXCEPT !.moved = @ \cup m] EXCEPT !.adding = @ \ {n}, !.answered = a]
          /\ n \in ns.adding
          /\ a # ns.answered => Synced /\ m = Movable
    <3>1. n \in ns.adding
      BY <1>3, Zenon DEF AdapterAdded
    <3>2. CASE Synced /\ ns' = [Sync EXCEPT !.adding = @ \ {n}, !.answered = @ \cup {n}]
      <4>1. PICK m \in SUBSET Nics : m = Movable
        BY SyncMoves, Zenon
      <4>2. ns' = [[ns EXCEPT !.moved = @ \cup m] EXCEPT !.adding = @ \ {n},
                     !.answered = ns.answered \cup {n}]
        BY <1>1, <3>2, <4>1, Zenon DEF Sync, NamespaceStates
      <4> QED  BY <3>1, <3>2, <4>1, <4>2, Zenon
    <3>3. CASE \E failed \in SyncFails : ns' = [failed EXCEPT !.adding = @ \ {n}]
      <4>0. PICK failed \in SyncFails : ns' = [failed EXCEPT !.adding = @ \ {n}]
        BY <3>3, Zenon
      <4>1. PICK m \in SUBSET Nics : failed = [ns EXCEPT !.moved = @ \cup m]
        BY SyncMoves, Zenon
      <4>2. ns' = [[ns EXCEPT !.moved = @ \cup m] EXCEPT !.adding = @ \ {n},
                     !.answered = ns.answered]
        BY <1>1, <4>0, <4>1, Zenon DEF NamespaceStates
      <4> QED  BY <3>1, <4>2, Zenon
    <3> QED  BY <1>3, <3>2, <3>3, Zenon DEF AdapterAdded
  <2>2. a \in SUBSET Nics /\ a \subseteq Range(ns.nics)
    BY <1>1, <2>1, Zenon DEF NamespaceStates, NetInv
  <2>3. /\ ns' \in NamespaceStates /\ ns'.pid = ns.pid /\ ns'.nics = ns.nics
        /\ ns'.adding = ns.adding \ {n} /\ ns'.answered = a /\ ns'.moved = ns.moved \cup m
    BY <1>1, <2>1, <2>2, ZenonT(40) DEF NamespaceStates
  <2>4. CASE a # ns.answered
    BY <1>1, <2>1, <2>2, <2>3, <2>4, NetChanges, SyncMoves, Zenon DEF NetInv
  <2>5. CASE a = ns.answered
    BY <1>1, <2>2, <2>3, <2>5, NetChanges, Zenon DEF NetInv
  <2> QED  BY <2>4, <2>5, Zenon
<1>4. CASE RemoveAdapter(n)
  <2>1. PICK i \in DOMAIN ns.nics : /\ ns.nics[i] = n
          /\ ns' = [ns EXCEPT !.nics = Without(@, i), !.moved = @ \ {n}, !.answered = @ \ {n}]
    BY <1>4, Zenon DEF RemoveAdapter
  <2>2. Without(ns.nics, i) \in Seq(Nics) /\
          Range(ns.nics) \ {n} \subseteq Range(Without(ns.nics, i))
    BY <1>1, <2>1, RemovedAt, Zenon
  <2>3. PICK s \in Seq(Nics) : s = Without(ns.nics, i)
    BY <2>2, Zenon
  <2>4. ns' = [ns EXCEPT !.nics = s, !.moved = @ \ {n}, !.answered = @ \ {n}]
    BY <2>1, <2>3, Zenon
  <2>5. /\ ns' \in NamespaceStates /\ ns'.pid = ns.pid /\ ns'.nics = s
        /\ ns'.adding = ns.adding /\ ns'.answered = ns.answered \ {n} /\ ns'.moved = ns.moved \ {n}
    BY <1>1, <2>4, Zenon DEF NamespaceStates
  <2>6. n \notin ns.adding
    BY <1>4, Zenon DEF RemoveAdapter
  <2> QED  BY <1>1, <2>2, <2>3, <2>5, <2>6, NetChanges, Zenon DEF NetInv
<1> QED  BY <1>2, <1>3, <1>4, Zenon

\* A creation assigns the namespace to its container and moves the adapters.
LEMMA CreateNet ==
  ASSUME PodInv, WaitInv, NetInv, NEW o \in Objs,
         CreateContainer(o) \/ Steps(o) \/ StartContainer(o) \/ DeleteContainerState(o)
  PROVE  NetInv'
<1>1. /\ objs \in [Objs -> ObjectStates] /\ procs \in [Procs -> ProcessStates] /\ o \in Procs
      /\ objs[o] \in ObjectStates /\ ns \in NamespaceStates /\ None \notin Objs
  BY GuestAssumption, Zenon DEF PodInv, TablesOK, WaitInv, NetInv, Procs
<1>2. \A x : [objs[o] EXCEPT !.at = x].at = x
  BY <1>1, Zenon DEF ObjectStates
<1>13. [objs[o] EXCEPT !.at = "Done", !.status = "Created"].at = "Done"
  BY <1>1, Zenon DEF ObjectStates
<1>3. \A r : SetObj(o, r) => objs'[o] = r /\ \A q \in Objs : q # o => objs'[q] = objs[q]
  BY <1>1, Zenon DEF SetObj
<1>4. ASSUME NEW x \in {"Added", "Rooted", "Placed", "Failed"},
               SetObj(o, [objs[o] EXCEPT !.at = x]),
             UNCHANGED <<ns, procs>>,
             objs[o].at \in {"None", "Added", "Rooted", "Placed", "Built"} \/
               (objs[o].at = "Assigned" /\ x = "Failed")
      PROVE  NetInv'
  <2>1. objs'[o].at = x /\ \A q \in Objs : q # o => objs'[q].at = objs[q].at
    BY <1>2, <1>3, <1>4, Zenon
  <2>2. ns.pid # o \/ objs[o].at = "Assigned"
    BY <1>4, Zenon DEF NetInv
  <2> QED  BY <1>4, <2>1, <2>2, NetKept, Zenon
<1>5. CASE CreateContainer(o) \/ registerSandboxRoot(o) \/ createPodInUVM(o) \/
             createContainerInPod(o)
  BY <1>4, <1>5, Zenon
     DEF CreateContainer, registerSandboxRoot, createPodInUVM, createContainerInPod
<1>6. CASE Build(o)
  <2>1. objs[o].at \in {"Placed", "Added"} /\ UNCHANGED ns
    BY <1>6, Zenon DEF Build, Placed
  <2>2. objs'[o].at = "Built" /\ \A q \in Objs : q # o => objs'[q] = objs[q] /\ procs'[q] = procs[q]
    BY <1>1, <1>2, <1>3, <1>6, ZenonT(40) DEF Build, SetProc, Procs
  <2> QED  BY <2>1, <2>2, NetKept, Zenon DEF NetInv
<1>7. CASE Created(o)
  <2>1. objs[o].at = "Built" /\ UNCHANGED <<ns, procs>>
    BY <1>7, Zenon DEF Created
  <2>2. objs'[o].at = "Done" /\ \A q \in Objs : q # o => objs'[q] = objs[q]
    BY <1>3, <1>7, <1>13, Zenon DEF Created
  <2> QED  BY <2>1, <2>2, NetKept, Zenon DEF NetInv
<1>8. CASE AssignContainerPid(o)
  <2>1. /\ objs[o].at = "Built" /\ ns.pid = None /\ ns' = [ns EXCEPT !.pid = o] /\ UNCHANGED procs
        /\ SetObj(o, [objs[o] EXCEPT !.at = "Assigned"])
    BY <1>8, Zenon DEF AssignContainerPid
  <2>2. objs'[o].at = "Assigned" /\ \A q \in Objs : q # o => objs'[q] = objs[q]
    BY <1>2, <1>3, <2>1, Zenon
  <2>3. /\ ns' \in NamespaceStates /\ ns'.pid = o /\ ns'.nics = ns.nics
        /\ ns'.adding = ns.adding /\ ns'.answered = ns.answered /\ ns'.moved = ns.moved
    BY <1>1, <2>1, ZenonT(40) DEF NamespaceStates
  <2> QED  BY <1>1, <2>1, <2>2, <2>3, Zenon DEF NetInv, AdaptersMoved
<1>9. CASE (SyncCreated(o) \/ CreateFails(o)) /\ objs[o].at = "Assigned"
  <2>1. PICK m \in SUBSET Nics : m = Movable
    BY SyncMoves, Zenon
  <2>2. ns.pid = o
    BY <1>9, Zenon DEF NetInv
  <2>3. \/ SyncCreated(o) /\ Synced /\ ns' = [ns EXCEPT !.moved = @ \cup m]
        \/ CreateFails(o) /\ \E f \in SUBSET Nics : ns' = [ns EXCEPT !.moved = @ \cup f]
    <3>1. SyncCreated(o) \/ (CreateFails(o) /\ ns' \in SyncFails)
      BY <1>9, Zenon DEF CreateFails
    <3>2. SyncCreated(o) => Synced /\ ns' = [ns EXCEPT !.moved = @ \cup m]
      BY <2>1, Zenon DEF SyncCreated, Sync
    <3> QED  BY <3>1, <3>2, SyncMoves, Zenon
  <2>4. UNCHANGED procs
    BY <1>9, Zenon DEF SyncCreated, CreateFails
  <2>5. /\ ns' \in NamespaceStates /\ ns'.pid = o /\ ns'.nics = ns.nics /\ ns'.adding = ns.adding
        /\ ns'.answered = ns.answered
        /\ SyncCreated(o) /\ ~CreateFails(o) => Synced /\ ns'.moved = ns.moved \cup m
    BY <1>1, <2>2, <2>3, Zenon DEF NamespaceStates
  <2>6. \A q \in Objs : q # o => objs'[q] = objs[q]
    BY <1>3, <1>9, Zenon DEF SyncCreated, CreateFails
  <2>7. CASE CreateFails(o)
    <3>1. objs'[o].at = "Failed"
      BY <1>2, <1>3, <2>7, ZenonT(40) DEF CreateFails
    <3> QED  BY <1>1, <2>2, <2>5, <2>6, <3>1, ZenonT(40) DEF NetInv, AdaptersMoved
  <2>8. CASE SyncCreated(o) /\ ~CreateFails(o)
    <3>1. objs'[o].at = "Done"
      BY <1>3, <1>13, <2>8, ZenonT(40) DEF SyncCreated
    <3>2. ns'.answered \subseteq ns'.moved
      BY <1>1, <2>1, <2>2, <2>5, <2>8, SyncMoves, ZenonT(40) DEF NetInv
    <3> QED  BY <1>1, <2>2, <2>5, <2>6, <3>1, <3>2, ZenonT(40) DEF NetInv, AdaptersMoved
  <2> QED  BY <1>9, <2>7, <2>8, Zenon
<1>10. CASE CreateFails(o) /\ objs[o].at # "Assigned"
  BY <1>4, <1>10, Zenon DEF CreateFails
<1>11. CASE StartContainer(o) \/ Started(o) \/ DeleteContainerState(o) \/ Deleted(o)
  <2>1. PICK r \in {[objs[o] EXCEPT !.started = TRUE, !.starting = TRUE],
                    [objs[o] EXCEPT !.starting = FALSE, !.status = "Running"],
                    [objs[o] EXCEPT !.deleting = TRUE],
                      [objs[o] EXCEPT !.deleting = FALSE]} : SetObj(o, r)
    BY <1>11, Zenon DEF StartContainer, Started, DeleteContainerState, Deleted
  <2>2. r.at = objs[o].at
    BY <1>1, <2>1, ZenonT(40) DEF ObjectStates
  <2>3. UNCHANGED <<ns, procs>>
    BY <1>11, Zenon DEF StartContainer, Started, DeleteContainerState, Deleted
  <2> QED  BY <1>3, <2>1, <2>2, <2>3, NetKept, Zenon
<1>12. SyncCreated(o) => objs[o].at = "Assigned"
  BY Zenon DEF SyncCreated
<1> QED  BY <1>5, <1>6, <1>7, <1>8, <1>9, <1>10, <1>11, <1>12, ZenonT(40) DEF Steps

\* Processes: the adapters return when the process that has them exits.
LEMMA ProcessNet ==
  ASSUME PodInv, WaitInv, NetInv, NEW p \in Procs,
         ProcessExits(p) \/ \E g \in {"cleanup", "announce"} : Resume(p, g)
  PROVE  NetInv'
<1>1. /\ objs \in [Objs -> ObjectStates] /\ procs \in [Procs -> ProcessStates] /\
           procs[p] \in ProcessStates
      /\ ns \in NamespaceStates /\ None \notin Objs /\ \A o \in Objs : o \in Procs
  BY GuestAssumption, Zenon DEF PodInv, TablesOK, WaitInv, NetInv, Procs
<1>2. \A o \in Objs : objs'[o].at = objs[o].at
  <2>1. CASE p \in Objs
    <3>1. UNCHANGED objs \/ objs' = [objs EXCEPT ![p].status = "Terminated"]
                         \/ objs' = [objs EXCEPT ![p].announced = TRUE]
      BY Zenon DEF ProcessExits, Resume
    <3> QED  BY <1>1, <3>1, SMTT(30) DEF ObjectStates
  <2>2. CASE p \notin Objs
    BY <2>2, Zenon DEF ProcessExits, Resume, Blocked
  <2> QED  BY <2>1, <2>2, Zenon
<1>3. \A q \in Procs : procs'[q].alive => procs[q].alive
  <2>1. UNCHANGED procs \/
          procs' = [procs EXCEPT ![p] = [procs[p] EXCEPT !.alive = FALSE, !.exited = TRUE]]
          \/ \E g \in {"cleanup", "announce"} :
               procs' = [procs EXCEPT ![p] = [procs[p] EXCEPT !.woken = @ \ {g}, !.freed = @ \/
                 g = "cleanup"]]
    BY Zenon DEF ProcessExits, Resume, SetProc
  <2>2. [procs[p] EXCEPT !.alive = FALSE, !.exited = TRUE].alive = FALSE
    BY <1>1, Zenon DEF ProcessStates
  <2>3. \A g : [procs[p] EXCEPT !.woken = @ \ {g}, !.freed = @ \/
          g = "cleanup"].alive = procs[p].alive
    BY <1>1, Zenon DEF ProcessStates
  <2>4. PICK r : procs' = procs \/
               (procs' = [procs EXCEPT ![p] = r] /\ (r.alive = FALSE \/ r.alive = procs[p].alive))
    BY <2>1, <2>2, <2>3, ZenonT(40)
  <2> QED  BY <1>1, <2>4, Zenon
<1>4. CASE ProcessExits(p) /\ ns.pid = p
  <2>1. ns' = [ns EXCEPT !.moved = {}]
    BY <1>4, Zenon DEF ProcessExits
  <2>2. /\ ns' \in NamespaceStates /\ ns'.pid = p /\ ns'.nics = ns.nics /\ ns'.adding = ns.adding
        /\ ns'.answered = ns.answered
    BY <1>1, <1>4, <2>1, Zenon DEF NamespaceStates
  <2>3. ~procs'[p].alive
    <3>1. procs' = [procs EXCEPT ![p] = [procs[p] EXCEPT !.alive = FALSE, !.exited = TRUE]]
      BY <1>4, ZenonT(40) DEF ProcessExits, SetProc
    <3>2. [procs[p] EXCEPT !.alive = FALSE, !.exited = TRUE].alive = FALSE
      BY <1>1, Zenon DEF ProcessStates
    <3> QED  BY <1>1, <3>1, <3>2, Zenon
  <2> QED  BY <1>2, <1>4, <2>2, <2>3, Zenon DEF NetInv, AdaptersMoved
<1>5. CASE UNCHANGED ns
  BY <1>1, <1>2, <1>3, <1>5, NetKept, Zenon
<1> QED  BY <1>4, <1>5, Zenon DEF ProcessExits, Resume

\* Every step of the guest keeps NetInv.
LEMMA NetStep ==
  ASSUME PodInv, WaitInv, NetInv, [Next]_vars
  PROVE  NetInv'
<1>1. CASE UNCHANGED <<objs, procs, ns>>
  BY <1>1, NetKept, Zenon
<1>2. ASSUME NEW o \in Objs, CreateContainer(o) \/ Steps(o) \/ StartContainer(o) \/
               DeleteContainerState(o)
      PROVE  NetInv'
  BY <1>2, CreateNet, Zenon
<1>3. ASSUME NEW e \in Execs, ExecProcess(e) PROVE NetInv'
  <2>1. \A o \in Objs : procs'[o] = procs[o]
    BY <1>3, GuestAssumption, Zenon DEF ExecProcess, SetProc, WaitInv, Procs
  <2>2. UNCHANGED <<objs, ns>>
    BY <1>3, Zenon DEF ExecProcess
  <2> QED  BY <2>1, <2>2, NetKept, Zenon
<1>4. ASSUME NEW p \in Procs, ProcessExits(p) \/ \E g \in {"cleanup", "announce"} : Resume(p, g)
      PROVE  NetInv'
  BY <1>4, ProcessNet, ZenonT(40)
<1>5. ASSUME NEW w \in Waits, WaitOnProcess(w) \/ WaitAnswers(w) \/ WaitHasCode(w) \/
               WaitReleases(w)
      PROVE  NetInv'
  <2>1. UNCHANGED <<objs, ns>>
    BY <1>5, Zenon DEF WaitOnProcess, WaitAnswers, WaitHasCode, WaitReleases
  <2>2. WaitOn[w] \in Procs /\ procs[WaitOn[w]] \in ProcessStates /\ \A o \in Objs : o \in Procs
    BY GuestAssumption, Zenon DEF WaitInv, Procs
  <2>3. \/ UNCHANGED procs
        \/ procs' = [procs EXCEPT ![WaitOn[w]] = [procs[WaitOn[w]] EXCEPT !.count = @ + 1]]
        \/ \E n, called : procs' = [procs EXCEPT ![WaitOn[w]] = Done(WaitOn[w], n, called)]
    BY <1>5, Zenon DEF WaitOnProcess, WaitAnswers, WaitHasCode, WaitReleases, SetProc
  <2>4. [procs[WaitOn[w]] EXCEPT !.count = @ + 1].alive = procs[WaitOn[w]].alive
    BY <2>2, Zenon DEF ProcessStates
  <2>5. \A n, called : Done(WaitOn[w], n, called).alive = procs[WaitOn[w]].alive
    BY <2>2, ZenonT(40) DEF ProcessStates, Done
  <2>6. \A o \in Objs : procs'[o].alive = procs[o].alive
    <3>1. PICK r : procs' = procs \/
                 (procs' = [procs EXCEPT ![WaitOn[w]] = r] /\ r.alive = procs[WaitOn[w]].alive)
      BY <2>3, <2>4, <2>5, ZenonT(40)
    <3> QED  BY <2>2, <3>1, Zenon DEF WaitInv
  <2> QED  BY <2>1, <2>6, NetKept, Zenon
<1>6. ASSUME NEW n \in Nics, AddAdapter(n) \/ AdapterAdded(n) \/ RemoveAdapter(n) PROVE NetInv'
  BY <1>6, AdapterNet, Zenon
<1>7. CASE ModifyHost \/ UNCHANGED vars
  BY <1>1, <1>7, Zenon DEF ModifyHost, hostVars, vars
<1> QED  BY <1>2, <1>3, <1>4, <1>5, <1>6, <1>7, ZenonT(40) DEF Next, Background

\* A created container that lives always has every adapter that was added to
\* its network namespace without an error (modifyNetwork, namespace.Sync).
THEOREM AdaptersAlwaysMoved == Spec => []AdaptersMoved
<1>1. Init => PodInv /\ WaitInv /\ NetInv
  BY PodInit, WaitInit, NetInit, Zenon
<1>2. PodInv /\ WaitInv /\ NetInv /\ [Next]_vars => PodInv' /\ WaitInv' /\ NetInv'
  BY PodStep, WaitStep, NetStep, Zenon
<1>3. NetInv => AdaptersMoved
  BY Zenon DEF NetInv
<1> QED  BY <1>1, <1>2, <1>3, PTL DEF Spec

-----------------------------------------------------------------------------
(* The mounts, and what HostMounts and the policy have of them.             *)

\* The shape of a device of HostMounts, and of the policy's metadata.
DeviceStates ==
    [ty : {"RO", "RW", "Overlay"}, usage : Nat, source : Sources \cup Roots,
     refs : Seq(DevicePaths \cup {NoPath})]

MetadataStates ==
    [devices : SUBSET LayerPaths, rwDevices : SUBSET DiskPaths, overlays : SUBSET Roots,
     shares : SUBSET SharePaths, scratches : SUBSET UsedPaths, matches : SUBSET Ids,
       started : SUBSET Ids]

\* The references of q to p, and all of them.
Own(d, q, p) == {<<q, i>> : i \in {j \in DOMAIN d[q].refs : d[q].refs[j] = p}}
RefsTo(d, p) == UNION {Own(d, q, p) : q \in DOMAIN d}

\* HostMounts: only overlays refer to devices, and to devices that are there.
DevicesOK(d) ==
    /\ d \in [DOMAIN d -> DeviceStates] /\ DOMAIN d \subseteq DevicePaths
    /\ \A p \in DOMAIN d \ Roots : d[p].refs = <<>>
    /\ \A q \in DOMAIN d : \A i \in DOMAIN d[q].refs : d[q].refs[i] \in (DOMAIN d \ Roots) \cup
         {NoPath}
    /\ \A p \in DevicePaths : IsFiniteSet(RefsTo(d, p))
    /\ \A p \in DOMAIN d : d[p].usage = Cardinality(RefsTo(d, p))

\* The kernel: a disk that is mounted is a device, and what an overlay is on
\* is a disk that its device refers to.
IsDisk(m, p) == p \in DOMAIN m \cap (LayerPaths \cup DiskPaths) /\ m[p] \in Sources
Refers(d, q, p) == q \in DOMAIN d /\ \E i \in DOMAIN d[q].refs : d[q].refs[i] = p

\* What is mounted rests on what HostMounts has, but for the disks in u.
Backed(d, m, u) ==
    /\ \A p \in LayerPaths \cup DiskPaths : IsDisk(m, p) => p \in DOMAIN d \cup u
    /\ \A q \in DOMAIN m \cap Roots : \A p \in m[q] : p \in u \/ (IsDisk(m, p) /\ Refers(d, q, p))

\* The inductive invariant.  HostMounts counts references whether or not the
\* guest takes requests; the rest holds while it does.
MountInv ==
    /\ meta \in MetadataStates
    /\ DevicesOK(devices)
    /\ ~uvmError => MetadataAgrees /\ Backed(devices, mounted, untracked)

\* A mount more.
LEMMA PutIs ==
  ASSUME NEW f, NEW path, NEW what
  PROVE  /\ DOMAIN Put(f, path, what) = DOMAIN f \cup {path}
         /\ Put(f, path, what)[path] = what
         /\ \A p \in DOMAIN f : p # path => Put(f, path, what)[p] = f[p]
BY Zenon DEF Put

\* A mount less.
LEMMA DropIs ==
  ASSUME NEW f, NEW path
  PROVE  /\ DOMAIN Drop(f, path) = DOMAIN f \ {path}
         /\ \A p \in DOMAIN f : p # path => Drop(f, path)[p] = f[p]
BY Zenon DEF Drop

\* The references to a device are those of one overlay and of the others.
LEMMA RefsSplit ==
  ASSUME NEW d, NEW e, NEW q, NEW p, DOMAIN e = DOMAIN d \cup {q}, q \notin DOMAIN d,
         \A r \in DOMAIN d : e[r].refs = d[r].refs
  PROVE  /\ RefsTo(e, p) = RefsTo(d, p) \cup Own(e, q, p)
         /\ RefsTo(d, p) \cap Own(e, q, p) = {}
<1>1. \A r \in DOMAIN d : Own(e, r, p) = Own(d, r, p)
  BY Zenon DEF Own
<1>2. \A r \in DOMAIN d : \A x \in Own(d, r, p) : x[1] = r
  BY DEF Own
<1>3. \A x \in Own(e, q, p) : x[1] = q
  BY DEF Own
<1> HIDE DEF Own
<1>4. RefsTo(e, p) = RefsTo(d, p) \cup Own(e, q, p)
  BY <1>1, Zenon DEF RefsTo
<1>5. RefsTo(d, p) \cap Own(e, q, p) = {}
  BY <1>2, <1>3 DEF RefsTo
<1> QED  BY <1>4, <1>5, Zenon

\* The references of one overlay to a path are as many as the path is listed.
LEMMA OwnCounts ==
  ASSUME NEW d, NEW q, NEW p, NEW S, d[q].refs \in Seq(S)
  PROVE  IsFiniteSet(Own(d, q, p)) /\ Cardinality(Own(d, q, p)) = Times(d[q].refs, p)
<1> DEFINE J == {j \in DOMAIN d[q].refs : d[q].refs[j] = p}
<1>1. IsFiniteSet(J)
  <2>1. DOMAIN d[q].refs = 1 .. Len(d[q].refs) /\ Len(d[q].refs) \in Nat
    OBVIOUS
  <2>2. IsFiniteSet(DOMAIN d[q].refs)
    BY <2>1, FS_Interval
  <2> QED  BY <2>2, FS_Subset, Zenon
<1>2. ExistsBijection(J, Own(d, q, p))
  <2> DEFINE f == [i \in J |-> <<q, i>>]
  <2>1. f \in [J -> Own(d, q, p)]
    BY Zenon DEF Own
  <2>2. \A i, j \in J : f[i] = f[j] => i = j
    BY Zenon
  <2>3. \A x \in Own(d, q, p) : \E i \in J : f[i] = x
    BY Zenon DEF Own
  <2> HIDE DEF f, J
  <2> QED  BY <2>1, <2>2, <2>3, Zenon
              DEF ExistsBijection, Bijection, Injection, Surjection, IsInjective
<1> QED  BY <1>1, <1>2, FS_Bijection, Zenon DEF Times

\* e has a device more than d, with references of its own.
OneMore(d, e, q) ==
    /\ DOMAIN e = DOMAIN d \cup {q} /\ q \notin DOMAIN d
    /\ \A r \in DOMAIN d : e[r].refs = d[r].refs
    /\ e[q].refs \in Seq(DevicePaths \cup {NoPath})

\* The references to p in e are those in d and those of q.
Counted(d, e, q, p) ==
    /\ IsFiniteSet(RefsTo(e, p)) /\ IsFiniteSet(RefsTo(d, p))
    /\ Cardinality(RefsTo(d, p)) \in Nat /\ Times(e[q].refs, p) \in Nat
    /\ Cardinality(RefsTo(e, p)) = Cardinality(RefsTo(d, p)) + Times(e[q].refs, p)

\* The references to a device when another comes or goes.
LEMMA RefsCount ==
  ASSUME NEW d, NEW e, NEW q, NEW p, OneMore(d, e, q),
         IsFiniteSet(RefsTo(d, p)) \/ IsFiniteSet(RefsTo(e, p))
  PROVE  Counted(d, e, q, p)
<1>1. /\ RefsTo(e, p) = RefsTo(d, p) \cup Own(e, q, p)
      /\ RefsTo(d, p) \cap Own(e, q, p) = {}
  BY RefsSplit, Zenon DEF OneMore
<1>2. IsFiniteSet(Own(e, q, p)) /\ Cardinality(Own(e, q, p)) = Times(e[q].refs, p)
  BY OwnCounts, ZenonT(40) DEF OneMore
<1>3. IsFiniteSet(RefsTo(d, p))
  BY <1>1, FS_Subset, Zenon
<1>4. Cardinality(RefsTo(d, p)) \in Nat /\ Cardinality(Own(e, q, p)) \in Nat
  BY <1>2, <1>3, FS_CardinalityType, Zenon
<1>5. Cardinality(RefsTo(d, p) \cap Own(e, q, p)) = 0
  BY <1>1, FS_EmptySet, Zenon
<1>6. /\ IsFiniteSet(RefsTo(d, p) \cup Own(e, q, p))
      /\ Cardinality(RefsTo(d, p) \cup Own(e, q, p)) =
            Cardinality(RefsTo(d, p)) + Cardinality(Own(e, q, p)) - Cardinality(RefsTo(d,
              p) \cap Own(e, q, p))
  BY <1>2, <1>3, FS_Union, Zenon
<1> QED  BY <1>1, <1>2, <1>3, <1>4, <1>5, <1>6, SMTT(30) DEF Counted

\* An empty list refers to nothing.
LEMMA NoTimes == ASSUME NEW p PROVE Times(<<>>, p) = 0
<1>1. {i \in DOMAIN <<>> : <<>>[i] = p} = {}
  OBVIOUS
<1> QED  BY <1>1, FS_EmptySet, Zenon DEF Times

\* Nothing refers to a path that has no device, or to an overlay.
LEMMA NoRefs ==
  ASSUME NEW d, DevicesOK(d), NEW p \in DevicePaths, p \notin DOMAIN d \/ p \in Roots
  PROVE  RefsTo(d, p) = {}
<1>1. NoPath # p
  BY MountsAssumption, Zenon
<1>2. \A q \in DOMAIN d : \A i \in DOMAIN d[q].refs : d[q].refs[i] # p
  BY <1>1, Zenon DEF DevicesOK
<1>3. \A q \in DOMAIN d : Own(d, q, p) = {}
  BY <1>2, Zenon DEF Own
<1> QED  BY <1>3, Zenon DEF RefsTo

\* AddRODevice and AddRWDevice: nothing refers to a new device.
LEMMA DeviceAdded ==
  ASSUME NEW d, DevicesOK(d), NEW path \in DevicePaths, path \notin DOMAIN d,
         NEW ty \in {"RO", "RW", "Overlay"}, NEW source \in Sources \cup Roots
  PROVE  DevicesOK(doAddDevice(d, path, ty, source))
<1>1. PICK e : e = doAddDevice(d, path, ty, source)
  BY Zenon
<1>2. /\ DOMAIN e = DOMAIN d \cup {path} /\ e = [p \in DOMAIN e |-> e[p]]
      /\ e[path] = [ty |-> ty, usage |-> 0, source |-> source, refs |-> <<>>]
      /\ \A p \in DOMAIN d : e[p] = d[p]
  BY <1>1, Zenon DEF doAddDevice
<1>3. <<>> \in Seq(DevicePaths \cup {NoPath}) /\ e[path].refs = <<>> /\ e[path].usage = 0
  BY <1>2
<1>4. e[path] \in DeviceStates
  <2>1. [ty |-> ty, usage |-> 0, source |-> source, refs |-> <<>>] \in DeviceStates
    BY <1>3, Zenon DEF DeviceStates
  <2> QED  BY <1>2, <2>1, Zenon
<1>5. e \in [DOMAIN e -> DeviceStates] /\ DOMAIN e \subseteq DevicePaths
  BY <1>2, <1>4, Zenon DEF DevicesOK
<1>6. ASSUME NEW p \in DevicePaths
      PROVE  IsFiniteSet(RefsTo(e, p)) /\ Cardinality(RefsTo(e, p)) = Cardinality(RefsTo(d, p))
  <2>1. IsFiniteSet(RefsTo(d, p))
    BY Zenon DEF DevicesOK
  <2>2. \A r \in DOMAIN d : e[r].refs = d[r].refs
    BY <1>2, Zenon
  <2>3. /\ IsFiniteSet(RefsTo(e, p)) /\ Cardinality(RefsTo(d, p)) \in Nat
        /\ Cardinality(RefsTo(e, p)) = Cardinality(RefsTo(d, p)) + Times(e[path].refs, p)
    <3>1. OneMore(d, e, path)
      BY <1>2, <1>3, <2>2, Zenon DEF OneMore
    <3>2. Counted(d, e, path, p)
      BY <2>1, <3>1, RefsCount, Zenon
    <3> QED  BY <3>2, Zenon DEF Counted
  <2>4. Times(e[path].refs, p) = 0
    BY <1>3, NoTimes, Zenon
  <2> QED  BY <2>3, <2>4, SMTT(30)
<1>7. Cardinality(RefsTo(d, path)) = 0
  BY NoRefs, FS_EmptySet, Zenon
<1>8. \A p \in DOMAIN e : e[p].usage = Cardinality(RefsTo(e, p))
  BY <1>2, <1>3, <1>5, <1>6, <1>7, Zenon DEF DevicesOK
<1>9. \A p \in DOMAIN e \ Roots : e[p].refs = <<>>
  BY <1>2, <1>3, Zenon DEF DevicesOK
<1>10. \A q \in DOMAIN e : \A i \in DOMAIN e[q].refs : e[q].refs[i] \in (DOMAIN e \ Roots) \cup
         {NoPath}
  BY <1>2, <1>3, SMTT(30) DEF DevicesOK
<1> QED  BY <1>1, <1>5, <1>6, <1>8, <1>9, <1>10, Zenon DEF DevicesOK

\* RemoveRODevice and RemoveRWDevice: nothing referred to the device.
LEMMA DeviceRemoved ==
  ASSUME NEW d, DevicesOK(d), NEW path, path \in DOMAIN d => path \notin Roots /\ d[path].usage = 0
  PROVE  DevicesOK(doRemoveDevice(d, path))
<1>0. CASE path \notin DOMAIN d
  <2>1. doRemoveDevice(d, path) = d
    BY <1>0, Zenon DEF doRemoveDevice, DevicesOK
  <2> QED  BY <2>1, Zenon
<1>1. PICK e : e = doRemoveDevice(d, path)
  BY Zenon
<1> SUFFICES ASSUME path \in DOMAIN d PROVE DevicesOK(e)
  BY <1>0, <1>1, Zenon
<1>2. /\ DOMAIN e = DOMAIN d \ {path} /\ e = [p \in DOMAIN e |-> e[p]]
      /\ \A p \in DOMAIN e : e[p] = d[p]
  BY <1>1, Zenon DEF doRemoveDevice
<1>3. d[path].refs = <<>> /\ d[path].refs \in Seq(DevicePaths \cup {NoPath}) /\ path \in DevicePaths
  BY Zenon DEF DevicesOK, DeviceStates
<1>4. e \in [DOMAIN e -> DeviceStates] /\ DOMAIN e \subseteq DevicePaths
  BY <1>2, Zenon DEF DevicesOK
<1>5. ASSUME NEW p \in DevicePaths
      PROVE  IsFiniteSet(RefsTo(e, p)) /\ Cardinality(RefsTo(e, p)) = Cardinality(RefsTo(d, p))
  <2>1. IsFiniteSet(RefsTo(d, p))
    BY Zenon DEF DevicesOK
  <2>2. DOMAIN d = DOMAIN e \cup {path} /\ path \notin DOMAIN e /\
          \A r \in DOMAIN e : d[r].refs = e[r].refs
    BY <1>2, Zenon
  <2>3. /\ IsFiniteSet(RefsTo(e, p)) /\ Cardinality(RefsTo(e, p)) \in Nat
        /\ Cardinality(RefsTo(d, p)) = Cardinality(RefsTo(e, p)) + Times(d[path].refs, p)
    <3>1. OneMore(e, d, path)
      BY <1>3, <2>2, Zenon DEF OneMore
    <3>2. Counted(e, d, path, p)
      BY <2>1, <3>1, RefsCount, Zenon
    <3> QED  BY <3>2, Zenon DEF Counted
  <2>4. Times(d[path].refs, p) = 0
    BY <1>3, NoTimes, Zenon
  <2> QED  BY <2>3, <2>4, SMTT(30)
<1>6. RefsTo(d, path) = {}
  BY <1>3, FS_EmptySet, Zenon DEF DevicesOK
<1>7. \A q \in DOMAIN e : \A i \in DOMAIN e[q].refs : e[q].refs[i] # path
  <2> SUFFICES ASSUME NEW q \in DOMAIN e, NEW i \in DOMAIN e[q].refs, e[q].refs[i] = path
      PROVE FALSE
    BY Zenon
  <2>1. <<q, i>> \in Own(d, q, path) /\ q \in DOMAIN d
    BY <1>2, Zenon DEF Own
  <2> QED  BY <1>6, <2>1, Zenon DEF RefsTo
<1>8. \A q \in DOMAIN e : \A i \in DOMAIN e[q].refs : e[q].refs[i] \in (DOMAIN e \ Roots) \cup
        {NoPath}
  BY <1>2, <1>7, ZenonT(40) DEF DevicesOK
<1>9. \A p \in DOMAIN e : e[p].usage = Cardinality(RefsTo(e, p))
  BY <1>2, <1>4, <1>5, Zenon DEF DevicesOK
<1> QED  BY <1>2, <1>4, <1>5, <1>8, <1>9, Zenon DEF DevicesOK

\* A used path lies on one device at most, so the search finds that one.
LEMMA FindIs ==
  ASSUME NEW d, DOMAIN d \subseteq DevicePaths, NEW path \in UsedPaths
  PROVE  /\ findDeviceContainingPath(d, path) \in (DOMAIN d \ Roots) \cup {NoPath}
         /\ findDeviceContainingPath(d, path) # NoPath =>
              IsAbove(findDeviceContainingPath(d, path), path)
         /\ \A p \in DOMAIN d : IsAbove(p, path) => findDeviceContainingPath(d, path) = p
<1> DEFINE above == {p \in DOMAIN d : IsAbove(p, path)}
<1>2. /\ \A p \in above : p \in DOMAIN d \ Roots /\ Len(p) \in Nat /\ IsAbove(p, path)
      /\ \A p, q \in above : p = q
      /\ \A p \in DOMAIN d : IsAbove(p, path) => p \in above
  BY MountsAssumption, Zenon
<1>3. findDeviceContainingPath(d, path) =
        IF above = {} THEN NoPath ELSE CHOOSE p \in above : \A q \in above : Len(q) <= Len(p)
  BY Zenon DEF findDeviceContainingPath
<1> HIDE DEF above
<1>4. CASE above = {}
  BY <1>2, <1>3, <1>4, Zenon
<1>5. CASE above # {}
  <2>1. PICK p \in above : TRUE
    BY <1>5, Zenon
  <2>2. \A q \in above : Len(q) <= Len(p)
    BY <1>2, <2>1, SMTT(30)
  <2>3. (CHOOSE r \in above : \A q \in above : Len(q) <= Len(r)) \in above
    BY <2>1, <2>2, Zenon
  <2> QED  BY <1>2, <1>3, <1>5, <2>3, Zenon
<1> QED  BY <1>4, <1>5, Zenon

\* e is d with an overlay that refers to the devices the paths are on.
OnTop(d, e, root, paths) ==
    /\ DOMAIN e = DOMAIN d \cup {root}
    /\ \A p \in DOMAIN d : e[p].refs = d[p].refs
    /\ DOMAIN e[root].refs = DOMAIN paths
    /\ \A p \in DOMAIN d, i \in DOMAIN paths : IsAbove(p, paths[i]) => e[root].refs[i] = p

\* AddOverlay counts each device as often as it is used.
LEMMA OverlayAdded ==
  ASSUME NEW d, DevicesOK(d), NEW root \in Roots, root \notin DOMAIN d,
         NEW layers \in Seq(UsedPaths), NEW scratch \in UsedPaths
  PROVE  /\ DevicesOK(AddOverlay(d, root, layers, scratch))
         /\ OnTop(d, AddOverlay(d, root, layers, scratch), root, Append(layers, scratch))
<1>1. PICK paths : paths = Append(layers, scratch)
  BY Zenon
<1>2. paths \in Seq(UsedPaths)
  BY <1>1, SMTT(30)
<1>3. PICK a : a = doAddDevice(d, root, "Overlay", root)
  BY Zenon
<1>4. PICK refs : refs = usePath(a, paths)
  BY Zenon
<1>5. PICK e : e = AddOverlay(d, root, layers, scratch)
  BY Zenon
<1>6. e = [p \in DOMAIN a |-> IF p = root THEN [a[p] EXCEPT !.refs = refs]
                              ELSE [a[p] EXCEPT !.usage = @ + Times(refs, p)]]
  BY <1>1, <1>3, <1>4, <1>5, Zenon DEF AddOverlay
<1>7. root \in DevicePaths /\ DevicesOK(a)
  <2>1. root \in DevicePaths /\ root \in Sources \cup Roots
    BY Zenon DEF DevicePaths
  <2> QED  BY <1>3, <2>1, DeviceAdded, Zenon
<1>8. /\ DOMAIN a = DOMAIN d \cup {root} /\ \A p \in DOMAIN d : a[p] = d[p]
      /\ a[root].usage = 0
  BY <1>3, Zenon DEF doAddDevice
<1>9. ASSUME NEW i \in DOMAIN paths
      PROVE  /\ refs[i] \in (DOMAIN d \ Roots) \cup {NoPath}
             /\ \A p \in DOMAIN d : IsAbove(p, paths[i]) => refs[i] = p
  <2>1. paths[i] \in UsedPaths /\ refs[i] = findDeviceContainingPath(a, paths[i])
    BY <1>2, <1>4 DEF usePath
  <2>2. DOMAIN a \subseteq DevicePaths
    BY <1>7, Zenon DEF DevicesOK
  <2>3. /\ refs[i] \in (DOMAIN a \ Roots) \cup {NoPath}
        /\ \A p \in DOMAIN a : IsAbove(p, paths[i]) => refs[i] = p
    BY <2>1, <2>2, FindIs, ZenonT(40)
  <2> QED  BY <1>8, <2>3, Zenon
<1>10. DOMAIN refs = DOMAIN paths /\ refs \in Seq(DevicePaths \cup {NoPath})
  <2>1. refs = [i \in DOMAIN paths |-> refs[i]] /\ DOMAIN paths = 1 .. Len(paths) /\
          Len(paths) \in Nat
    BY <1>2, <1>4, SMTT(30) DEF usePath
  <2>2. \A i \in 1 .. Len(paths) : refs[i] \in DevicePaths \cup {NoPath}
    BY <1>9, <2>1, Zenon DEF DevicesOK
  <2>3. refs \in [1 .. Len(paths) -> DevicePaths \cup {NoPath}]
    BY <2>1, <2>2, Zenon
  <2> QED  BY <2>1, <2>3
<1>11. \A p \in DevicePaths : Times(refs, p) \in Nat
  <2>1. IsFiniteSet(DOMAIN refs)
    BY <1>10, FS_Interval, SMTT(30)
  <2> QED  BY <2>1, FS_Subset, FS_CardinalityType, Zenon DEF Times
<1>12. \A p \in DOMAIN a : a[p] \in DeviceStates
  BY <1>7, Zenon DEF DevicesOK
<1>13. /\ e[root] = [a[root] EXCEPT !.refs = refs] /\ DOMAIN e = DOMAIN a
       /\ \A p \in DOMAIN d : e[p] = [a[p] EXCEPT !.usage = @ + Times(refs, p)]
  BY <1>6, <1>8, Zenon
<1>14. e[root].refs = refs /\ e[root].usage = a[root].usage /\ e[root] \in DeviceStates
  BY <1>8, <1>10, <1>12, <1>13, Zenon DEF DeviceStates
<1>15. ASSUME NEW p \in DOMAIN d
       PROVE  e[p].refs = a[p].refs /\ e[p].usage = a[p].usage + Times(refs, p) /\
                e[p] \in DeviceStates
  <2>1. a[p] \in DeviceStates /\ p \in DevicePaths
    BY <1>8, <1>12, Zenon DEF DevicesOK
  <2>2. a[p].usage + Times(refs, p) \in Nat
    BY <1>11, <2>1, SMTT(30) DEF DeviceStates
  <2> QED  BY <1>13, <2>1, <2>2, ZenonT(40) DEF DeviceStates
<1>16. e \in [DOMAIN e -> DeviceStates] /\ DOMAIN e \subseteq DevicePaths
  BY <1>6, <1>7, <1>8, <1>13, <1>14, <1>15, Zenon DEF DevicesOK
<1>17. ASSUME NEW p \in DevicePaths
       PROVE  /\ IsFiniteSet(RefsTo(e, p)) /\ Cardinality(RefsTo(d, p)) \in Nat
              /\ Cardinality(RefsTo(e, p)) = Cardinality(RefsTo(d, p)) + Times(refs, p)
  <2>1. IsFiniteSet(RefsTo(d, p))
    BY Zenon DEF DevicesOK
  <2>2. DOMAIN e = DOMAIN d \cup {root} /\ \A r \in DOMAIN d : e[r].refs = d[r].refs
    BY <1>8, <1>13, <1>15, Zenon
  <2>3. e[root].refs \in Seq(DevicePaths \cup {NoPath})
    BY <1>10, <1>14, Zenon
  <2>4. /\ IsFiniteSet(RefsTo(e, p)) /\ Cardinality(RefsTo(d, p)) \in Nat
        /\ Cardinality(RefsTo(e, p)) = Cardinality(RefsTo(d, p)) + Times(e[root].refs, p)
    <3>1. OneMore(d, e, root)
      BY <2>2, <2>3, Zenon DEF OneMore
    <3>2. Counted(d, e, root, p)
      BY <2>1, <3>1, RefsCount, Zenon
    <3> QED  BY <3>2, Zenon DEF Counted
  <2> QED  BY <1>14, <2>4, Zenon
<1>18. Times(refs, root) = 0
  <2>1. {i \in DOMAIN refs : refs[i] = root} = {}
    BY <1>7, <1>9, <1>10, MountsAssumption, Zenon
  <2> QED  BY <2>1, FS_EmptySet, Zenon DEF Times
<1>19. Cardinality(RefsTo(d, root)) = 0
  BY <1>7, NoRefs, FS_EmptySet, Zenon
<1>20. ASSUME NEW p \in DOMAIN e PROVE e[p].usage = Cardinality(RefsTo(e, p))
  <2>1. CASE p = root
    <3>1. Cardinality(RefsTo(e, root)) = 0
      BY <1>7, <1>17, <1>18, <1>19, SMTT(30)
    <3> QED  BY <1>8, <1>14, <2>1, <3>1, Zenon
  <2>2. CASE p \in DOMAIN d
    BY <1>8, <1>15, <1>16, <1>17, <2>2, SMTT(30) DEF DevicesOK
  <2> QED  BY <1>8, <1>13, <2>1, <2>2, Zenon
<1>21. \A p \in DOMAIN e \ Roots : e[p].refs = <<>>
  BY <1>8, <1>13, <1>15, SMTT(30) DEF DevicesOK
<1>22. \A q \in DOMAIN e : \A i \in DOMAIN e[q].refs : e[q].refs[i] \in (DOMAIN e \ Roots) \cup
         {NoPath}
  <2>1. \A i \in DOMAIN e[root].refs : e[root].refs[i] \in (DOMAIN e \ Roots) \cup {NoPath}
    BY <1>8, <1>9, <1>10, <1>13, <1>14, Zenon
  <2>2. \A q \in DOMAIN d : \A i \in DOMAIN e[q].refs : e[q].refs[i] \in (DOMAIN e \ Roots) \cup
          {NoPath}
    BY <1>8, <1>13, <1>15, ZenonT(40) DEF DevicesOK
  <2> QED  BY <1>8, <1>13, <2>1, <2>2, Zenon
<1>23. DevicesOK(e)
  BY <1>16, <1>17, <1>20, <1>21, <1>22, Zenon DEF DevicesOK
<1>24. OnTop(d, e, root, paths)
  BY <1>8, <1>9, <1>10, <1>13, <1>14, <1>15, Zenon DEF OnTop
<1> QED  BY <1>1, <1>5, <1>23, <1>24, Zenon

\* RemoveOverlay gives back what AddOverlay counted, so the count never stops
\* at zero.
LEMMA OverlayRemoved ==
  ASSUME NEW d, DevicesOK(d), NEW root \in Roots
  PROVE  LET e == RemoveOverlay(d, root)
         IN  /\ DevicesOK(e) /\ DOMAIN e = DOMAIN d \ {root}
             /\ \A p \in DOMAIN e : e[p].refs = d[p].refs
<1>0. CASE root \notin DOMAIN d
  BY <1>0, Zenon DEF RemoveOverlay
<1>1. PICK e : e = RemoveOverlay(d, root)
  BY Zenon
<1>2. CASE root \in DOMAIN d
  <2>1. PICK refs : refs = d[root].refs
    BY Zenon
  <2>2. e = [p \in DOMAIN d \ {root} |->
               [d[p] EXCEPT !.usage = IF @ >= Times(refs, p) THEN @ - Times(refs, p) ELSE 0]]
    BY <1>1, <1>2, <2>1, Zenon DEF RemoveOverlay, doRemoveDevice
  <2>3. /\ refs \in Seq(DevicePaths \cup {NoPath}) /\ root \in DevicePaths
        /\ \A p \in DOMAIN d : d[p] \in DeviceStates /\ p \in DevicePaths
    BY <1>2, <2>1, Zenon DEF DevicesOK, DeviceStates
  <2>4. DOMAIN d = DOMAIN e \cup {root} /\ root \notin DOMAIN e /\ DOMAIN e = DOMAIN d \ {root}
    BY <1>2, <2>2, Zenon
  <2>5. \A p \in DOMAIN e : e[p].refs = d[p].refs
    BY <2>2, <2>3, Zenon DEF DeviceStates
  <2>6. ASSUME NEW p \in DevicePaths
        PROVE  /\ IsFiniteSet(RefsTo(e, p)) /\ Cardinality(RefsTo(e, p)) \in Nat /\
                    Times(refs, p) \in Nat
               /\ Cardinality(RefsTo(d, p)) = Cardinality(RefsTo(e, p)) + Times(refs, p)
    <3>1. IsFiniteSet(RefsTo(d, p)) /\ \A r \in DOMAIN e : d[r].refs = e[r].refs
      BY <2>5, Zenon DEF DevicesOK
    <3>2. OneMore(e, d, root)
      BY <2>1, <2>3, <2>4, <3>1, Zenon DEF OneMore
    <3>3. Counted(e, d, root, p)
      BY <3>1, <3>2, RefsCount, Zenon
    <3> QED  BY <2>1, <3>3, Zenon DEF Counted
  <2>7. ASSUME NEW p \in DOMAIN e PROVE e[p].usage = Cardinality(RefsTo(e, p)) /\
                 e[p] \in DeviceStates
    <3>1. p \in DOMAIN d /\ p \in DevicePaths /\ d[p] \in DeviceStates /\
            d[p].usage = Cardinality(RefsTo(d, p))
      BY <2>3, <2>4, Zenon DEF DevicesOK
    <3>2. d[p].usage = Cardinality(RefsTo(e, p)) + Times(refs, p)
      BY <2>6, <3>1, Zenon
    <3>3. PICK n \in Nat : n = Cardinality(RefsTo(e, p))
      BY <2>6, <3>1, Zenon
    <3>4. e[p] = [d[p] EXCEPT !.usage = IF d[p].usage >= Times(refs,
            p) THEN d[p].usage - Times(refs, p) ELSE 0]
      BY <2>2, <2>4, Zenon
    <3>5. (IF d[p].usage >= Times(refs, p) THEN d[p].usage - Times(refs, p) ELSE 0) = n
      BY <2>6, <3>1, <3>2, <3>3, SMTT(30)
    <3>6. e[p] = [d[p] EXCEPT !.usage = n]
      BY <3>4, <3>5, Zenon
    <3> QED  BY <3>1, <3>3, <3>6, Zenon DEF DeviceStates
  <2>8. e \in [DOMAIN e -> DeviceStates] /\ DOMAIN e \subseteq DevicePaths
    BY <2>2, <2>3, <2>4, <2>7, Zenon
  <2>9. \A q \in DOMAIN e : \A i \in DOMAIN e[q].refs : e[q].refs[i] \in (DOMAIN e \ Roots) \cup
          {NoPath}
    BY <2>4, <2>5, Zenon DEF DevicesOK
  <2>10. \A p \in DOMAIN e \ Roots : e[p].refs = <<>>
    BY <2>4, <2>5, Zenon DEF DevicesOK
  <2> QED  BY <1>1, <2>4, <2>5, <2>6, <2>7, <2>8, <2>9, <2>10, Zenon DEF DevicesOK
<1> QED  BY <1>0, <1>2, Zenon

\* A guest that has just started has no mount.
LEMMA MountInit == MountsInit => MountInv
<1> SUFFICES ASSUME MountsInit PROVE MountInv
  BY Zenon
<1>1. meta \in MetadataStates
  BY Zenon DEF MountsInit, NoMetadata, MetadataStates
<1>2. DOMAIN devices = {} /\ DOMAIN mounted = {} /\ devices = [p \in {} |-> devices[p]]
  BY DEF MountsInit, NoDevices
<1>3. \A p : RefsTo(devices, p) = {}
  BY <1>2, Zenon DEF RefsTo
<1>4. DevicesOK(devices)
  BY <1>2, <1>3, FS_EmptySet, Zenon DEF DevicesOK
<1>5. MetadataAgrees /\ Backed(devices, mounted, untracked)
  BY <1>2, Zenon DEF MountsInit, NoMetadata, MetadataAgrees, Backed, IsDisk
<1> QED  BY <1>1, <1>4, <1>5, Zenon DEF MountInv

\* A device an overlay refers to is in use.
LEMMA Unused ==
  ASSUME NEW d, DevicesOK(d), NEW q, NEW p \in DOMAIN d, Refers(d, q, p)
  PROVE  d[p].usage # 0
<1>1. PICK i \in DOMAIN d[q].refs : d[q].refs[i] = p
  BY Zenon DEF Refers
<1>2. <<q, i>> \in RefsTo(d, p)
  <2>1. <<q, i>> \in Own(d, q, p) /\ q \in DOMAIN d
    BY <1>1, Zenon DEF Refers, Own
  <2> QED  BY <2>1, Zenon DEF RefsTo
<1>3. IsFiniteSet(RefsTo(d, p)) /\ d[p].usage = Cardinality(RefsTo(d, p))
  BY Zenon DEF DevicesOK
<1> QED  BY <1>2, <1>3, FS_EmptySet, Zenon

\* Every device of d but path is in e, with the references it had.
Keeps(d, e, path) == \A r \in DOMAIN d : r # path => r \in DOMAIN e /\ e[r].refs = d[r].refs

\* A reference stays with the device that has it.
LEMMA RefersKept ==
  ASSUME NEW d, NEW e, NEW path, Keeps(d, e, path), NEW q, q # path, NEW p, Refers(d, q, p)
  PROVE  Refers(e, q, p)
BY Zenon DEF Keeps, Refers

\* A mount comes on top of what is there.
LEMMA BackedPut ==
  ASSUME NEW d, NEW e, NEW m, NEW u, Backed(d, m, u), NEW path, NEW what,
         path \notin DOMAIN m,
         \A r \in DOMAIN d : r \in DOMAIN e /\ e[r].refs = d[r].refs,
         path \in LayerPaths \cup DiskPaths /\ what \in Sources => path \in DOMAIN e,
         path \in Roots => \A p \in what : p \in u \/ (IsDisk(m, p) /\ Refers(e, path, p))
  PROVE  Backed(e, Put(m, path, what), u)
<1>1. PICK n : n = Put(m, path, what)
  BY Zenon
<1>2. DOMAIN n = DOMAIN m \cup {path} /\ n[path] = what /\ \A p \in DOMAIN m : n[p] = m[p]
  BY <1>1, Zenon DEF Put
<1>3. \A p : IsDisk(m, p) => IsDisk(n, p)
  BY <1>2, Zenon DEF IsDisk
<1>4. \A p \in LayerPaths \cup DiskPaths : IsDisk(n, p) => p \in DOMAIN e \cup u
  BY <1>2, Zenon DEF IsDisk, Backed
<1>5. ASSUME NEW q \in DOMAIN n \cap Roots, NEW p \in n[q], p \notin u
      PROVE  IsDisk(n, p) /\ Refers(e, q, p)
  <2>1. CASE q = path
    BY <1>2, <1>3, <1>5, <2>1, Zenon
  <2>2. CASE q # path
    <3>1. q \in DOMAIN m \cap Roots /\ p \in m[q]
      BY <1>2, <2>2, Zenon
    <3>2. IsDisk(m, p) /\ Refers(d, q, p)
      BY <1>5, <3>1, Zenon DEF Backed
    <3>3. Refers(e, q, p)
      BY <3>2, Zenon DEF Refers
    <3> QED  BY <1>3, <3>2, <3>3, Zenon
  <2> QED  BY <2>1, <2>2, Zenon
<1> QED  BY <1>1, <1>4, <1>5, Zenon DEF Backed

\* A mount goes that nothing rests on, or that HostMounts lost track of.
LEMMA BackedDrop ==
  ASSUME NEW d, NEW e, NEW m, NEW u, Backed(d, m, u), NEW path, Keeps(d, e, path),
         NEW v, u \subseteq v,
         path \in v \/ \A q \in DOMAIN m \cap Roots : q # path => path \notin m[q]
  PROVE  Backed(e, Drop(m, path), v)
<1>1. PICK n : n = Drop(m, path)
  BY Zenon
<1>2. DOMAIN n = DOMAIN m \ {path} /\ \A p \in DOMAIN m : p # path => n[p] = m[p]
  BY <1>1, Zenon DEF Drop
<1>3. \A p : p # path => (IsDisk(m, p) <=> IsDisk(n, p))
  BY <1>2, Zenon DEF IsDisk
<1>4. \A p \in LayerPaths \cup DiskPaths : IsDisk(n, p) => p \in DOMAIN e \cup v
  BY <1>2, Zenon DEF IsDisk, Backed, Keeps
<1>5. ASSUME NEW q \in DOMAIN n \cap Roots, NEW p \in n[q], p \notin v
      PROVE  IsDisk(n, p) /\ Refers(e, q, p)
  <2>1. q \in DOMAIN m \cap Roots /\ q # path /\ p \in m[q] /\ p # path
    BY <1>2, <1>5, Zenon
  <2>2. IsDisk(m, p) /\ Refers(d, q, p)
    BY <1>5, <2>1, Zenon DEF Backed
  <2> QED  BY <1>3, <2>1, <2>2, RefersKept, ZenonT(40)
<1> QED  BY <1>1, <1>4, <1>5, Zenon DEF Backed

\* HostMounts gets more devices.
LEMMA BackedKept ==
  ASSUME NEW d, NEW e, NEW m, NEW u, Backed(d, m, u),
         \A r \in DOMAIN d : r \in DOMAIN e /\ e[r].refs = d[r].refs
  PROVE  Backed(e, m, u)
<1>1. \A q, p : Refers(d, q, p) => Refers(e, q, p)
  BY Zenon DEF Refers
<1>2. DOMAIN d \subseteq DOMAIN e
  BY Zenon
<1> QED  BY <1>1, <1>2, Zenon DEF Backed

\* HostMounts loses track of a disk, and goes on mounting it.
LEMMA BackedLost ==
  ASSUME NEW d, NEW e, NEW m, NEW u, Backed(d, m, u), NEW path, path \notin Roots,
         Keeps(d, e, path)
  PROVE  Backed(e, m, u \cup {path})
<1>1. \A p \in LayerPaths \cup DiskPaths : IsDisk(m, p) => p \in DOMAIN e \cup u \cup {path}
  BY Zenon DEF Backed, Keeps
<1>2. ASSUME NEW q \in DOMAIN m \cap Roots, NEW p \in m[q], p \notin u \cup {path}
      PROVE  IsDisk(m, p) /\ Refers(e, q, p)
  <2>1. IsDisk(m, p) /\ Refers(d, q, p) /\ q # path
    BY <1>2, Zenon DEF Backed
  <2> QED  BY <2>1, RefersKept, Zenon
<1> QED  BY <1>1, <1>2, Zenon DEF Backed

\* What MountInv says while the guest takes requests.
LEMMA Mounted ==
  ASSUME MountInv, ~uvmError
  PROVE  /\ Backed(devices, mounted, untracked) /\ DevicesOK(devices) /\ meta \in MetadataStates
         /\ DOMAIN mounted = meta.devices \cup meta.rwDevices \cup meta.overlays \cup meta.shares
         /\ meta.devices \subseteq LayerPaths /\ meta.rwDevices \subseteq DiskPaths
         /\ meta.overlays \subseteq Roots /\ meta.shares \subseteq SharePaths
BY Zenon DEF MountInv, MetadataAgrees, MetadataStates

\* The unmount of a request fails: the guest takes no more requests.
LEMMA MountFails ==
  ASSUME MountInv, uvmError' = TRUE, UNCHANGED <<devices, meta>>
  PROVE  MountInv'
BY Zenon DEF MountInv

\* A disk is mounted, or recorded and not mounted.
LEMMA DiskAdded ==
  ASSUME MountInv, NEW path, NEW source \in Sources, NEW ro \in BOOLEAN, AddDisk(path, source, ro)
  PROVE  MountInv'
<1>1. /\ ~uvmError /\ ~uvmError' /\ UNCHANGED untracked
      /\ path \in (IF ro THEN LayerPaths ELSE DiskPaths) /\
           path \notin DOMAIN devices
      /\ path \notin meta.devices \cup meta.rwDevices
      /\ devices' = doAddDevice(devices, path, Type(ro), source)
  BY Zenon DEF AddDisk, deviceMounted
<1>2. path \in DevicePaths /\ Type(ro) \in {"RO", "RW", "Overlay"} /\ source \in Sources \cup Roots
  BY <1>1, Zenon DEF DevicePaths, Type
<1>3. DevicesOK(devices')
  BY <1>1, <1>2, DeviceAdded, ZenonT(40) DEF MountInv
<1>4. path \in DOMAIN devices' /\ \A r \in DOMAIN devices : r \in DOMAIN devices' /\
        devices'[r].refs = devices[r].refs
  BY <1>1, Zenon DEF doAddDevice
<1>5. path \notin DOMAIN mounted /\ path \notin Roots
  BY <1>1, Mounted, MountsAssumption, ZenonT(40)
<1>6. CASE UNCHANGED <<meta, mounted>>
  BY <1>1, <1>3, <1>4, <1>6, Mounted, BackedKept, Zenon DEF MountInv, MetadataAgrees
<1>7. CASE meta' = AllowDevice(path, ro) /\ mounted' = Put(mounted, path, source)
  <2>1. Backed(devices', mounted', untracked')
    BY <1>1, <1>4, <1>5, <1>7, Mounted, BackedPut, Zenon
  <2>2. /\ meta' \in MetadataStates
        /\ meta'.devices \cup meta'.rwDevices = meta.devices \cup meta.rwDevices \cup {path}
        /\ meta'.overlays = meta.overlays /\ meta'.shares = meta.shares
    BY <1>1, <1>7, Mounted, Zenon DEF AllowDevice, MetadataStates
  <2>3. DOMAIN mounted' = DOMAIN mounted \cup {path}
    BY <1>7, PutIs, ZenonT(40)
  <2>4. DOMAIN mounted' = meta'.devices \cup meta'.rwDevices \cup meta'.overlays \cup meta'.shares
    BY <1>1, <2>2, <2>3, Mounted, Zenon
  <2> QED  BY <1>3, <2>1, <2>2, <2>4, Zenon DEF MountInv, MetadataAgrees
<1> QED  BY <1>6, <1>7, ZenonT(40) DEF AddDisk

\* A disk is unmounted: no overlay uses it.
LEMMA DiskRemoved ==
  ASSUME MountInv, NEW path, NEW source \in Sources, NEW ro \in BOOLEAN,
           RemoveDisk(path, source, ro)
  PROVE  MountInv'
<1>1. ~uvmError /\ path \in (IF ro THEN meta.devices ELSE meta.rwDevices)
  BY Zenon DEF RemoveDisk
<1>2. path \in DOMAIN devices => devices[path].usage = 0
  BY Zenon DEF RemoveDisk, Removable
<1>3. CASE uvmError' = TRUE /\ UNCHANGED <<devices, meta>>
  BY <1>3, MountFails, ZenonT(40)
<1>4. path \notin Roots /\ path \in LayerPaths \cup DiskPaths
  BY <1>1, Mounted, MountsAssumption, Zenon
<1>5. ASSUME devices' = doRemoveDevice(devices, path)
      PROVE  DevicesOK(devices') /\ Keeps(devices, devices', path)
  <2>1. DevicesOK(devices')
    BY <1>2, <1>4, <1>5, DeviceRemoved, Zenon DEF MountInv
  <2>2. Keeps(devices, devices', path)
    BY <1>5, Zenon DEF doRemoveDevice, Keeps
  <2> QED  BY <2>1, <2>2, Zenon
<1>6. CASE /\ devices' = doRemoveDevice(devices, path) /\ meta' = DropDevice(path, ro)
           /\ mounted' = Drop(mounted, path) /\ UNCHANGED <<uvmError, untracked>>
  <2>1. path \in untracked \/ \A q \in DOMAIN mounted \cap Roots : path \notin mounted[q]
    <3> SUFFICES ASSUME path \notin untracked, NEW q \in DOMAIN mounted \cap Roots,
                        path \in mounted[q]
                 PROVE  FALSE
      BY Zenon
    <3>1. Refers(devices, q, path) /\ path \in DOMAIN devices
      BY <1>1, <1>4, Mounted, Zenon DEF Backed
    <3> QED  BY <1>2, <3>1, Unused, ZenonT(40) DEF MountInv
  <2>2. Backed(devices', mounted', untracked')
    BY <1>1, <1>5, <1>6, <2>1, Mounted, BackedDrop, Zenon
  <2>3. /\ meta' \in MetadataStates
        /\ meta'.devices = IF ro THEN meta.devices \ {path} ELSE meta.devices
        /\ meta'.rwDevices = IF ro THEN meta.rwDevices ELSE meta.rwDevices \ {path}
        /\ meta'.overlays = meta.overlays /\ meta'.shares = meta.shares
    BY <1>1, <1>6, Mounted, Zenon DEF DropDevice, MetadataStates
  <2>4. DOMAIN mounted' = DOMAIN mounted \ {path}
    BY <1>6, DropIs, ZenonT(40)
  <2>5. DOMAIN mounted' = meta'.devices \cup meta'.rwDevices \cup meta'.overlays \cup meta'.shares
    BY <1>1, <2>3, <2>4, Mounted, MountsAssumption, SMTT(30)
  <2> QED  BY <1>5, <1>6, <2>2, <2>3, <2>5, Zenon DEF MountInv, MetadataAgrees
<1>7. CASE /\ devices' = doRemoveDevice(devices, path) /\ untracked' = untracked \cup {path}
           /\ UNCHANGED <<meta, mounted, uvmError>>
  <2>1. Backed(devices', mounted', untracked')
    BY <1>1, <1>4, <1>5, <1>7, Mounted, BackedLost, Zenon
  <2> QED  BY <1>5, <1>7, <2>1, Zenon DEF MountInv, MetadataAgrees
<1> QED  BY <1>3, <1>6, <1>7, ZenonT(40) DEF RemoveDisk

\* A pmem layer, which HostMounts does not have.
LEMMA PmemChanges ==
  ASSUME MountInv, NEW path \in LayerPaths, AddPmem(path) \/ RemovePmem(path)
  PROVE  MountInv'
<1>1. ~uvmError /\ UNCHANGED devices /\ path \notin Roots
  BY MountsAssumption, ZenonT(40) DEF AddPmem, RemovePmem
<1>2. CASE AddPmem(path)
  <2>1. /\ path \notin meta.devices \cup meta.rwDevices /\ meta' = AllowDevice(path, TRUE)
        /\ mounted' = Put(mounted, path, "pmem") /\ UNCHANGED <<uvmError, untracked>>
    BY <1>2, Zenon DEF AddPmem, deviceMounted
  <2>2. path \notin DOMAIN mounted
    BY <1>1, <2>1, Mounted, MountsAssumption, Zenon
  <2>3. Backed(devices, mounted', untracked')
    <3>1. "pmem" \notin Sources
      BY MountsAssumption, Zenon
    <3> QED  BY <1>1, <2>1, <2>2, <3>1, Mounted, BackedPut, ZenonT(40)
  <2>4. /\ meta' \in MetadataStates /\ meta'.devices = meta.devices \cup {path}
        /\ meta'.rwDevices = meta.rwDevices
        /\ meta'.overlays = meta.overlays /\ meta'.shares = meta.shares
    BY <1>1, <2>1, Mounted, Zenon DEF AllowDevice, MetadataStates
  <2>5. DOMAIN mounted' = DOMAIN mounted \cup {path}
    BY <2>1, PutIs, ZenonT(40)
  <2>6. DOMAIN mounted' = meta'.devices \cup meta'.rwDevices \cup meta'.overlays \cup meta'.shares
    BY <1>1, <2>4, <2>5, Mounted, Zenon
  <2> QED  BY <1>1, <2>3, <2>4, <2>6, Zenon DEF MountInv, MetadataAgrees
<1>3. CASE uvmError' = TRUE /\ UNCHANGED meta
  BY <1>1, <1>3, MountFails, Zenon
<1>4. CASE /\ path \in meta.devices /\ meta' = DropDevice(path, TRUE)
           /\ mounted' = Drop(mounted, path) /\ UNCHANGED uvmError
           /\ untracked' = IF mounted[path] = "pmem" THEN untracked ELSE untracked \cup {path}
  <2>1. untracked \subseteq untracked'
    BY <1>4, Zenon
  <2>2. path \in untracked' \/ \A q \in DOMAIN mounted \cap Roots : path \notin mounted[q]
    <3>1. CASE mounted[path] = "pmem"
      <4>1. ~IsDisk(mounted, path)
        BY <3>1, MountsAssumption, Zenon DEF IsDisk
      <4> QED  BY <1>1, <2>1, <4>1, Mounted, Zenon DEF Backed
    <3>2. CASE mounted[path] # "pmem"
      BY <1>4, <3>2, Zenon
    <3> QED  BY <3>1, <3>2, Zenon
  <2>3. Keeps(devices, devices, path)
    BY Zenon DEF Keeps
  <2>4. Backed(devices, mounted', untracked')
    BY <1>1, <1>4, <2>1, <2>2, <2>3, Mounted, BackedDrop, ZenonT(40)
  <2>5. /\ meta' \in MetadataStates /\ meta'.devices = meta.devices \ {path}
        /\ meta'.rwDevices = meta.rwDevices
        /\ meta'.overlays = meta.overlays /\ meta'.shares = meta.shares
    BY <1>1, <1>4, Mounted, Zenon DEF DropDevice, MetadataStates
  <2>6. DOMAIN mounted' = DOMAIN mounted \ {path}
    BY <1>4, DropIs, ZenonT(40)
  <2>7. DOMAIN mounted' = meta'.devices \cup meta'.rwDevices \cup meta'.overlays \cup meta'.shares
    BY <1>1, <2>5, <2>6, Mounted, MountsAssumption, SMTT(30)
  <2> QED  BY <1>1, <2>4, <2>5, <2>7, Zenon DEF MountInv, MetadataAgrees
<1> QED  BY <1>2, <1>3, <1>4, Zenon DEF RemovePmem

\* A Plan9 share.
LEMMA ShareChanges ==
  ASSUME MountInv, NEW path \in SharePaths, AddShare(path) \/ RemoveShare(path)
  PROVE  MountInv'
<1>1. ~uvmError /\ UNCHANGED <<devices, untracked>> /\ path \notin Roots /\
        path \notin LayerPaths \cup DiskPaths
  BY MountsAssumption, Zenon DEF AddShare, RemoveShare
<1>2. CASE AddShare(path)
  <2>1. /\ path \notin meta.shares /\ meta' = [meta EXCEPT !.shares = @ \cup {path}]
        /\ mounted' = Put(mounted, path, "plan9") /\ UNCHANGED uvmError
    BY <1>2, Zenon DEF AddShare
  <2>2. path \notin DOMAIN mounted
    BY <1>1, <2>1, Mounted, Zenon
  <2>3. Backed(devices, mounted', untracked')
    BY <1>1, <2>1, <2>2, Mounted, BackedPut, Zenon
  <2>4. /\ meta' \in MetadataStates /\ meta'.devices = meta.devices
        /\ meta'.rwDevices = meta.rwDevices
        /\ meta'.overlays = meta.overlays /\ meta'.shares = meta.shares \cup {path}
    BY <1>1, <2>1, Mounted, Zenon DEF MetadataStates
  <2>5. DOMAIN mounted' = DOMAIN mounted \cup {path}
    BY <2>1, PutIs, ZenonT(40)
  <2>6. DOMAIN mounted' = meta'.devices \cup meta'.rwDevices \cup meta'.overlays \cup meta'.shares
    BY <1>1, <2>4, <2>5, Mounted, Zenon
  <2> QED  BY <1>1, <2>3, <2>4, <2>6, Zenon DEF MountInv, MetadataAgrees
<1>3. CASE uvmError' = TRUE /\ UNCHANGED meta
  BY <1>1, <1>3, MountFails, ZenonT(40)
<1>4. CASE /\ path \in meta.shares /\ meta' = [meta EXCEPT !.shares = @ \ {path}]
           /\ mounted' = Drop(mounted, path) /\ UNCHANGED uvmError
  <2>1. ~IsDisk(mounted, path)
    BY <1>1, Zenon DEF IsDisk
  <2>2. path \in untracked \/ \A q \in DOMAIN mounted \cap Roots : path \notin mounted[q]
    BY <1>1, <2>1, Mounted, Zenon DEF Backed
  <2>3. Keeps(devices, devices, path)
    BY Zenon DEF Keeps
  <2>4. Backed(devices, mounted', untracked')
    BY <1>1, <1>4, <2>2, <2>3, Mounted, BackedDrop, Zenon
  <2>5. /\ meta' \in MetadataStates /\ meta'.devices = meta.devices
        /\ meta'.rwDevices = meta.rwDevices
        /\ meta'.overlays = meta.overlays /\ meta'.shares = meta.shares \ {path}
    BY <1>1, <1>4, Mounted, Zenon DEF MetadataStates
  <2>6. DOMAIN mounted' = DOMAIN mounted \ {path}
    BY <1>4, DropIs, Zenon
  <2>7. DOMAIN mounted' = meta'.devices \cup meta'.rwDevices \cup meta'.overlays \cup meta'.shares
    BY <1>1, <2>5, <2>6, Mounted, Zenon
  <2> QED  BY <1>1, <2>4, <2>5, <2>7, Zenon DEF MountInv, MetadataAgrees
<1> QED  BY <1>2, <1>3, <1>4, Zenon DEF RemoveShare

\* The layers of a container are combined.
LEMMA LayersAdded ==
  ASSUME MountInv, NEW id \in Ids, NEW layers \in LayersOf, NEW scratch \in Scratches(id),
         AddCombinedLayers(id, layers, scratch)
  PROVE  MountInv'
<1>1. PICK root : root = RootOf(id)
  BY Zenon
<1>2. /\ ~uvmError /\ ~uvmError' /\ UNCHANGED untracked
      /\ root \notin meta.overlays /\ root \notin DOMAIN devices
      /\ devices' = AddOverlay(devices, root, layers, scratch)
  BY <1>1, Zenon DEF AddCombinedLayers
<1>3. root \in Roots /\ scratch \in UsedPaths /\ layers \in Seq(UsedPaths)
  BY <1>1, MountsAssumption, SMTT(30) DEF Roots, UsedPaths
<1>4. PICK paths : paths = Append(layers, scratch)
  BY ZenonT(40)
<1>5. paths \in Seq(UsedPaths)
  BY <1>3, <1>4, SMTT(30)
<1>6. /\ DevicesOK(devices') /\ DOMAIN devices' = DOMAIN devices \cup {root}
      /\ \A p \in DOMAIN devices : devices'[p].refs = devices[p].refs
      /\ DOMAIN devices'[root].refs = DOMAIN paths
      /\ \A p \in DOMAIN devices, i \in DOMAIN paths : IsAbove(p, paths[i]) =>
           devices'[root].refs[i] = p
  <2>1. DevicesOK(devices') /\ OnTop(devices, devices', root, paths)
    BY <1>2, <1>3, <1>4, OverlayAdded, ZenonT(40) DEF MountInv
  <2> QED  BY <2>1, Zenon DEF OnTop
<1>7. \A r \in DOMAIN devices : r \in DOMAIN devices' /\ devices'[r].refs = devices[r].refs
  BY <1>6, Zenon
<1>8. CASE UNCHANGED <<meta, mounted>>
  BY <1>2, <1>6, <1>7, <1>8, Mounted, BackedKept, ZenonT(40) DEF MountInv, MetadataAgrees
<1>9. CASE meta' = AllowOverlay(id, scratch) /\ mounted' = Put(mounted, root, Below(paths))
  <2>1. root \notin DOMAIN mounted /\ root \notin LayerPaths \cup DiskPaths
    BY <1>2, <1>3, Mounted, MountsAssumption, Zenon
  <2>2. ASSUME NEW p \in Below(paths), p \notin untracked
        PROVE  IsDisk(mounted, p) /\ Refers(devices', root, p)
    <3>1. PICK disks : disks = [x \in Disks |-> mounted[x]]
      BY ZenonT(40)
    <3>2. PICK i \in DOMAIN paths : p = findDeviceContainingPath(disks, paths[i]) /\ p # NoPath
      BY <2>2, <3>1, Zenon DEF Below
    <3>3. DOMAIN disks = Disks /\ \A x \in Disks : /\ IsDisk(mounted, x) /\ x \in DevicePaths
                                                  /\ x \in DOMAIN devices \cup untracked
      BY <1>2, <3>1, Mounted, Zenon DEF Disks, IsDisk, Backed, DevicePaths
    <3>4. paths[i] \in UsedPaths /\ DOMAIN disks \subseteq DevicePaths
      <4>1. paths[i] \in UsedPaths
        BY <1>5, <3>2, SMTT(30)
      <4>2. DOMAIN disks \subseteq DevicePaths
        BY <3>3, Zenon
      <4> QED  BY <4>1, <4>2, Zenon
    <3>5. p \in DOMAIN disks /\ IsAbove(p, paths[i])
      BY <3>2, <3>4, FindIs, ZenonT(40)
    <3>6. devices'[root].refs[i] = p /\ root \in DOMAIN devices' /\ i \in DOMAIN devices'[root].refs
      BY <1>6, <2>2, <3>2, <3>3, <3>5, Zenon
    <3> QED  BY <3>3, <3>5, <3>6, Zenon DEF Refers
  <2>3. Backed(devices', mounted', untracked')
    BY <1>2, <1>7, <1>9, <2>1, <2>2, Mounted, BackedPut, ZenonT(40)
  <2>4. /\ meta' \in MetadataStates /\ meta'.devices = meta.devices
        /\ meta'.rwDevices = meta.rwDevices
        /\ meta'.overlays = meta.overlays \cup {root} /\ meta'.shares = meta.shares
    BY <1>1, <1>2, <1>3, <1>9, Mounted, Zenon DEF AllowOverlay, MetadataStates
  <2>5. DOMAIN mounted' = DOMAIN mounted \cup {root}
    BY <1>9, PutIs, ZenonT(40)
  <2>6. DOMAIN mounted' = meta'.devices \cup meta'.rwDevices \cup meta'.overlays \cup meta'.shares
    BY <1>2, <2>4, <2>5, Mounted, Zenon
  <2> QED  BY <1>6, <2>3, <2>4, <2>6, ZenonT(40) DEF MountInv, MetadataAgrees
<1> QED  BY <1>1, <1>4, <1>8, <1>9, Zenon DEF AddCombinedLayers

\* The combined layers of a container are removed.
LEMMA LayersRemoved ==
  ASSUME MountInv, NEW root \in Roots, NEW inUse, RemoveCombinedLayers(root, inUse)
  PROVE  MountInv'
<1>1. ~uvmError /\ root \in meta.overlays /\ UNCHANGED untracked
  BY Zenon DEF RemoveCombinedLayers
<1>2. CASE uvmError' = TRUE /\ UNCHANGED <<devices, meta>>
  BY <1>2, MountFails, ZenonT(40)
<1>3. CASE /\ devices' = RemoveOverlay(devices, root) /\
                meta' = [meta EXCEPT !.overlays = @ \ {root}]
           /\ mounted' = Drop(mounted, root) /\ UNCHANGED uvmError
  <2>1. /\ DevicesOK(devices') /\ DOMAIN devices' = DOMAIN devices \ {root}
        /\ \A p \in DOMAIN devices' : devices'[p].refs = devices[p].refs
    BY <1>3, OverlayRemoved, Zenon DEF MountInv
  <2>2. Keeps(devices, devices', root)
    BY <2>1, Zenon DEF Keeps
  <2>3. ~IsDisk(mounted, root)
    BY MountsAssumption, Zenon DEF IsDisk
  <2>4. root \in untracked \/ \A q \in DOMAIN mounted \cap Roots : root \notin mounted[q]
    BY <1>1, <2>3, Mounted, Zenon DEF Backed
  <2>5. Backed(devices', mounted', untracked')
    BY <1>1, <1>3, <2>2, <2>4, Mounted, BackedDrop, ZenonT(40)
  <2>6. /\ meta' \in MetadataStates /\ meta'.devices = meta.devices
        /\ meta'.rwDevices = meta.rwDevices
        /\ meta'.overlays = meta.overlays \ {root} /\ meta'.shares = meta.shares
    BY <1>1, <1>3, Mounted, Zenon DEF MetadataStates
  <2>7. DOMAIN mounted' = DOMAIN mounted \ {root}
    BY <1>3, DropIs, ZenonT(40)
  <2>8. DOMAIN mounted' = meta'.devices \cup meta'.rwDevices \cup meta'.overlays \cup meta'.shares
    BY <1>1, <2>6, <2>7, Mounted, MountsAssumption, SMTT(30)
  <2> QED  BY <2>1, <2>5, <2>6, <2>8, Zenon DEF MountInv, MetadataAgrees
<1> QED  BY <1>2, <1>3, Zenon DEF RemoveCombinedLayers

\* Every mount request keeps MountInv.
LEMMA ModifyMountsInv ==
  ASSUME MountInv, ModifyMounts(InUse)
  PROVE  MountInv'
<1>1. ASSUME NEW path \in LayerPaths \cup DiskPaths, NEW source \in Sources, NEW ro \in BOOLEAN,
             AddDisk(path, source, ro) \/ RemoveDisk(path, source, ro)
      PROVE  MountInv'
  BY <1>1, DiskAdded, DiskRemoved, Zenon
<1>2. ASSUME NEW path \in LayerPaths, AddPmem(path) \/ RemovePmem(path) PROVE MountInv'
  BY <1>2, PmemChanges, Zenon
<1>3. ASSUME NEW path \in SharePaths, AddShare(path) \/ RemoveShare(path) PROVE MountInv'
  BY <1>3, ShareChanges, Zenon
<1>4. ASSUME NEW id \in Ids, NEW layers \in LayersOf, NEW scratch \in Scratches(id),
             AddCombinedLayers(id, layers, scratch)
      PROVE  MountInv'
  BY <1>4, LayersAdded, Zenon
<1>5. ASSUME NEW id \in Ids, RemoveCombinedLayers(RootOf(id), InUse(RootOf(id))) PROVE MountInv'
  <2>1. RootOf(id) \in Roots
    BY Zenon DEF Roots
  <2> QED  BY <1>5, <2>1, LayersRemoved, Zenon
<1> QED  BY <1>1, <1>2, <1>3, <1>4, <1>5, Zenon DEF ModifyMounts

\* The creation of a container is recorded in the policy's metadata.
LEMMA EnforceMounts ==
  ASSUME MountInv, NEW id \in Ids, meta' \in {meta, Enforce(id)}, UNCHANGED <<devices, mounted,
           uvmError, untracked>>
  PROVE  MountInv'
<1>1. /\ meta' \in MetadataStates /\ meta'.devices = meta.devices /\
           meta'.rwDevices = meta.rwDevices
      /\ meta'.overlays = meta.overlays /\ meta'.shares = meta.shares
  BY DEF Enforce, MountInv, MetadataStates
<1> QED  BY <1>1, Zenon DEF MountInv, MetadataAgrees

\* Every step of the guest keeps MountInv.
LEMMA MountStep ==
  ASSUME MountInv, [Next]_vars
  PROVE  MountInv'
<1>1. CASE UNCHANGED mountVars
  BY <1>1, Zenon DEF mountVars, MountInv, MetadataAgrees
<1>2. ASSUME NEW o \in Objs, CreateContainer(o) \/ Steps(o) \/ StartContainer(o) \/
               DeleteContainerState(o)
      PROVE  MountInv'
  <2>1. CASE Build(o) \/ CreateFails(o)
    <3>1. meta' \in {meta, Enforce(IdOf[o])} /\ UNCHANGED <<devices, mounted, uvmError, untracked>>
      BY <2>1, Zenon DEF Build, CreateFails
    <3> QED  BY <3>1, IdType, EnforceMounts, Zenon
  <2>2. Build(o) \/ CreateFails(o) \/ UNCHANGED mountVars
    BY <1>2, Zenon
       DEF CreateContainer, StartContainer, DeleteContainerState, Steps, registerSandboxRoot,
         createPodInUVM, createContainerInPod, Created, AssignContainerPid, SyncCreated, Started,
           Deleted
  <2> QED  BY <1>1, <2>1, <2>2, Zenon
<1>3. CASE \E e \in Execs : ExecProcess(e)
  BY <1>1, <1>3, Zenon DEF ExecProcess
<1>4. CASE \E p \in Procs : ProcessExits(p) \/ \E g \in {"cleanup", "announce"} : Resume(p, g)
  BY <1>1, <1>4, Zenon DEF ProcessExits, Resume
<1>5. CASE \E w \in Waits : WaitOnProcess(w) \/ WaitAnswers(w) \/ WaitHasCode(w) \/ WaitReleases(w)
  BY <1>1, <1>5, Zenon DEF WaitOnProcess, WaitAnswers, WaitHasCode, WaitReleases
<1>6. CASE \E n \in Nics : AddAdapter(n) \/ AdapterAdded(n) \/ RemoveAdapter(n)
  BY <1>1, <1>6, Zenon DEF AddAdapter, AdapterAdded, RemoveAdapter
<1>7. CASE ModifyHost
  BY <1>7, ModifyMountsInv, Zenon DEF ModifyHost
<1>8. CASE UNCHANGED vars
  BY <1>1, <1>8, Zenon DEF vars
<1> QED  BY <1>2, <1>3, <1>4, <1>5, <1>6, <1>7, <1>8, ZenonT(40) DEF Next, Background

\* MountInv holds in every state.
LEMMA MountAlwaysInv == Spec => []MountInv
<1>1. Init => MountInv
  BY MountInit, Zenon DEF Init
<1>2. MountInv /\ [Next]_vars => MountInv'
  BY MountStep, Zenon
<1> QED  BY <1>1, <1>2, PTL DEF Spec

\* The metadata the policy decides by always says what is mounted in the
\* guest, or the guest has stopped taking requests.
THEOREM MetadataAlwaysAgrees == Spec => []MetadataAgrees
<1>1. MountInv => MetadataAgrees
  BY Zenon DEF MountInv, MetadataAgrees
<1> QED  BY <1>1, MountAlwaysInv, PTL

\* The disks under a mounted overlay are never unmounted before it, but for
\* the disks HostMounts lost track of (their removal found no directory, or
\* was one of a pmem device), and the usage of a device is always the number
\* of references of the recorded overlays to it.
THEOREM OverlaysAlwaysBacked == Spec => []OverlayBacked
<1>1. ASSUME MountInv PROVE OverlayBacked
  <2>1. ~uvmError => \A root \in Overlays : mounted[root] \subseteq DOMAIN mounted \cup untracked
    BY <1>1, Mounted, Zenon DEF Backed, IsDisk, Overlays
  <2>2. UsageExact
    BY <1>1, Zenon DEF MountInv, DevicesOK, UsageExact, RefsTo, Own
  <2> QED  BY <2>1, <2>2, Zenon DEF OverlayBacked
<1> QED  BY <1>1, MountAlwaysInv, PTL
=============================================================================

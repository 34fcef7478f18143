---------------------------- MODULE DockerImages ----------------------------
(***************************************************************************)
(* The operations on the images and the unmanaged containers of the host:  *)
(* DELETE_IMAGE, INSPECT_IMAGE and DELETE_CONTAINER                        *)
(* (internal/dockerinventory/manager.go) and DEPLOY_IMAGE                  *)
(* (internal/imagedeploy/manager.go), call by call of the Docker daemon,   *)
(* which others use as well.  The command loop runs one operation at a     *)
(* time.                                                                   *)
(***************************************************************************)
EXTENDS Naturals, Sequences, FiniteSets, SequencesExt

CONSTANTS
  Ids,         \* image identifiers
  Tags,        \* references with a tag
  Cids,        \* container identifiers; none is used twice
  Names,       \* container names
  Archives,    \* what an archive may hold, see Entry
  MaxFaults,   \* bound: failing calls and downloads
  MaxForeign,  \* bound: acts of others
  None

Entry == [id: Ids, tag: Tags \cup {None}]

ASSUME ImagesAssumption ==
  /\ None \notin Ids \cup Tags \cup Cids \cup Names
  /\ Tags \cap Ids = {} /\ Tags # {} /\ IsFiniteSet(Tags)
  /\ Archives \subseteq Seq(Entry) \ {<<>>}
  /\ MaxFaults \in Nat /\ MaxForeign \in Nat

Container == [name: Names, image: Ids, managed: BOOLEAN]

(* The commands: what the server may ask for. *)
Operations ==
  [kind: {"delete", "inspect"}, target: Tags \cup Ids]
    \cup [kind: {"container"}, target: Names]
    \cup [kind: {"deploy"}, target: Tags, archive: Archives, overwrite: BOOLEAN]

VARIABLES
  (* The daemon. *)
  images,      \* the images it holds
  tag,         \* what each reference denotes
  containers,  \* what each container identifier stands for
  spent,       \* container identifiers in use or used up
  (* The operation. *)
  op, phase,
  pc,          \* the call it is about to make
  found,       \* the identifier it has inspected
  refs,        \* the references it has still to remove, in order
  (* History of the operation. *)
  before,      \* the references when it began
  raced,       \* references others changed since the last look at the target
  clean,       \* so far no call failed and nobody else acted
  (* Bounds. *)
  faults, acts

daemonVars == <<images, tag, containers, spent>>
bounds     == <<faults, acts>>
vars == <<daemonVars, op, phase, pc, found, refs, before, raced, clean, bounds>>

Idle == [kind |-> "inspect", target |-> CHOOSE t \in Tags : TRUE]

(* The daemon keeps the images of its containers and one container a name. *)
Consistent ==
  \A c \in Cids : containers[c] # None =>
    /\ c \in spent /\ containers[c].image \in images
    /\ \A d \in Cids : containers[d] # None =>
         c = d \/ containers[c].name # containers[d].name

DaemonOK ==
  /\ images \subseteq Ids
  /\ tag \in [Tags -> images \cup {None}]
  /\ containers \in [Cids -> Container \cup {None}]
  /\ Consistent

OperationOK ==
  /\ op \in Operations
  /\ phase \in {"idle", "running", "ok", "failed"}
  /\ pc \in {"inspect", "list", "check", "remove", "verify", "present",
             "download", "load", "tag", "confirm", "find", "kill"}
  /\ found \in Ids \cup Tags \cup Cids \cup {None}
  /\ refs \in Seq(Tags \cup Ids)
  /\ raced \subseteq Tags /\ clean \in BOOLEAN

TypeOK ==
  /\ DaemonOK /\ OperationOK
  /\ faults \in 0..MaxFaults /\ acts \in 0..MaxForeign

Init ==
  /\ images \in SUBSET Ids
  /\ tag \in [Tags -> images \cup {None}]
  /\ containers \in [Cids -> Container \cup {None}]
  /\ spent = {c \in Cids : containers[c] # None}
  /\ Consistent
  /\ op = Idle /\ phase = "idle" /\ pc = "inspect" /\ found = None /\ refs = <<>>
  /\ before = tag /\ raced = {} /\ clean = TRUE
  /\ faults = 0 /\ acts = 0

-----------------------------------------------------------------------------
(* The daemon. *)

Resolve(ref) ==
  IF ref \in Tags THEN tag[ref] ELSE IF ref \in images THEN ref ELSE None

References(i) == {t \in Tags : tag[t] = i}
InUse(i)      == \E c \in Cids : containers[c] # None /\ containers[c].image = i
Named(n)      == {c \in Cids : containers[c] # None /\ containers[c].name = n}

Untag(ts) == tag' = [t \in Tags |-> IF t \in ts THEN None ELSE tag[t]]

(* Removing the last reference removes the image, unless it has children;  *)
(* an image in use keeps its last reference; an image with several         *)
(* references is not removed by its identifier.                            *)
Removable(ref) ==
  LET i == Resolve(ref) IN
  /\ i # None
  /\ References(i) \subseteq {ref} \/ ref \in Ids => ~InUse(i)
  /\ ref \in Ids => \A t, u \in References(i) : t = u

(* Faulty ImageRemove: the reference is kept with the image. *)
RemoveOnlyImage(ref) == images' = images \ {Resolve(ref)} /\ UNCHANGED tag

ImageRemove(ref) ==
  LET i == Resolve(ref) IN
  IF ref \in Tags /\ References(i) # {ref}
    THEN Untag({ref}) /\ UNCHANGED images
    ELSE /\ Untag(References(i))
         /\ images' \in {images, images \ {i}}

(* The images of the archive and their references; if several have the     *)
(* same reference, one of them gets it.                                    *)
Load(entries) ==
  /\ images' = images \cup {entries[k].id : k \in DOMAIN entries}
  /\ tag' \in [Tags -> Ids \cup {None}]
  /\ \A t \in Tags :
       LET loaded == {k \in DOMAIN entries : entries[k].tag = t} IN
       IF loaded = {} THEN tag'[t] = tag[t]
       ELSE \E k \in loaded : tag'[t] = entries[k].id

-----------------------------------------------------------------------------
(* Control of the operation. *)

At(stage)   == phase = "running" /\ pc = stage
Goto(stage) == pc' = stage /\ UNCHANGED phase
Fail        == phase' = "failed" /\ UNCHANGED pc
Succeed     == phase' = "ok" /\ UNCHANGED pc

Fault == faults < MaxFaults /\ faults' = faults + 1 /\ UNCHANGED acts

(* A call that reads, and the download with its progress reports, may fail *)
(* at any time.                                                            *)
ReadFails ==
  /\ phase = "running"
  /\ pc \in {"inspect", "list", "check", "verify", "present", "download",
             "confirm", "find"}
  /\ Fault /\ Fail
  /\ clean' = FALSE
  /\ UNCHANGED <<daemonVars, op, found, refs, before, raced>>

(* The rest of a step that reads. *)
Reads == UNCHANGED <<daemonVars, op, before, clean, bounds>>

-----------------------------------------------------------------------------
(* DELETE_IMAGE and INSPECT_IMAGE. *)

(* INSPECT_IMAGE: the creation time may not parse. *)
Details == Succeed \/ Fail

InspectTarget ==
  /\ At("inspect")
  /\ LET i == Resolve(op.target) IN
     \/ i = None /\ Fail /\ UNCHANGED <<found, refs>>
     \/ i # None /\ op.kind = "inspect" /\ Details /\ UNCHANGED <<found, refs>>
     \/ /\ i # None /\ op.kind = "delete" /\ Goto("list")
        /\ found' = i
        /\ refs' = IF References(i) = {} THEN <<i>> ELSE SetToSeq(References(i))
  /\ UNCHANGED raced /\ Reads

(* Faulty ListContainers: stopped containers are not listed. *)
ListRunning ==
  /\ At("list")
  /\ Fail \/ Goto("check")
  /\ UNCHANGED <<found, refs, raced>> /\ Reads

ListContainers ==
  /\ At("list")
  /\ IF InUse(found) THEN Fail ELSE Goto("check")
  /\ UNCHANGED <<found, refs, raced>> /\ Reads

(* Faulty CheckReference: any image will do. *)
CheckExists ==
  /\ At("check")
  /\ IF Resolve(Head(refs)) # None THEN Goto("remove") ELSE Fail
  /\ raced' = {}
  /\ UNCHANGED <<found, refs>> /\ Reads

CheckReference ==
  /\ At("check")
  /\ IF Resolve(Head(refs)) = found THEN Goto("remove") ELSE Fail
  /\ raced' = {}
  /\ UNCHANGED <<found, refs>> /\ Reads

(* An error of the daemon may come after the removal. *)
RemoveReference ==
  /\ At("remove")
  /\ \/ /\ Removable(Head(refs)) /\ ImageRemove(Head(refs))
        /\ refs' = Tail(refs)
        /\ Goto(IF Tail(refs) = <<>> THEN "verify" ELSE "check")
        /\ UNCHANGED <<clean, bounds>>
     \/ /\ ~Removable(Head(refs)) /\ Fail
        /\ UNCHANGED <<images, tag, refs, clean, bounds>>
     \/ /\ Fault /\ Fail /\ clean' = FALSE
        /\ \/ Removable(Head(refs)) /\ ImageRemove(Head(refs))
           \/ UNCHANGED <<images, tag>>
        /\ UNCHANGED refs
  /\ UNCHANGED <<containers, spent, op, found, before, raced>>

VerifyRemoved ==
  /\ At("verify")
  /\ IF found \in images THEN Fail ELSE Succeed
  /\ UNCHANGED <<found, refs, raced>> /\ Reads

-----------------------------------------------------------------------------
(* DELETE_CONTAINER. *)

FindContainer ==
  /\ At("find")
  /\ \/ \E c \in Named(op.target) :
          \/ containers[c].managed /\ Fail /\ UNCHANGED found
          \/ ~containers[c].managed /\ Goto("kill") /\ found' = c
     \/ Named(op.target) = {} /\ Fail /\ UNCHANGED found
  /\ UNCHANGED <<refs, raced>> /\ Reads

(* Faulty Doomed: what has the name by now. *)
DoomedByName == Named(op.target)

(* What ContainerRemove will remove. *)
Doomed == {c \in Cids : c = found /\ containers[c] # None}

RemoveContainer ==
  /\ At("kill")
  /\ \/ /\ Doomed # {} /\ Succeed
        /\ containers' = [c \in Cids |-> IF c \in Doomed THEN None ELSE containers[c]]
        /\ UNCHANGED <<clean, bounds>>
     \/ Doomed = {} /\ Fail /\ UNCHANGED <<containers, clean, bounds>>
     \/ /\ Fault /\ Fail /\ clean' = FALSE
        /\ \/ UNCHANGED containers
           \/ containers' = [c \in Cids |-> IF c \in Doomed THEN None ELSE containers[c]]
  /\ UNCHANGED <<images, tag, spent, op, found, refs, before, raced>>

-----------------------------------------------------------------------------
(* DEPLOY_IMAGE. *)

IfPresent ==
  /\ At("present")
  /\ IF Resolve(op.target) # None /\ ~op.overwrite THEN Fail ELSE Goto("download")
  /\ UNCHANGED <<found, refs, raced>> /\ Reads

Download ==
  /\ At("download") /\ Goto("load")
  /\ UNCHANGED <<found, refs, raced>> /\ Reads

(* Faulty Loaded: the first line of the output. *)
LoadedFirst(entries) ==
  IF entries[1].tag = None THEN entries[1].id ELSE entries[1].tag

(* parseLoadedImage: the one reference or identifier the output names. *)
Loaded(entries) ==
  IF Len(entries) # 1 THEN None
  ELSE IF entries[1].tag = None THEN entries[1].id ELSE entries[1].tag

(* An error may come after a part of the archive has been loaded. *)
LoadArchive ==
  /\ At("load")
  /\ \/ /\ Load(op.archive)
        /\ found' = Loaded(op.archive)
        /\ IF Loaded(op.archive) = None THEN Fail
           ELSE Goto(IF Loaded(op.archive) = op.target THEN "confirm" ELSE "tag")
        /\ UNCHANGED <<clean, bounds>>
     \/ /\ Fault /\ Fail /\ clean' = FALSE
        /\ \E n \in 0..Len(op.archive) : Load(SubSeq(op.archive, 1, n))
        /\ UNCHANGED found
  /\ UNCHANGED <<containers, spent, op, refs, before, raced>>

TagTarget ==
  /\ At("tag")
  /\ \/ /\ Resolve(found) # None
        /\ tag' = [tag EXCEPT ![op.target] = Resolve(found)]
        /\ \/ Goto("confirm") /\ UNCHANGED <<clean, bounds>>
           \/ Fault /\ Fail /\ clean' = FALSE
     \/ /\ \/ Resolve(found) = None /\ UNCHANGED <<clean, bounds>>
           \/ Fault /\ clean' = FALSE
        /\ Fail /\ UNCHANGED tag
  /\ UNCHANGED <<images, containers, spent, op, found, refs, before, raced>>

ConfirmTarget ==
  /\ At("confirm")
  /\ IF Resolve(op.target) # None
       THEN Succeed /\ found' = Resolve(op.target)
       ELSE Fail /\ UNCHANGED found
  /\ UNCHANGED <<refs, raced>> /\ Reads

Execute ==
  \/ InspectTarget \/ ListContainers \/ CheckReference \/ RemoveReference
  \/ VerifyRemoved \/ FindContainer \/ RemoveContainer \/ IfPresent
  \/ Download \/ LoadArchive \/ TagTarget \/ ConfirmTarget \/ ReadFails

-----------------------------------------------------------------------------
FirstCall(kind) ==
  IF kind = "container" THEN "find"
  ELSE IF kind = "deploy" THEN "present" ELSE "inspect"

(* The dispatcher begins the operation of the next command: the one before *)
(* has returned, or the agent ended in its middle, and nothing resumes it. *)
Begin(o) ==
  /\ op' = o /\ phase' = "running" /\ pc' = FirstCall(o.kind)
  /\ found' = None /\ refs' = <<>>
  /\ before' = tag /\ raced' = {} /\ clean' = TRUE
  /\ UNCHANGED <<daemonVars, bounds>>

Act ==
  /\ acts < MaxForeign /\ acts' = acts + 1
  /\ clean' = FALSE
  /\ UNCHANGED <<op, phase, pc, found, refs, before, faults>>

(* Others load or build an image and tag it, or move or remove a tag. *)
OthersTag(t) ==
  /\ Act
  /\ \E i \in Ids \cup {None} :
       /\ tag' = [tag EXCEPT ![t] = i]
       /\ images' = IF i = None THEN images ELSE images \cup {i}
  /\ raced' = raced \cup {t}
  /\ UNCHANGED <<containers, spent>>

(* Others create a container, perhaps one of the platform. *)
OthersCreate(c) ==
  /\ Act /\ c \notin spent
  /\ \E n \in Names, i \in images, m \in BOOLEAN :
       /\ Named(n) = {}
       /\ containers' = [containers EXCEPT ![c] = [name |-> n, image |-> i, managed |-> m]]
  /\ spent' = spent \cup {c}
  /\ UNCHANGED <<images, tag, raced>>

OthersRemove(c) ==
  /\ Act /\ containers[c] # None
  /\ containers' = [containers EXCEPT ![c] = None]
  /\ UNCHANGED <<images, tag, spent, raced>>

Others ==
  \/ \E t \in Tags : OthersTag(t)
  \/ \E c \in Cids : OthersCreate(c) \/ OthersRemove(c)

Next == Execute \/ (\E o \in Operations : Begin(o)) \/ Others

Spec == Init /\ [][Next]_vars

-----------------------------------------------------------------------------
(* What a removal may rely on: inductive by itself, and the first and the  *)
(* last of the properties below follow from it.                            *)
TargetInv ==
  /\ tag = [t \in Tags |-> tag[t]]
  /\ containers = [c \in Cids |-> containers[c]]
  /\ acts \in Nat
  /\ \A c \in Cids : containers[c] # None => c \in spent
  /\ \A stage \in {"list", "check", "remove", "verify"} : At(stage) => found # None
  /\ At("remove") =>
       IF Head(refs) \in Tags THEN tag[Head(refs)] = found \/ Head(refs) \in raced
       ELSE Head(refs) = found
  /\ At("kill") =>
       /\ found \in Cids \cap spent
       /\ containers[found] = None \/ ~containers[found].managed

(* A removal of a reference hits only the image that was inspected, listed *)
(* as unused and checked again, unless somebody moved that very reference  *)
(* since the check: "Docker has no atomic compare-and-untag API"           *)
(* (dockerinventory/manager.go:66-83).                                     *)
RemovesOnlyTheInspected ==
  [][\A t \in Tags :
       At("remove") /\ acts' = acts /\ tag'[t] # tag[t] =>
         tag[t] = found \/ t \in raced]_vars

(* A deletion that nobody disturbs is all or nothing: an image in use,     *)
(* also by a stopped container, keeps all its references; one with         *)
(* children stays, without references, and the deletion fails              *)
(* (manager.go:57-65, 84-89; docker_integration_test.go:77-84).            *)
UndisturbedDeletionIsAtomic ==
  op.kind = "delete" /\ clean =>
    /\ phase = "failed" => tag = before \/ References(found) = {}
    /\ phase = "ok" => found \notin images

(* The agent never removes a container with the labels of the platform,    *)
(* whatever takes the name between the inspection and the removal          *)
(* (manager.go:34-44).                                                     *)
ManagedIsKept ==
  [][\A c \in Cids :
       containers[c] # None /\ containers[c].managed /\ containers'[c] = None
         => acts' # acts]_vars

(* A deployment that succeeds undisturbed leaves the target on the one     *)
(* image of the archive, reports that image, and has replaced another only *)
(* when it was allowed to (imagedeploy/manager.go:49-53, 81-110).          *)
DeployedIsTheArchive ==
  op.kind = "deploy" /\ phase = "ok" /\ clean =>
    /\ Len(op.archive) = 1
    /\ found = op.archive[1].id /\ tag[op.target] = found
    /\ op.overwrite \/ before[op.target] = None

-----------------------------------------------------------------------------
(* The inductive invariant behind the last two.                            *)

Stages(kind) ==
  IF kind = "delete" THEN {"inspect", "list", "check", "remove", "verify"}
  ELSE IF kind = "inspect" THEN {"inspect"}
  ELSE IF kind = "container" THEN {"find", "kill"}
  ELSE {"present", "download", "load", "tag", "confirm"}

StageInv ==
  /\ phase = "running" => pc \in Stages(op.kind)
  /\ At("list") \/ At("check") \/ At("remove") => refs # <<>>

(* refs are the references of the image, each once, or its identifier.     *)
Remaining ==
  \/ refs = <<found>> /\ found \in images /\ References(found) = {}
  \/ /\ \A t \in Tags : tag[t] = found <=> \E k \in DOMAIN refs : refs[k] = t
     /\ \A j, k \in DOMAIN refs : refs[j] = refs[k] => j = k
     /\ \A k \in DOMAIN refs : refs[k] \in Tags

DeleteInv ==
  op.kind = "delete" /\ clean =>
    /\ At("inspect") \/ At("list") => tag = before
    /\ At("list") \/ At("check") \/ At("remove") => Remaining
    /\ At("check") \/ At("remove") => ~InUse(found)
    /\ At("verify") => References(found) = {}

DeployInv ==
  op.kind = "deploy" /\ clean =>
    /\ At("present") \/ At("download") \/ At("load") => tag = before
    /\ phase = "running" /\ pc # "present" => op.overwrite \/ before[op.target] = None
    /\ At("tag") \/ At("confirm") => Len(op.archive) = 1
    /\ At("tag") => Resolve(found) = op.archive[1].id
    /\ At("confirm") => tag[op.target] = op.archive[1].id

(* Types, what the removals rely on, and what an undisturbed deletion or   *)
(* deployment has reached at each call (dockerinventory/manager.go:34-89,  *)
(* imagedeploy/manager.go:45-110).                                         *)
IInv ==
  /\ TypeOK /\ TargetInv
  /\ StageInv /\ DeleteInv /\ DeployInv
  /\ UndisturbedDeletionIsAtomic /\ DeployedIsTheArchive
=============================================================================

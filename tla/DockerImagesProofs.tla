------------------------- MODULE DockerImagesProofs -------------------------
(* Proofs about DockerImages, for any images, references, containers and    *)
(* archives, any number of failing calls and of acts of others.            *)
EXTENDS DockerImages, FiniteSetTheorems, TLAPS

(* What every step relies on, and the invariants of the two operations. *)
Base       == TypeOK /\ TargetInv /\ StageInv
Deletion   == DeleteInv /\ UndisturbedDeletionIsAtomic
Deployment == DeployInv /\ DeployedIsTheArchive

(* The elements of a finite set in some order, each once. *)
LEMMA Enumeration ==
  ASSUME NEW S, IsFiniteSet(S), S # {}
  PROVE  /\ SetToSeq(S) \in Seq(S) /\ SetToSeq(S) # <<>>
         /\ \A x : x \in S <=> \E k \in DOMAIN SetToSeq(S) : SetToSeq(S)[k] = x
         /\ \A j, k \in DOMAIN SetToSeq(S) : SetToSeq(S)[j] = SetToSeq(S)[k] => j = k
<1> DEFINE n == Cardinality(S)
           D == 1..n
           f == SetToSeq(S)
<1>1. n \in Nat /\ ExistsBijection(D, S)
  BY FS_CardinalityType
<1>2. PICK g \in [D -> S] : IsInjective(g)
  BY <1>1 DEF ExistsBijection, Bijection, Injection, IsInjective
<1>3. f \in [D -> S] /\ IsInjective(f)
  BY <1>2 DEF SetToSeq
<1> HIDE DEF f
<1>4. f \in Injection(D, S)
  BY <1>3 DEF Injection, IsInjective
<1>5. IsFiniteSet(D) /\ Cardinality(D) = n
  BY <1>1, FS_Interval
<1>6. f \in Surjection(D, S)
  BY <1>4, <1>5, FS_Injection
<1>7. n # 0
  BY FS_EmptySet
<1>8. f \in Seq(S) /\ DOMAIN f = D /\ f # <<>>
  BY <1>1, <1>3, <1>7
<1>9. \A x : x \in S <=> \E k \in D : f[k] = x
  BY <1>3, <1>6 DEF Surjection
<1>10. \A j, k \in D : f[j] = f[k] => j = k
  BY <1>3 DEF IsInjective
<1>11. QED
  BY <1>8, <1>9, <1>10 DEF f

(* What an archive holds. *)
LEMMA EntryType ==
  ASSUME NEW es \in Seq(Entry), NEW k \in DOMAIN es
  PROVE  es[k].id \in Ids /\ es[k].tag \in Tags \cup {None}
<1>1. es[k] \in Entry
  OBVIOUS
<1>2. QED
  BY <1>1 DEF Entry

(* The references of an image, in the order of their removal. *)
LEMMA ReferencesType ==
  ASSUME NEW i, References(i) # {}
  PROVE  SetToSeq(References(i)) \in Seq(Tags \cup Ids)
<1>1. References(i) \subseteq Tags /\ IsFiniteSet(References(i))
  BY FS_Subset, ImagesAssumption DEF References
<1>2. SetToSeq(References(i)) \in Seq(References(i))
  BY <1>1, Enumeration
<1>3. QED
  BY <1>1, <1>2

(* Every step keeps what a removal relies on. *)
LEMMA TargetStep == TargetInv /\ [Next]_vars => TargetInv'
<1> SUFFICES ASSUME TargetInv, [Next]_vars PROVE TargetInv'
  OBVIOUS
<1> USE DEF TargetInv, vars, daemonVars, bounds, At, Goto, Fail, Succeed,
         Reads, Fault, Act
<1>1. CASE InspectTarget
  BY <1>1, ImagesAssumption DEF InspectTarget, Details, Resolve
<1>2. CASE ListContainers
  BY <1>2, ImagesAssumption DEF ListContainers
<1>3. CASE CheckReference
  BY <1>3, ImagesAssumption DEF CheckReference, Resolve
<1>4. CASE RemoveReference
  BY <1>4, ImagesAssumption DEF RemoveReference, ImageRemove, Untag, Resolve
<1>5. CASE VerifyRemoved
  BY <1>5, ImagesAssumption DEF VerifyRemoved
<1>6. CASE FindContainer
  BY <1>6, ImagesAssumption DEF FindContainer, Named
<1>7. CASE RemoveContainer
  BY <1>7, ImagesAssumption DEF RemoveContainer, Doomed
<1>8. CASE IfPresent
  BY <1>8, ImagesAssumption DEF IfPresent
<1>9. CASE Download
  BY <1>9, ImagesAssumption DEF Download
<1>10. CASE LoadArchive
  BY <1>10, ImagesAssumption DEF LoadArchive, Load
<1>11. CASE TagTarget
  BY <1>11, ImagesAssumption DEF TagTarget
<1>12. CASE ConfirmTarget
  BY <1>12, ImagesAssumption DEF ConfirmTarget
<1>13. CASE ReadFails
  BY <1>13, ImagesAssumption DEF ReadFails
<1>14. ASSUME NEW o \in Operations, Begin(o) PROVE TargetInv'
  BY <1>14, ImagesAssumption DEF Begin, FirstCall
<1>15. ASSUME NEW t \in Tags, OthersTag(t) PROVE TargetInv'
  BY <1>15, ImagesAssumption DEF OthersTag
<1>16. ASSUME NEW c \in Cids, OthersCreate(c) PROVE TargetInv'
  BY <1>16, ImagesAssumption DEF OthersCreate
<1>17. ASSUME NEW c \in Cids, OthersRemove(c) PROVE TargetInv'
  BY <1>17, ImagesAssumption DEF OthersRemove
<1>18. CASE UNCHANGED vars
  BY <1>18
<1>19. QED
  BY <1>1, <1>2, <1>3, <1>4, <1>5, <1>6, <1>7, <1>8, <1>9, <1>10, <1>11,
     <1>12, <1>13, <1>14, <1>15, <1>16, <1>17, <1>18 DEF Next, Execute,
     Others

(* The bounds. *)
LEMMA Bound ==
  TypeOK /\ [Next]_vars => (faults \in 0..MaxFaults /\ acts \in 0..MaxForeign)'
<1> SUFFICES ASSUME TypeOK, [Next]_vars
             PROVE  (faults \in 0..MaxFaults /\ acts \in 0..MaxForeign)'
  OBVIOUS
<1>1. \/ UNCHANGED faults
      \/ faults < MaxFaults /\ faults' = faults + 1
  BY DEF Next, Execute, Others, vars, bounds, Reads, Fault, Act, InspectTarget, Details,
     ListContainers, CheckReference, RemoveReference, VerifyRemoved,
     FindContainer, RemoveContainer, IfPresent, Download, LoadArchive,
     TagTarget, ConfirmTarget, ReadFails, Begin, OthersTag, OthersCreate,
     OthersRemove
<1>2. \/ UNCHANGED acts
      \/ acts < MaxForeign /\ acts' = acts + 1
  BY DEF Next, Execute, Others, vars, bounds, Reads, Fault, Act, InspectTarget, Details,
     ListContainers, CheckReference, RemoveReference, VerifyRemoved,
     FindContainer, RemoveContainer, IfPresent, Download, LoadArchive,
     TagTarget, ConfirmTarget, ReadFails, Begin, OthersTag, OthersCreate,
     OthersRemove
<1>3. QED
  BY <1>1, <1>2, ImagesAssumption DEF TypeOK

(* An operation only makes its own calls. *)
LEMMA StageStep == StageInv /\ TypeOK /\ [Next]_vars => StageInv'
<1> SUFFICES ASSUME StageInv /\ TypeOK, [Next]_vars PROVE StageInv'
  OBVIOUS
<1> USE DEF vars, daemonVars, bounds, At, Goto, Fail, Succeed,
         Reads, Fault, Act, StageInv
<1>1. CASE InspectTarget
  <2>1. References(Resolve(op.target)) # {}
          => SetToSeq(References(Resolve(op.target))) # <<>>
    BY Enumeration, FS_Subset, ImagesAssumption DEF References
  <2>2. <<Resolve(op.target)>> # <<>>
    OBVIOUS
  <2>3. QED
    BY <1>1, <2>1, <2>2 DEF InspectTarget, Details, Stages
<1>2. CASE ListContainers
  BY <1>2 DEF ListContainers, Stages
<1>3. CASE CheckReference
  BY <1>3 DEF CheckReference, Stages
<1>4. CASE RemoveReference
  BY <1>4 DEF RemoveReference, Stages
<1>5. CASE VerifyRemoved
  BY <1>5 DEF VerifyRemoved, Stages
<1>6. CASE FindContainer
  BY <1>6 DEF FindContainer, Stages
<1>7. CASE RemoveContainer
  BY <1>7 DEF RemoveContainer, Stages
<1>8. CASE IfPresent
  BY <1>8 DEF IfPresent, Stages
<1>9. CASE Download
  BY <1>9 DEF Download, Stages
<1>10. CASE LoadArchive
  BY <1>10 DEF LoadArchive, Stages
<1>11. CASE TagTarget
  BY <1>11 DEF TagTarget, Stages
<1>12. CASE ConfirmTarget
  BY <1>12 DEF ConfirmTarget, Stages
<1>13. CASE ReadFails
  BY <1>13 DEF ReadFails, Stages
<1>14. ASSUME NEW o \in Operations, Begin(o) PROVE StageInv'
  <2>1. FirstCall(o.kind) \in Stages(o.kind)
    BY DEF FirstCall, Stages, Operations
  <2>2. FirstCall(o.kind) \notin {"list", "check", "remove"}
    BY DEF FirstCall
  <2>3. QED
    BY <1>14, <2>1, <2>2 DEF Begin
<1>15. ASSUME NEW t \in Tags, OthersTag(t) PROVE StageInv'
  BY <1>15 DEF OthersTag, Stages
<1>16. ASSUME NEW c \in Cids, OthersCreate(c) PROVE StageInv'
  BY <1>16 DEF OthersCreate, Stages
<1>17. ASSUME NEW c \in Cids, OthersRemove(c) PROVE StageInv'
  BY <1>17 DEF OthersRemove, Stages
<1>18. CASE UNCHANGED vars
  BY <1>18 DEF Stages
<1>19. QED
  BY <1>1, <1>2, <1>3, <1>4, <1>5, <1>6, <1>7, <1>8, <1>9, <1>10, <1>11,
     <1>12, <1>13, <1>14, <1>15, <1>16, <1>17, <1>18 DEF Next, Execute,
     Others

(* Types of the daemon's state; it keeps the images of its containers. *)
LEMMA DaemonStep == Base /\ [Next]_vars => DaemonOK'
<1> SUFFICES ASSUME Base, [Next]_vars PROVE DaemonOK'
  OBVIOUS
<1> USE DEF vars, daemonVars, bounds, At, Goto, Fail, Succeed,
         Reads, Fault, Act, Base, TypeOK, DaemonOK
<1>1. CASE InspectTarget
  BY <1>1, ImagesAssumption DEF InspectTarget, Details, Consistent
<1>2. CASE ListContainers
  BY <1>2, ImagesAssumption DEF ListContainers, Consistent
<1>3. CASE CheckReference
  BY <1>3, ImagesAssumption DEF CheckReference, Consistent
<1>4. CASE RemoveReference
  BY <1>4, ImagesAssumption DEF RemoveReference, Consistent, ImageRemove,
     Untag, Resolve, References, Removable, InUse
<1>5. CASE VerifyRemoved
  BY <1>5, ImagesAssumption DEF VerifyRemoved, Consistent
<1>6. CASE FindContainer
  BY <1>6, ImagesAssumption DEF FindContainer, Consistent
<1>7. CASE RemoveContainer
  BY <1>7, ImagesAssumption DEF RemoveContainer, Consistent, Doomed
<1>8. CASE IfPresent
  BY <1>8, ImagesAssumption DEF IfPresent, Consistent
<1>9. CASE Download
  BY <1>9, ImagesAssumption DEF Download, Consistent
<1>10. CASE LoadArchive
  <2>1. op.archive \in Seq(Entry)
    BY <1>10, ImagesAssumption
       DEF LoadArchive, StageInv, Stages, OperationOK, Operations
  <2>2. ASSUME NEW es \in Seq(Entry), Load(es)
        PROVE  /\ images \subseteq images' /\ images' \subseteq Ids
               /\ tag' \in [Tags -> images' \cup {None}]
    <3>1. \A k \in DOMAIN es : es[k].id \in Ids
      BY EntryType
    <3>2. images \subseteq images' /\ images' \subseteq Ids
      BY <2>2, <3>1 DEF Load
    <3>3. ASSUME NEW t \in Tags PROVE tag'[t] \in images' \cup {None}
      BY <2>2, <3>1, <3>2 DEF Load
    <3>4. QED
      BY <2>2, <3>2, <3>3 DEF Load
  <2>3. \A n \in 0..Len(op.archive) : SubSeq(op.archive, 1, n) \in Seq(Entry)
    BY <2>1
  <2>5. \E es \in Seq(Entry) : Load(es)
    BY <1>10, <2>1, <2>3 DEF LoadArchive
  <2>4. QED
    BY <1>10, <2>2, <2>5 DEF LoadArchive, Consistent
<1>11. CASE TagTarget
  <2>1. op.target \in Tags
    BY <1>11 DEF TagTarget, StageInv, Stages, OperationOK, Operations
  <2>2. Resolve(found) # None => Resolve(found) \in images
    BY DEF Resolve
  <2>3. QED
    BY <1>11, <2>1, <2>2 DEF TagTarget, Consistent
<1>12. CASE ConfirmTarget
  BY <1>12, ImagesAssumption DEF ConfirmTarget, Consistent
<1>13. CASE ReadFails
  BY <1>13, ImagesAssumption DEF ReadFails, Consistent
<1>14. ASSUME NEW o \in Operations, Begin(o) PROVE DaemonOK'
  BY <1>14, ImagesAssumption DEF Begin, Consistent
<1>15. ASSUME NEW t \in Tags, OthersTag(t) PROVE DaemonOK'
  BY <1>15, ImagesAssumption DEF OthersTag, Consistent
<1>16. ASSUME NEW c \in Cids, OthersCreate(c) PROVE DaemonOK'
  BY <1>16, ImagesAssumption DEF OthersCreate, Consistent, Named, Container
<1>17. ASSUME NEW c \in Cids, OthersRemove(c) PROVE DaemonOK'
  BY <1>17, ImagesAssumption DEF OthersRemove, Consistent
<1>18. CASE UNCHANGED vars
  BY <1>18 DEF Consistent
<1>19. QED
  BY <1>1, <1>2, <1>3, <1>4, <1>5, <1>6, <1>7, <1>8, <1>9, <1>10, <1>11,
     <1>12, <1>13, <1>14, <1>15, <1>16, <1>17, <1>18 DEF Next, Execute,
     Others

(* Types of the operation's state. *)
LEMMA OperationStep == Base /\ [Next]_vars => OperationOK'
<1> SUFFICES ASSUME Base, [Next]_vars PROVE OperationOK'
  OBVIOUS
<1> USE DEF vars, daemonVars, bounds, At, Goto, Fail, Succeed,
         Reads, Fault, Act, Base, TypeOK, OperationOK
<1>1. CASE InspectTarget
  <2>1. Resolve(op.target) \in Ids \cup {None}
    BY DEF Resolve, DaemonOK
  <2>2. Resolve(op.target) # None => <<Resolve(op.target)>> \in Seq(Tags \cup Ids)
    BY <2>1
  <2>3. Resolve(op.target) # None => refs' \in Seq(Tags \cup Ids)
    BY <1>1, <2>2, ReferencesType DEF InspectTarget, Details
  <2>4. QED
    BY <1>1, <2>1, <2>3 DEF InspectTarget, Details
<1>2. CASE ListContainers
  BY <1>2, ImagesAssumption DEF ListContainers
<1>3. CASE CheckReference
  BY <1>3, ImagesAssumption DEF CheckReference
<1>4. CASE RemoveReference
  <2>1. refs # <<>> /\ Tail(refs) \in Seq(Tags \cup Ids)
    BY <1>4 DEF RemoveReference, StageInv
  <2>2. QED
    BY <1>4, <2>1 DEF RemoveReference
<1>5. CASE VerifyRemoved
  BY <1>5, ImagesAssumption DEF VerifyRemoved
<1>6. CASE FindContainer
  BY <1>6, ImagesAssumption DEF FindContainer, Named
<1>7. CASE RemoveContainer
  BY <1>7, ImagesAssumption DEF RemoveContainer
<1>8. CASE IfPresent
  BY <1>8, ImagesAssumption DEF IfPresent
<1>9. CASE Download
  BY <1>9, ImagesAssumption DEF Download
<1>10. CASE LoadArchive
  <2>1. op.archive \in Seq(Entry)
    BY <1>10, ImagesAssumption
       DEF LoadArchive, StageInv, Stages, OperationOK, Operations
  <2>2. Loaded(op.archive) \in Ids \cup Tags \cup {None}
    <3>1. Len(op.archive) = 1 => 1 \in DOMAIN op.archive
      BY <2>1
    <3>2. QED
      BY <2>1, <3>1, EntryType DEF Loaded
  <2>3. QED
    BY <1>10, <2>2 DEF LoadArchive
<1>11. CASE TagTarget
  BY <1>11, ImagesAssumption DEF TagTarget
<1>12. CASE ConfirmTarget
  BY <1>12, ImagesAssumption DEF ConfirmTarget, DaemonOK, Resolve,
     Operations
<1>13. CASE ReadFails
  BY <1>13, ImagesAssumption DEF ReadFails
<1>14. ASSUME NEW o \in Operations, Begin(o) PROVE OperationOK'
  BY <1>14, ImagesAssumption DEF Begin, FirstCall, Operations
<1>15. ASSUME NEW t \in Tags, OthersTag(t) PROVE OperationOK'
  BY <1>15, ImagesAssumption DEF OthersTag
<1>16. ASSUME NEW c \in Cids, OthersCreate(c) PROVE OperationOK'
  BY <1>16, ImagesAssumption DEF OthersCreate
<1>17. ASSUME NEW c \in Cids, OthersRemove(c) PROVE OperationOK'
  BY <1>17, ImagesAssumption DEF OthersRemove
<1>18. CASE UNCHANGED vars
  BY <1>18
<1>19. QED
  BY <1>1, <1>2, <1>3, <1>4, <1>5, <1>6, <1>7, <1>8, <1>9, <1>10, <1>11,
     <1>12, <1>13, <1>14, <1>15, <1>16, <1>17, <1>18 DEF Next, Execute,
     Others

(* The next reference to remove denotes the inspected image. *)
LEMMA HeadResolves ==
  ASSUME TypeOK, Remaining, refs # <<>>
  PROVE  Resolve(Head(refs)) = found
<1>1. refs \in Seq(Tags \cup Ids) /\ 1 \in DOMAIN refs /\ Head(refs) = refs[1]
  BY DEF TypeOK, OperationOK
<1>2. CASE refs = <<found>> /\ found \in images
  BY <1>2, ImagesAssumption DEF Resolve, TypeOK, DaemonOK
<1>3. CASE ~(refs = <<found>> /\ found \in images)
  BY <1>1, <1>3 DEF Remaining, Resolve
<1>4. QED
  BY <1>2, <1>3

(* An undisturbed deletion removes the references of one image, in order. *)
LEMMA DeletionStep == Base /\ Deletion /\ [Next]_vars => Deletion'
<1> SUFFICES ASSUME Base /\ Deletion, [Next]_vars PROVE Deletion'
  OBVIOUS
<1> USE DEF vars, daemonVars, bounds, At, Goto, Fail, Succeed,
         Reads, Fault, Act
<1>1. CASE InspectTarget
  <2>1. SUFFICES ASSUME op.kind = "delete", clean, phase' = "running" PROVE Deletion'
    BY <1>1 DEF InspectTarget, Details, Deletion, DeleteInv, UndisturbedDeletionIsAtomic,
       DeleteInv
  <2> DEFINE i == Resolve(op.target)
  <2>2. /\ pc' = "list" /\ found' = i /\ i # None
        /\ UNCHANGED <<op, tag, images, before>> /\ tag = before
        /\ refs' = IF References(i) = {} THEN <<i>> ELSE SetToSeq(References(i))
    BY <1>1, <2>1 DEF InspectTarget, Details, Deletion, DeleteInv
  <2>3. References(found)' = References(i)
    BY <2>2 DEF References
  <2>4. i \in images
    BY <2>2 DEF Resolve, Base, TypeOK, DaemonOK
  <2>5. CASE References(i) = {}
    BY <2>1, <2>2, <2>3, <2>4, <2>5 DEF Deletion, DeleteInv, Remaining,
       UndisturbedDeletionIsAtomic
  <2>6. CASE References(i) # {}
    <3>1. References(i) \subseteq Tags /\ IsFiniteSet(References(i))
      BY FS_Subset, ImagesAssumption DEF References
    <3>2. \A x : x \in References(i) <=> \E k \in DOMAIN refs' : refs'[k] = x
      BY <3>1, <2>2, <2>6, Enumeration
    <3>3. \A j, k \in DOMAIN refs' : refs'[j] = refs'[k] => j = k
      BY <3>1, <2>2, <2>6, Enumeration
    <3>4. Remaining'
      BY <3>1, <3>2, <3>3, <2>2 DEF Remaining, References
    <3>5. QED
      BY <3>4, <2>1, <2>2 DEF Deletion, DeleteInv, UndisturbedDeletionIsAtomic
  <2>7. QED
    BY <2>5, <2>6
<1>2. CASE ListContainers
  <2>1. SUFFICES ASSUME op.kind = "delete", clean PROVE Deletion'
    BY <1>2 DEF ListContainers, Deletion, DeleteInv, UndisturbedDeletionIsAtomic
  <2>2. Remaining /\ tag = before
    BY <1>2, <2>1 DEF ListContainers, Deletion, DeleteInv
  <2>3. Remaining' /\ tag' = before' /\ (InUse(found)' <=> InUse(found))
    BY <1>2, <2>2 DEF ListContainers, Remaining, References, InUse
  <2>4. QED
    BY <1>2, <2>1, <2>3 DEF ListContainers, Deletion, DeleteInv,
       UndisturbedDeletionIsAtomic
<1>3. CASE CheckReference
  <2>1. SUFFICES ASSUME op.kind = "delete", clean PROVE Deletion'
    BY <1>3 DEF CheckReference, Deletion, DeleteInv, UndisturbedDeletionIsAtomic
  <2>2. Remaining /\ ~InUse(found)
    BY <1>3, <2>1 DEF CheckReference, Deletion, DeleteInv
  <2>3. Resolve(Head(refs)) = found
    BY <1>3, <2>1, <2>2, HeadResolves DEF CheckReference, StageInv, Base
  <2>4. Remaining' /\ (InUse(found)' <=> InUse(found))
    BY <1>3, <2>2 DEF CheckReference, Remaining, References, InUse
  <2>5. QED
    BY <1>3, <2>1, <2>2, <2>3, <2>4 DEF CheckReference, Deletion, DeleteInv,
       UndisturbedDeletionIsAtomic
<1>4. CASE RemoveReference
  <2>1. SUFFICES ASSUME op.kind = "delete", clean, clean' PROVE Deletion'
    BY <1>4 DEF RemoveReference, Deletion, DeleteInv, UndisturbedDeletionIsAtomic
  <2> DEFINE h == Head(refs)
  <2>2. /\ Remaining /\ ~InUse(found) /\ refs # <<>> /\ found # None
        /\ refs \in Seq(Tags \cup Ids)
    BY <1>4, <2>1 DEF RemoveReference, Deletion, DeleteInv, Base, TargetInv,
       StageInv, TypeOK, OperationOK
  <2>3. Resolve(h) = found
    BY <2>2, HeadResolves DEF Base
  <2>4. h \in Ids => References(found) = {}
    BY <2>2, ImagesAssumption DEF Remaining
  <2>5. Removable(h)
    BY <2>2, <2>3, <2>4 DEF Removable
  <2>6. /\ ImageRemove(h) /\ refs' = Tail(refs)
        /\ phase' = "running"
        /\ pc' = (IF Tail(refs) = <<>> THEN "verify" ELSE "check")
        /\ UNCHANGED <<op, found, before, containers>>
    BY <1>4, <2>1, <2>5 DEF RemoveReference
  <2>7. ~InUse(found)'
    BY <2>2, <2>6 DEF InUse
  <2>8. /\ pc' = "verify" => References(found)' = {}
        /\ pc' = "check" => Remaining'
    <3>1. CASE refs = <<found>> /\ References(found) = {}
      <4>1. Tail(refs) = <<>>
        BY <3>1
      <4>0. h = found /\ h \notin Tags
        BY <2>2, <3>1, ImagesAssumption DEF Remaining, Base, TypeOK, DaemonOK
      <4>2. UNCHANGED tag
        BY <2>3, <2>6, <3>1, <4>0 DEF ImageRemove, Untag, Base, TargetInv
      <4>3. References(found)' = {}
        BY <2>6, <4>2, <3>1 DEF References
      <4>4. QED
        BY <2>6, <4>1, <4>3
    <3>2. CASE ~(refs = <<found>> /\ References(found) = {})
      <4>1. /\ \A t \in Tags : tag[t] = found <=> \E k \in DOMAIN refs : refs[k] = t
            /\ \A j, k \in DOMAIN refs : refs[j] = refs[k] => j = k
            /\ \A k \in DOMAIN refs : refs[k] \in Tags
        BY <2>2, <3>2 DEF Remaining
      <4>2. h = refs[1] /\ 1 \in DOMAIN refs /\ h \in Tags
        BY <2>2, <4>1
      <4>3. tag' = [t \in Tags |-> IF t = h THEN None ELSE tag[t]]
        BY <2>3, <2>6, <4>1, <4>2 DEF ImageRemove, Untag
      <4>4. DOMAIN Tail(refs) = {k \in DOMAIN refs : k + 1 \in DOMAIN refs}
        BY <2>2
      <4>5. \A k \in DOMAIN Tail(refs) :
              k + 1 \in DOMAIN refs /\ Tail(refs)[k] = refs[k + 1]
        BY <2>2
      <4>6. \A k \in DOMAIN refs : k # 1 => k - 1 \in DOMAIN Tail(refs)
                                             /\ Tail(refs)[k - 1] = refs[k]
        BY <2>2
      <4>7. \A t \in Tags :
              tag'[t] = found <=> \E k \in DOMAIN Tail(refs) : Tail(refs)[k] = t
        <5>1. ASSUME NEW t \in Tags, tag'[t] = found
              PROVE  \E k \in DOMAIN Tail(refs) : Tail(refs)[k] = t
          <6>1. t # h /\ tag[t] = found
            BY <5>1, <4>3, <2>2
          <6>2. PICK k \in DOMAIN refs : refs[k] = t
            BY <6>1, <4>1
          <6>3. k # 1
            BY <6>1, <6>2, <4>2
          <6>4. QED
            BY <6>2, <6>3, <4>6
        <5>2. ASSUME NEW k \in DOMAIN Tail(refs) PROVE tag'[Tail(refs)[k]] = found
          <6>1. k \in Nat /\ k + 1 # 1
            BY <2>2
          <6>2. Tail(refs)[k] # h
            BY <4>1, <4>2, <4>5, <6>1
          <6>3. QED
            BY <6>2, <4>1, <4>3, <4>5
        <5>3. QED
          BY <5>1, <5>2
      <4>8. \A j, k \in DOMAIN Tail(refs) : Tail(refs)[j] = Tail(refs)[k] => j = k
        <5>1. ASSUME NEW j \in DOMAIN Tail(refs), NEW k \in DOMAIN Tail(refs),
                     Tail(refs)[j] = Tail(refs)[k]
              PROVE  j = k
          <6>1. j + 1 = k + 1
            BY <5>1, <4>1, <4>5
          <6>2. j \in Int /\ k \in Int
            BY <2>2
          <6>3. QED
            BY <6>1, <6>2
        <5>2. QED
          BY <5>1
      <4>9. \A k \in DOMAIN Tail(refs) : Tail(refs)[k] \in Tags
        BY <4>1, <4>5
      <4>10. Remaining'
        BY <2>6, <4>7, <4>8, <4>9 DEF Remaining
      <4>11. Tail(refs) = <<>> => References(found)' = {}
        BY <2>6, <4>7 DEF References
      <4>12. QED
        BY <2>6, <4>10, <4>11
    <3>3. QED
      BY <3>1, <3>2
  <2>9. QED
    BY <2>1, <2>6, <2>7, <2>8 DEF Deletion, DeleteInv, UndisturbedDeletionIsAtomic
<1>5. CASE VerifyRemoved
  BY <1>5 DEF VerifyRemoved, Base, StageInv, Stages, Deletion, DeleteInv,
     UndisturbedDeletionIsAtomic, Remaining, References, InUse
<1>6. CASE FindContainer
  BY <1>6 DEF FindContainer, Base, StageInv, Stages, Deletion, DeleteInv,
     UndisturbedDeletionIsAtomic, Remaining, References, InUse
<1>7. CASE RemoveContainer
  BY <1>7 DEF RemoveContainer, Base, StageInv, Stages, Deletion, DeleteInv,
     UndisturbedDeletionIsAtomic, Remaining, References, InUse
<1>8. CASE IfPresent
  BY <1>8 DEF IfPresent, Base, StageInv, Stages, Deletion, DeleteInv,
     UndisturbedDeletionIsAtomic, Remaining, References, InUse
<1>9. CASE Download
  BY <1>9 DEF Download, Base, StageInv, Stages, Deletion, DeleteInv,
     UndisturbedDeletionIsAtomic, Remaining, References, InUse
<1>10. CASE LoadArchive
  BY <1>10 DEF LoadArchive, Base, StageInv, Stages, Deletion, DeleteInv,
     UndisturbedDeletionIsAtomic, Remaining, References, InUse
<1>11. CASE TagTarget
  BY <1>11 DEF TagTarget, Base, StageInv, Stages, Deletion, DeleteInv,
     UndisturbedDeletionIsAtomic, Remaining, References, InUse
<1>12. CASE ConfirmTarget
  BY <1>12 DEF ConfirmTarget, Base, StageInv, Stages, Deletion, DeleteInv,
     UndisturbedDeletionIsAtomic, Remaining, References, InUse
<1>13. CASE ReadFails
  BY <1>13 DEF ReadFails, Base, StageInv, Stages, Deletion, DeleteInv,
     UndisturbedDeletionIsAtomic, Remaining, References, InUse
<1>14. ASSUME NEW o \in Operations, Begin(o) PROVE Deletion'
  BY <1>14 DEF Begin, Base, StageInv, Stages, Deletion, DeleteInv,
     UndisturbedDeletionIsAtomic, Remaining, References, InUse, FirstCall
<1>15. ASSUME NEW t \in Tags, OthersTag(t) PROVE Deletion'
  BY <1>15 DEF OthersTag, Base, StageInv, Stages, Deletion, DeleteInv,
     UndisturbedDeletionIsAtomic, Remaining, References, InUse
<1>16. ASSUME NEW c \in Cids, OthersCreate(c) PROVE Deletion'
  BY <1>16 DEF OthersCreate, Base, StageInv, Stages, Deletion, DeleteInv,
     UndisturbedDeletionIsAtomic, Remaining, References, InUse
<1>17. ASSUME NEW c \in Cids, OthersRemove(c) PROVE Deletion'
  BY <1>17 DEF OthersRemove, Base, StageInv, Stages, Deletion, DeleteInv,
     UndisturbedDeletionIsAtomic, Remaining, References, InUse
<1>18. CASE UNCHANGED vars
  BY <1>18 DEF Base, StageInv, Stages, Deletion, DeleteInv,
     UndisturbedDeletionIsAtomic, Remaining, References, InUse
<1>19. QED
  BY <1>1, <1>2, <1>3, <1>4, <1>5, <1>6, <1>7, <1>8, <1>9, <1>10, <1>11,
     <1>12, <1>13, <1>14, <1>15, <1>16, <1>17, <1>18 DEF Next, Execute,
     Others

(* An undisturbed deployment ends with its target on the archive's image. *)
LEMMA DeploymentStep == Base /\ Deployment /\ [Next]_vars => Deployment'
<1> SUFFICES ASSUME Base /\ Deployment, [Next]_vars PROVE Deployment'
  OBVIOUS
<1> USE DEF vars, daemonVars, bounds, At, Goto, Fail, Succeed,
         Reads, Fault, Act
<1>1. CASE InspectTarget
  BY <1>1 DEF InspectTarget, Details, Base, StageInv, Stages, Deployment, DeployInv,
     DeployedIsTheArchive, Resolve
<1>2. CASE ListContainers
  BY <1>2 DEF ListContainers, Base, StageInv, Stages, Deployment, DeployInv,
     DeployedIsTheArchive, Resolve
<1>3. CASE CheckReference
  BY <1>3 DEF CheckReference, Base, StageInv, Stages, Deployment, DeployInv,
     DeployedIsTheArchive, Resolve
<1>4. CASE RemoveReference
  BY <1>4 DEF RemoveReference, Base, StageInv, Stages, Deployment,
     DeployInv, DeployedIsTheArchive, Resolve
<1>5. CASE VerifyRemoved
  BY <1>5 DEF VerifyRemoved, Base, StageInv, Stages, Deployment, DeployInv,
     DeployedIsTheArchive, Resolve
<1>6. CASE FindContainer
  BY <1>6 DEF FindContainer, Base, StageInv, Stages, Deployment, DeployInv,
     DeployedIsTheArchive, Resolve
<1>7. CASE RemoveContainer
  BY <1>7 DEF RemoveContainer, Base, StageInv, Stages, Deployment,
     DeployInv, DeployedIsTheArchive, Resolve
<1>8. CASE IfPresent
  <2>1. op.kind = "deploy" => op.target \in Tags
    BY DEF Base, TypeOK, OperationOK, Operations
  <2>2. QED
    BY <1>8, <2>1 DEF IfPresent, Base, StageInv, Stages, Deployment, DeployInv,
       DeployedIsTheArchive, Resolve
<1>9. CASE Download
  BY <1>9 DEF Download, Base, StageInv, Stages, Deployment, DeployInv,
     DeployedIsTheArchive, Resolve
<1>10. CASE LoadArchive
  <2>1. SUFFICES ASSUME op.kind = "deploy", clean, clean', phase' = "running"
                 PROVE  Deployment'
    BY <1>10 DEF LoadArchive, Deployment, DeployInv, DeployedIsTheArchive
  <2> DEFINE e == op.archive[1]
  <2>2. op.target \in Tags /\ op.archive \in Seq(Entry)
    BY <2>1, ImagesAssumption DEF Base, TypeOK, OperationOK, Operations
  <2>3. /\ Load(op.archive) /\ found' = Loaded(op.archive)
        /\ Loaded(op.archive) # None
        /\ pc' = (IF Loaded(op.archive) = op.target THEN "confirm" ELSE "tag")
        /\ UNCHANGED <<op, before>>
    BY <1>10, <2>1 DEF LoadArchive
  <2>4. op.overwrite \/ before[op.target] = None
    BY <1>10, <2>1 DEF LoadArchive, Deployment, DeployInv
  <2>5. Len(op.archive) = 1 /\ found' = (IF e.tag = None THEN e.id ELSE e.tag)
    BY <2>3 DEF Loaded
  <2>6. DOMAIN op.archive = {1}
    BY <2>2, <2>5
  <2>7. e.id \in Ids /\ e.tag \in Tags \cup {None}
    BY <2>2, <2>6, EntryType
  <2>8. e.id \in images' /\ (e.tag # None => tag'[e.tag] = e.id)
    BY <2>3, <2>6, <2>7, ImagesAssumption DEF Load
  <2>9. Resolve(found)' = e.id
    BY <2>5, <2>7, <2>8, ImagesAssumption DEF Resolve
  <2>10. pc' = "confirm" => tag'[op.target] = e.id
    BY <2>2, <2>3, <2>9 DEF Resolve
  <2>11. QED
    BY <2>1, <2>3, <2>4, <2>5, <2>9, <2>10 DEF Deployment, DeployInv,
       DeployedIsTheArchive
<1>11. CASE TagTarget
  <2>1. op.kind = "deploy" => op.target \in Tags
    BY DEF Base, TypeOK, OperationOK, Operations
  <2>2. tag \in [Tags -> images \cup {None}]
    BY DEF Base, TypeOK, DaemonOK
  <2>3. QED
    BY <1>11, <2>1, <2>2 DEF TagTarget, Base, StageInv, Stages, Deployment,
       DeployInv, DeployedIsTheArchive
<1>12. CASE ConfirmTarget
  <2>1. op.kind = "deploy" => op.target \in Tags
    BY DEF Base, TypeOK, OperationOK, Operations
  <2>2. QED
    BY <1>12, <2>1 DEF ConfirmTarget, Base, StageInv, Stages, Deployment,
       DeployInv, DeployedIsTheArchive, Resolve
<1>13. CASE ReadFails
  BY <1>13 DEF ReadFails, Base, StageInv, Stages, Deployment, DeployInv,
     DeployedIsTheArchive, Resolve
<1>14. ASSUME NEW o \in Operations, Begin(o) PROVE Deployment'
  BY <1>14 DEF Begin, Base, StageInv, Stages, Deployment, DeployInv,
     DeployedIsTheArchive, Resolve, FirstCall
<1>15. ASSUME NEW t \in Tags, OthersTag(t) PROVE Deployment'
  BY <1>15 DEF OthersTag, Base, StageInv, Stages, Deployment, DeployInv,
     DeployedIsTheArchive, Resolve
<1>16. ASSUME NEW c \in Cids, OthersCreate(c) PROVE Deployment'
  BY <1>16 DEF OthersCreate, Base, StageInv, Stages, Deployment, DeployInv,
     DeployedIsTheArchive, Resolve
<1>17. ASSUME NEW c \in Cids, OthersRemove(c) PROVE Deployment'
  BY <1>17 DEF OthersRemove, Base, StageInv, Stages, Deployment, DeployInv,
     DeployedIsTheArchive, Resolve
<1>18. CASE UNCHANGED vars
  BY <1>18 DEF Base, StageInv, Stages, Deployment, DeployInv,
     DeployedIsTheArchive, Resolve
<1>19. QED
  BY <1>1, <1>2, <1>3, <1>4, <1>5, <1>6, <1>7, <1>8, <1>9, <1>10, <1>11,
     <1>12, <1>13, <1>14, <1>15, <1>16, <1>17, <1>18 DEF Next, Execute,
     Others

(* What a removal relies on holds throughout. *)
THEOREM TargetIsKnown == Spec => []TargetInv
<1>1. Init => TargetInv
  BY ImagesAssumption DEF Init, TargetInv, At
<1>2. QED
  BY <1>1, TargetStep, PTL DEF Spec

(* A removal of a reference hits only the image that was inspected, unless
   others moved that reference since the check (manager.go:66-83). *)
THEOREM OnlyTheInspected == Spec => RemovesOnlyTheInspected
<1>1. ASSUME TargetInv, [Next]_vars, NEW t \in Tags,
             At("remove"), acts' = acts, tag'[t] # tag[t]
      PROVE  tag[t] = found \/ t \in raced
  <2>1. UNCHANGED tag \/ RemoveReference \/ acts' = acts + 1
    BY <1>1 DEF Next, Execute, Others, At, Reads, daemonVars, vars, InspectTarget, Details,
       ListContainers, CheckReference, VerifyRemoved, FindContainer,
       RemoveContainer, IfPresent, Download, LoadArchive, TagTarget,
       ConfirmTarget, ReadFails, Begin, OthersTag, OthersCreate, OthersRemove, Act
  <2>2. RemoveReference
    BY <1>1, <2>1 DEF TargetInv
  <2>3. ImageRemove(Head(refs))
    BY <1>1, <2>2 DEF RemoveReference
  <2>4. QED
    BY <1>1, <2>3 DEF TargetInv, ImageRemove, Untag, References, Resolve
<1>2. TargetInv /\ [Next]_vars =>
        [\A t \in Tags : At("remove") /\ acts' = acts /\ tag'[t] # tag[t] =>
            tag[t] = found \/ t \in raced]_vars
  BY <1>1
<1>3. QED
  BY <1>2, TargetIsKnown, PTL DEF Spec, RemovesOnlyTheInspected

(* No container of the platform is removed, whatever takes the name between
   inspection and removal (manager.go:34-44). *)
THEOREM ManagedStays == Spec => ManagedIsKept
<1>1. ASSUME TargetInv, [Next]_vars, NEW c \in Cids,
             containers[c] # None, containers[c].managed, containers'[c] = None
      PROVE  acts' # acts
  <2>1. UNCHANGED containers \/ RemoveContainer \/ acts' = acts + 1
    BY <1>1 DEF Next, Execute, Others, Reads, daemonVars, vars, InspectTarget, Details,
       ListContainers, CheckReference, VerifyRemoved, FindContainer,
       RemoveReference, IfPresent, Download, LoadArchive, TagTarget,
       ConfirmTarget, ReadFails, Begin, OthersTag, OthersCreate, OthersRemove, Act
  <2>2. ASSUME RemoveContainer PROVE FALSE
    BY <1>1, <2>2 DEF RemoveContainer, Doomed, TargetInv
  <2>3. QED
    BY <1>1, <2>1, <2>2 DEF TargetInv
<1>2. TargetInv /\ [Next]_vars =>
        [\A c \in Cids :
            containers[c] # None /\ containers[c].managed /\ containers'[c] = None
              => acts' # acts]_vars
  BY <1>1
<1>3. QED
  BY <1>2, TargetIsKnown, PTL DEF Spec, ManagedIsKept

(* The inductive invariant of the module, for any images, references and
   archives: types, stages and what each undisturbed operation has reached
   (dockerinventory/manager.go:34-89, imagedeploy/manager.go:45-110). *)
THEOREM Invariance == Spec => []IInv
<1>1. Init => IInv
  <2>1. SUFFICES ASSUME Init PROVE IInv
    OBVIOUS
  <2>2. Idle \in Operations
    BY ImagesAssumption DEF Idle, Operations
  <2>3. TypeOK
    BY <2>1, <2>2, ImagesAssumption DEF Init, TypeOK, DaemonOK, OperationOK
  <2>4. TargetInv
    BY <2>1, ImagesAssumption DEF Init, TargetInv, At
  <2>5. phase = "idle" /\ op.kind = "inspect"
    BY <2>1 DEF Init, Idle
  <2>6. QED
    BY <2>3, <2>4, <2>5 DEF IInv, StageInv, At, DeleteInv, DeployInv,
       UndisturbedDeletionIsAtomic, DeployedIsTheArchive
<1>2. IInv /\ [Next]_vars => IInv'
  BY TargetStep, Bound, StageStep, DaemonStep, OperationStep, DeletionStep,
     DeploymentStep DEF IInv, TypeOK, Base, Deletion, Deployment
<1>3. QED
  BY <1>1, <1>2, PTL DEF Spec

(* An undisturbed deletion is all or nothing (manager.go:57-65, 84-89). *)
THEOREM DeletionIsAtomic == Spec => []UndisturbedDeletionIsAtomic
<1>1. IInv => UndisturbedDeletionIsAtomic
  BY DEF IInv
<1>2. QED
  BY <1>1, Invariance, PTL

(* An undisturbed deployment leaves the target on the one image of the
   archive (imagedeploy/manager.go:49-53, 81-110). *)
THEOREM DeployedArchive == Spec => []DeployedIsTheArchive
<1>1. IInv => DeployedIsTheArchive
  BY DEF IInv
<1>2. QED
  BY <1>1, Invariance, PTL

=============================================================================

------------------------ MODULE FragmentedStorage_proofs ------------------------
(***************************************************************************)
(* Theorems about FragmentedStorage, for any samples, readers, finalisers  *)
(* and failures of their operations.                                       *)
(***************************************************************************)
EXTENDS FragmentedStorage, TLAPS

Merging  == {"listRoot", "readRoot", "listDepot", "readDepot", "writeDone"}
Cleaning == {"cleanRoot", "cleanDepot", "rewrite"}

\* What a read that knows everything up to time t must have merged.
Upto(t) == {s \in stored \ overtaken : s <= t}

\* Only readers rewrite the cache, only finalisers the done file.
Roles ==
  /\ \A r \in Readers : at[r] \notin Cleaning \cup {"writeDone"}
  /\ \A f \in Finalisers : at[f] \notin {"listOld", "writeInProgress"}

\* A finaliser that merges or cleans is a builder; the done file has one.
Builders ==
  /\ \A f \in Finalisers : at[f] \in Merging \cup {"cleanRoot", "cleanDepot"} => f \in builders
  /\ \A f \in builders : at[f] # "idle"
  /\ isDone => builders # {}
  /\ \A f \in Finalisers : at[f] \in Cleaning => isDone

\* The depot is complete until the done file exists.
DepotWhole ==
  /\ depot \subseteq stored
  /\ ~isDone => depot = stored /\ \A d \in deleting : d[2] # "depot"

\* The time of a cached file is one that a live read has listed.
TimesListed ==
  /\ listed \subseteq stored
  /\ DOMAIN inProgress \subseteq listed \cup {0}
  /\ \A a \in Actors : lastTime[a] \in listed \cup {0}
  /\ \A r \in Readers : todo[r] \subseteq listed

\* What an actor has merged covers the time it will give to it.
MergeSound ==
  ~isDone =>
    \A a \in Actors :
      /\ at[a] = "listDepot" => Upto(lastTime[a]) \subseteq result[a]
      /\ a \in Readers /\ at[a] = "readDepot" =>
           \A t \in todo[a] \cup {lastTime[a]} : Upto(t) \subseteq result[a] \cup todo[a]
      /\ a \in Readers /\ at[a] \in {"listOld", "writeInProgress"} =>
           \A t \in todo[a] \cup {lastTime[a]} : Upto(t) \subseteq result[a]
      /\ a \in Finalisers /\ at[a] = "readDepot" =>
           stored \ overtaken \subseteq result[a] \cup todo[a]
      /\ a \in Finalisers /\ at[a] = "writeDone" => stored \ overtaken \subseteq result[a]

\* A live read has merged, or listed, all it found stored.
ReadsCurrent ==
  /\ \A r \in Readers : begun[r] \subseteq stored
  /\ builders = {} =>
       \A r \in Readers :
         /\ at[r] = "readDepot" => begun[r] \ overtaken \subseteq result[r] \cup todo[r]
         /\ at[r] \in {"listOld", "writeInProgress", "over"} =>
              begun[r] \ overtaken \subseteq result[r]

\* Without overlap the done file is whole and nobody is about to change it.
DoneWhole ==
  isDone /\ ~Overlap =>
    /\ stored \ overtaken \subseteq done
    /\ \A f \in Finalisers :
         at[f] \notin Merging /\ (at[f] \in Cleaning => result[f] = done)

IInv ==
  /\ Roles /\ Builders /\ DepotWhole /\ TimesListed
  /\ CacheStandsForDepot /\ MergeSound /\ ReadsCurrent /\ DoneWhole

-----------------------------------------------------------------------------
(* The types                                                                *)

\* The time of a read that has merged nothing.
LEMMA ZeroTime == 0 \in Times
  BY StorageAssumption DEF Times

\* The initial state is well typed.
LEMMA InitTyped == Init => TypeOK
  <1> SUFFICES ASSUME Init PROVE TypeOK
    OBVIOUS
  <1>1. DOMAIN inProgress = {} /\ inProgress \in [{} -> SUBSET Samples]
    BY DEF Init
  <1>2. 0 \in Times BY ZeroTime
  <1> QED BY <1>1, <1>2 DEF Init, TypeOK

\* Each operation of a read keeps the types.
LEMMA StepTyped ==
  ASSUME TypeOK, NEW a \in Actors, Step(a)
  PROVE  TypeOK'
  <1> USE DEF TypeOK, Go, Merged, files, locals, history
  <1>1. CASE ListRoot(a) BY <1>1, ZeroTime DEF ListRoot, CacheTimes
  <1>2. CASE ReadRoot(a) BY <1>2 DEF ReadRoot
  <1>3. CASE ListDepot(a) BY <1>3 DEF ListDepot
  <1>4. CASE ReadDepot(a) BY <1>4 DEF ReadDepot
  <1>5. CASE ListOld(a) BY <1>5 DEF ListOld, DeleteInProgress
  <1>6. CASE WriteInProgress(a)
    <2>1. PICK t \in Latest(a) :
            inProgress' = [k \in DOMAIN inProgress \cup {t} |->
                             IF k = t THEN result[a] ELSE inProgress[k]]
      BY <1>6 DEF WriteInProgress
    <2>2. t \in Times BY StorageAssumption DEF Latest, Samples, Times
    <2>3. DOMAIN inProgress' \subseteq Times BY <2>1, <2>2
    <2>4. inProgress' \in [DOMAIN inProgress' -> SUBSET Samples] BY <2>1
    <2> QED BY <1>6, <2>3, <2>4, ZeroTime DEF WriteInProgress
  <1>7. CASE WriteDone(a) BY <1>7, ZeroTime DEF WriteDone
  <1>8. CASE CleanRoot(a) BY <1>8 DEF CleanRoot, DeleteInProgress
  <1>9. CASE CleanDepot(a) BY <1>9, StorageAssumption DEF CleanDepot, Samples, Times
  <1>10. CASE Rewrite(a) BY <1>10 DEF Rewrite
  <1> QED BY <1>1, <1>2, <1>3, <1>4, <1>5, <1>6, <1>7, <1>8, <1>9, <1>10 DEF Step

\* Every step keeps the types.
LEMMA NextTyped == TypeOK /\ [Next]_vars => TypeOK'
  <1> SUFFICES ASSUME TypeOK, [Next]_vars PROVE TypeOK'
    OBVIOUS
  <1> USE DEF TypeOK, Go, files, locals, history
  <1>1. ASSUME NEW s \in Samples, Put(s) PROVE TypeOK'
    BY <1>1 DEF Put
  <1>2. ASSUME NEW a \in Actors, Begin(a) PROVE TypeOK'
    BY <1>2 DEF Begin
  <1>3. ASSUME NEW a \in Actors, Step(a) PROVE TypeOK'
    BY <1>3, StepTyped
  <1>4. ASSUME NEW a \in Actors, OpFails(a) PROVE TypeOK'
    BY <1>4 DEF OpFails
  <1>5. ASSUME NEW d \in deleting, DeletionLands(d) PROVE TypeOK'
    BY <1>5 DEF DeletionLands, Without
  <1>6. CASE UNCHANGED vars BY <1>6 DEF vars
  <1> QED BY <1>1, <1>2, <1>3, <1>4, <1>5, <1>6 DEF Next

\* Every reachable state is well typed.
THEOREM StorageTyped == Spec => []TypeOK
  BY InitTyped, NextTyped, PTL DEF Spec

-----------------------------------------------------------------------------
(* The inductive invariant                                                  *)

\* All of it holds at first.
LEMMA InitInv == Init => IInv
  <1> SUFFICES ASSUME Init PROVE IInv
    OBVIOUS
  <1>1. Roles /\ Builders /\ DepotWhole
    BY DEF Init, Roles, Builders, DepotWhole, Cleaning, Merging, Actors
  <1>2. TimesListed /\ CacheStandsForDepot
    BY DEF Init, TimesListed, CacheStandsForDepot, Actors
  <1>3. MergeSound /\ ReadsCurrent /\ DoneWhole
    BY DEF Init, MergeSound, ReadsCurrent, DoneWhole, Actors, Cleaning, Merging
  <1> QED BY <1>1, <1>2, <1>3 DEF IInv

\* Readers and finalisers keep to their branches of read.
LEMMA RolesKept == TypeOK /\ Roles /\ [Next]_vars => Roles'
  <1> SUFFICES ASSUME TypeOK, Roles, [Next]_vars PROVE Roles'
    OBVIOUS
  <1> USE StorageAssumption DEF TypeOK, Roles, Cleaning, Actors, Go
  <1>1. ASSUME NEW s \in Samples, Put(s) PROVE Roles'
    BY <1>1 DEF Put
  <1>2. ASSUME NEW a \in Actors, Begin(a) PROVE Roles'
    BY <1>2 DEF Begin
  <1>3. ASSUME NEW a \in Actors, Step(a) PROVE Roles'
    BY <1>3 DEF Step, ListRoot, ReadRoot, ListDepot, ReadDepot, ListOld,
                WriteInProgress, WriteDone, CleanRoot, CleanDepot, Rewrite
  <1>4. ASSUME NEW a \in Actors, OpFails(a) PROVE Roles'
    BY <1>4 DEF OpFails
  <1>5. ASSUME NEW d \in deleting, DeletionLands(d) PROVE Roles'
    BY <1>5 DEF DeletionLands
  <1>6. CASE UNCHANGED vars BY <1>6 DEF vars
  <1> QED BY <1>1, <1>2, <1>3, <1>4, <1>5, <1>6 DEF Next

\* The history of the finalisers says what they did.
LEMMA BuildersKept == TypeOK /\ Roles /\ Builders /\ [Next]_vars => Builders'
  <1> SUFFICES ASSUME TypeOK, Roles, Builders, [Next]_vars PROVE Builders'
    OBVIOUS
  <1> USE StorageAssumption DEF TypeOK, Builders, Merging, Cleaning, Actors, Go,
          files, history
  <1>1. ASSUME NEW s \in Samples, Put(s) PROVE Builders'
    BY <1>1 DEF Put
  <1>2. ASSUME NEW a \in Actors, Begin(a) PROVE Builders'
    BY <1>2 DEF Begin
  <1>3. ASSUME NEW a \in Actors, Step(a) PROVE Builders'
    <2>1. CASE ListRoot(a) BY <2>1 DEF ListRoot
    <2>2. CASE ReadRoot(a) BY <2>2 DEF ReadRoot
    <2>3. CASE ListDepot(a) BY <2>3 DEF ListDepot
    <2>4. CASE ReadDepot(a) BY <2>4 DEF ReadDepot
    <2>5. CASE ListOld(a) BY <2>5 DEF ListOld
    <2>6. CASE WriteInProgress(a) BY <2>6 DEF WriteInProgress
    <2>7. CASE WriteDone(a)
      <3>1. a \in Finalisers BY <2>7 DEF WriteDone, Roles
      <3> QED BY <2>7, <3>1 DEF WriteDone
    <2>8. CASE CleanRoot(a) BY <2>8 DEF CleanRoot
    <2>9. CASE CleanDepot(a) BY <2>9 DEF CleanDepot
    <2>10. CASE Rewrite(a) BY <2>10 DEF Rewrite
    <2> QED BY <1>3, <2>1, <2>2, <2>3, <2>4, <2>5, <2>6, <2>7, <2>8, <2>9, <2>10
            DEF Step
  <1>4. ASSUME NEW a \in Actors, OpFails(a) PROVE Builders'
    BY <1>4 DEF OpFails
  <1>5. ASSUME NEW d \in deleting, DeletionLands(d) PROVE Builders'
    BY <1>5 DEF DeletionLands
  <1>6. CASE UNCHANGED vars BY <1>6 DEF vars
  <1> QED BY <1>1, <1>2, <1>3, <1>4, <1>5, <1>6 DEF Next

\* Only a finaliser that has written the done file deletes from the depot.
LEMMA DepotWholeKept ==
  TypeOK /\ Roles /\ Builders /\ DepotWhole /\ [Next]_vars => DepotWhole'
  <1> SUFFICES ASSUME TypeOK, Roles, Builders, DepotWhole, [Next]_vars
               PROVE  DepotWhole'
    OBVIOUS
  <1> USE DEF TypeOK, DepotWhole, files, history
  <1>1. ASSUME NEW s \in Samples, Put(s) PROVE DepotWhole'
    BY <1>1 DEF Put
  <1>2. ASSUME NEW a \in Actors, Begin(a) PROVE DepotWhole'
    BY <1>2 DEF Begin
  <1>3. ASSUME NEW a \in Actors, Step(a) PROVE DepotWhole'
    <2>1. CASE ListRoot(a) BY <2>1 DEF ListRoot
    <2>2. CASE ReadRoot(a) BY <2>2 DEF ReadRoot
    <2>3. CASE ListDepot(a) BY <2>3 DEF ListDepot
    <2>4. CASE ReadDepot(a) BY <2>4 DEF ReadDepot
    <2>5. CASE ListOld(a) BY <2>5 DEF ListOld, DeleteInProgress
    <2>6. CASE WriteInProgress(a) BY <2>6 DEF WriteInProgress
    <2>7. CASE WriteDone(a) BY <2>7 DEF WriteDone
    <2>8. CASE CleanRoot(a) BY <2>8 DEF CleanRoot, DeleteInProgress
    <2>9. CASE CleanDepot(a)
      <3>1. a \in Finalisers BY <2>9 DEF CleanDepot, Roles, Cleaning, Actors
      <3> QED BY <2>9, <3>1 DEF CleanDepot, Builders, Cleaning
    <2>10. CASE Rewrite(a) BY <2>10 DEF Rewrite
    <2> QED BY <1>3, <2>1, <2>2, <2>3, <2>4, <2>5, <2>6, <2>7, <2>8, <2>9, <2>10
            DEF Step
  <1>4. ASSUME NEW a \in Actors, OpFails(a) PROVE DepotWhole'
    BY <1>4 DEF OpFails
  <1>5. ASSUME NEW d \in deleting, DeletionLands(d) PROVE DepotWhole'
    BY <1>5 DEF DeletionLands
  <1>6. CASE UNCHANGED vars BY <1>6 DEF vars
  <1> QED BY <1>1, <1>2, <1>3, <1>4, <1>5, <1>6 DEF Next

\* Times come from listings of the depot, until the done file exists.
LEMMA TimesListedKept ==
  TypeOK /\ Roles /\ DepotWhole /\ TimesListed /\ [Next]_vars => TimesListed'
  <1> SUFFICES ASSUME TypeOK, Roles, DepotWhole, TimesListed, [Next]_vars
               PROVE  TimesListed'
    OBVIOUS
  <1> USE StorageAssumption DEF TypeOK, TimesListed, files, locals, history, Actors, Merged
  <1>1. ASSUME NEW s \in Samples, Put(s) PROVE TimesListed'
    BY <1>1 DEF Put
  <1>2. ASSUME NEW a \in Actors, Begin(a) PROVE TimesListed'
    BY <1>2 DEF Begin
  <1>3. ASSUME NEW a \in Actors, Step(a) PROVE TimesListed'
    <2>1. CASE ListRoot(a) BY <2>1 DEF ListRoot, CacheTimes
    <2>2. CASE ReadRoot(a) BY <2>2 DEF ReadRoot
    <2>3. CASE ListDepot(a) BY <2>3 DEF ListDepot, DepotWhole
    <2>4. CASE ReadDepot(a) BY <2>4 DEF ReadDepot
    <2>5. CASE ListOld(a) BY <2>5 DEF ListOld
    <2>6. CASE WriteInProgress(a)
      <3>1. a \in Readers BY <2>6 DEF WriteInProgress, Roles
      <3>2. PICK t \in Latest(a) :
              inProgress' = [k \in DOMAIN inProgress \cup {t} |->
                               IF k = t THEN result[a] ELSE inProgress[k]]
        BY <2>6 DEF WriteInProgress
      <3>3. t \in listed \cup {0} BY <3>1 DEF Latest
      <3>4. DOMAIN inProgress' = DOMAIN inProgress \cup {t} BY <3>2
      <3> QED BY <2>6, <3>3, <3>4 DEF WriteInProgress
    <2>7. CASE WriteDone(a) BY <2>7 DEF WriteDone
    <2>8. CASE CleanRoot(a) BY <2>8 DEF CleanRoot
    <2>9. CASE CleanDepot(a) BY <2>9 DEF CleanDepot
    <2>10. CASE Rewrite(a) BY <2>10 DEF Rewrite
    <2> QED BY <1>3, <2>1, <2>2, <2>3, <2>4, <2>5, <2>6, <2>7, <2>8, <2>9, <2>10
            DEF Step
  <1>4. ASSUME NEW a \in Actors, OpFails(a) PROVE TimesListed'
    BY <1>4 DEF OpFails
  <1>5. ASSUME NEW d \in deleting, DeletionLands(d) PROVE TimesListed'
    BY <1>5 DEF DeletionLands, Without
  <1>6. CASE UNCHANGED vars BY <1>6 DEF vars
  <1> QED BY <1>1, <1>2, <1>3, <1>4, <1>5, <1>6 DEF Next

\* A sample put now is earlier than no time, or is overtaken.
LEMMA PutUpto ==
  ASSUME TypeOK, TimesListed, NEW s \in Samples, Put(s), NEW t \in listed \cup {0}
  PROVE  Upto(t)' \subseteq Upto(t)
  <1>1. s \notin stored /\ s \in Nat /\ s # 0
    BY StorageAssumption DEF Put, Samples
  <1>2. s # t BY <1>1 DEF TimesListed
  <1>3. listed \subseteq Nat BY StorageAssumption DEF TypeOK, Samples
  <1>4. CASE t > s
    <2>1. t \in listed BY <1>1, <1>3, <1>4
    <2> QED BY <1>4, <2>1 DEF Put, TooLate, Upto
  <1>5. CASE ~(t > s)
    BY <1>1, <1>2, <1>3, <1>5 DEF Put, Upto
  <1> QED BY <1>4, <1>5

\* No step takes the done file away.
LEMMA DoneStays ==
  ASSUME [Next]_vars, ~isDone'
  PROVE  ~isDone
  BY DEF Next, vars, files, Put, Begin, Step, ListRoot, ReadRoot, ListDepot, ReadDepot,
         ListOld, WriteInProgress, WriteDone, CleanRoot, CleanDepot, Rewrite,
         OpFails, DeletionLands

\* A step of a reader or finaliser stores nothing.
LEMMA StepStoresNothing ==
  ASSUME NEW a \in Actors, Begin(a) \/ Step(a) \/ OpFails(a)
  PROVE  UNCHANGED <<stored, overtaken>>
  BY DEF history, Begin, Step, ListRoot, ReadRoot, ListDepot, ReadDepot,
         ListOld, WriteInProgress, WriteDone, CleanRoot, CleanDepot, Rewrite, OpFails

\* Until the done file exists, a cached file stands for all up to its time.
LEMMA CacheKept ==
  TypeOK /\ IInv /\ [Next]_vars => CacheStandsForDepot'
  <1> SUFFICES ASSUME TypeOK, IInv, [Next]_vars, ~isDone', NEW k \in DOMAIN inProgress'
               PROVE  Upto(k)' \subseteq inProgress'[k]
    BY DEF CacheStandsForDepot, Upto
  <1>1. ~isDone BY DoneStays
  <1>2. \A j \in DOMAIN inProgress : Upto(j) \subseteq inProgress[j]
    BY <1>1 DEF IInv, CacheStandsForDepot, Upto
  <1>3. ASSUME UNCHANGED <<stored, overtaken, inProgress>>
        PROVE  Upto(k)' \subseteq inProgress'[k]
    BY <1>2, <1>3 DEF Upto
  <1>4. ASSUME NEW s \in Samples, Put(s) PROVE Upto(k)' \subseteq inProgress'[k]
    <2>1. inProgress' = inProgress BY <1>4 DEF Put
    <2>2. k \in listed \cup {0} BY <2>1 DEF IInv, TimesListed
    <2> QED BY <1>2, <1>4, <2>1, <2>2, PutUpto DEF IInv
  <1>5. ASSUME NEW a \in Actors, Begin(a) PROVE Upto(k)' \subseteq inProgress'[k]
    BY <1>3, <1>5 DEF Begin, files
  <1>6. ASSUME NEW a \in Actors, Step(a) PROVE Upto(k)' \subseteq inProgress'[k]
    <2>1. CASE UNCHANGED inProgress BY <1>3, <1>6, <2>1, StepStoresNothing
    <2>2. CASE WriteInProgress(a)
      <3>1. a \in Readers BY <2>2 DEF WriteInProgress, IInv, Roles, Actors
      <3>2. PICK t \in Latest(a) :
              inProgress' = [j \in DOMAIN inProgress \cup {t} |->
                               IF j = t THEN result[a] ELSE inProgress[j]]
        BY <2>2 DEF WriteInProgress
      <3>3. Upto(t) \subseteq result[a]
        BY <1>1, <2>2, <3>1 DEF IInv, MergeSound, WriteInProgress, Latest
      <3>4. Upto(k)' = Upto(k) BY <1>6, StepStoresNothing DEF Upto
      <3>5. CASE k = t BY <3>2, <3>3, <3>4, <3>5
      <3>6. CASE k # t BY <1>2, <3>2, <3>4, <3>6
      <3> QED BY <3>5, <3>6
    <2> QED BY <1>6, <2>1, <2>2 DEF Step, files, ListRoot, ReadRoot, ListDepot, ReadDepot,
               ListOld, WriteDone, CleanRoot, CleanDepot, Rewrite
  <1>7. ASSUME NEW a \in Actors, OpFails(a) PROVE Upto(k)' \subseteq inProgress'[k]
    BY <1>3, <1>7 DEF OpFails, files, history
  <1>8. ASSUME NEW d \in deleting, DeletionLands(d) PROVE Upto(k)' \subseteq inProgress'[k]
    <2>1. Upto(k)' = Upto(k) BY <1>8 DEF DeletionLands, history, Upto
    <2>2. k \in DOMAIN inProgress /\ inProgress'[k] = inProgress[k]
      BY <1>8 DEF DeletionLands, Without
    <2> QED BY <1>2, <2>1, <2>2
  <1>9. CASE UNCHANGED vars BY <1>3, <1>9 DEF vars, files, history
  <1> QED BY <1>4, <1>5, <1>6, <1>7, <1>8, <1>9 DEF Next

\* What MergeSound says of one actor.
ActorSound(a) ==
  /\ at[a] = "listDepot" => Upto(lastTime[a]) \subseteq result[a]
  /\ a \in Readers /\ at[a] = "readDepot" =>
       \A t \in todo[a] \cup {lastTime[a]} : Upto(t) \subseteq result[a] \cup todo[a]
  /\ a \in Readers /\ at[a] \in {"listOld", "writeInProgress"} =>
       \A t \in todo[a] \cup {lastTime[a]} : Upto(t) \subseteq result[a]
  /\ a \in Finalisers /\ at[a] = "readDepot" =>
       stored \ overtaken \subseteq result[a] \cup todo[a]
  /\ a \in Finalisers /\ at[a] = "writeDone" => stored \ overtaken \subseteq result[a]

\* A sample put while an actor merges does not spoil what it has.
LEMMA PutKeepsSound ==
  ASSUME TypeOK, TimesListed, NEW s \in Samples, Put(s), NEW a \in Actors, ActorSound(a)
  PROVE  ActorSound(a)'
  <1>1. at' = at /\ result' = result /\ todo' = todo /\ lastTime' = lastTime
    BY DEF Put, locals
  <1>2. \A t \in listed \cup {0} : Upto(t)' \subseteq Upto(t)
    BY PutUpto
  <1>3. CASE a \in Finalisers
    <2>1. lastTime[a] \in listed \cup {0} BY DEF TimesListed
    <2>2. a \notin Readers BY <1>3, StorageAssumption
    <2>3. ASSUME at[a] \in {"readDepot", "writeDone"}
          PROVE  (stored \ overtaken)' \subseteq stored \ overtaken
      BY <1>3, <2>3 DEF Put, TooLate
    <2> QED BY <1>1, <1>2, <2>1, <2>2, <2>3 DEF ActorSound
  <1>4. CASE a \in Readers
    <2>1. a \notin Finalisers BY <1>4, StorageAssumption
    <2>2. lastTime[a] \in listed \cup {0} /\ todo[a] \subseteq listed
      BY <1>4 DEF TimesListed
    <2> QED BY <1>1, <1>2, <2>1, <2>2 DEF ActorSound
  <1> QED BY <1>3, <1>4 DEF Actors

\* An operation of a read that finds no done file keeps its actor sound.
LEMMA OwnStepSound ==
  ASSUME TypeOK, IInv, ~isDone, NEW a \in Actors, ActorSound(a), Step(a)
  PROVE  ActorSound(a)'
  <1> USE StorageAssumption DEF Actors, Go
  <1>0. UNCHANGED <<stored, overtaken>> BY StepStoresNothing
  <1>1. \A t \in Times : Upto(t)' = Upto(t) BY <1>0 DEF Upto
  <1>2. a \in Finalisers => a \notin Readers OBVIOUS
  <1>3. CASE ListRoot(a)
    <2>1. CASE at'[a] = "listDepot"
      <3>1. lastTime'[a] = 0 BY <1>3, <2>1 DEF ListRoot, TypeOK
      <3>2. Upto(0)' = {} BY <1>0 DEF Upto, TypeOK, Samples
      <3> QED BY <2>1, <3>1, <3>2 DEF ActorSound
    <2>2. CASE at'[a] = "readRoot" BY <2>2 DEF ActorSound
    <2> QED BY <1>3, <2>1, <2>2 DEF ListRoot, TypeOK
  <1>4. CASE ReadRoot(a)
    <2>1. CASE lastTime[a] \in DOMAIN inProgress
      <3>1. at'[a] = "listDepot" /\ result'[a] = inProgress[lastTime[a]]
              /\ lastTime' = lastTime
        BY <1>4, <2>1 DEF ReadRoot, TypeOK
      <3>2. Upto(lastTime[a]) \subseteq inProgress[lastTime[a]]
        BY <2>1 DEF IInv, CacheStandsForDepot, Upto
      <3>3. Upto(lastTime[a])' = Upto(lastTime[a]) BY <1>0, <3>1 DEF Upto
      <3> QED BY <3>1, <3>2, <3>3 DEF ActorSound
    <2>2. CASE lastTime[a] \notin DOMAIN inProgress
      <3>1. at'[a] = "failed" BY <1>4, <2>2 DEF ReadRoot, TypeOK
      <3> QED BY <3>1 DEF ActorSound
    <2> QED BY <2>1, <2>2
  <1>5. CASE ListDepot(a)
    <2>1. /\ at'[a] = "readDepot" /\ result' = result /\ lastTime' = lastTime
          /\ todo'[a] = {s \in depot : s > lastTime[a]}
      BY <1>5 DEF ListDepot, TypeOK
    <2>2. depot = stored BY DEF IInv, DepotWhole
    <2>3. Upto(lastTime[a]) \subseteq result[a] BY <1>5 DEF ActorSound, ListDepot
    <2>4. stored \ overtaken \subseteq result'[a] \cup todo'[a]
      BY <2>1, <2>2, <2>3 DEF Upto, TypeOK, Times, Samples
    <2> QED BY <1>0, <2>1, <2>4 DEF ActorSound, Upto
  <1>6. CASE ReadDepot(a)
    <2>1. CASE todo[a] \subseteq depot
      <3>1. /\ at'[a] = (IF a \in Readers THEN "listOld" ELSE "writeDone")
            /\ result'[a] = result[a] \cup todo[a]
            /\ lastTime' = lastTime /\ todo' = todo
        BY <1>6, <2>1 DEF ReadDepot, TypeOK
      <3>2. at[a] = "readDepot" BY <1>6 DEF ReadDepot
      <3> QED BY <1>0, <1>2, <3>1, <3>2 DEF ActorSound, Upto
    <2>2. CASE ~(todo[a] \subseteq depot)
      <3>1. at'[a] = "failed" BY <1>6, <2>2 DEF ReadDepot, TypeOK
      <3> QED BY <3>1 DEF ActorSound
    <2> QED BY <2>1, <2>2
  <1>7. CASE ListOld(a)
    <2>1. at[a] = "listOld" /\ at'[a] = "writeInProgress" /\ result' = result
            /\ lastTime' = lastTime /\ todo' = todo
      BY <1>7 DEF ListOld, TypeOK, locals
    <2> QED BY <1>0, <2>1 DEF ActorSound, Upto
  <1>8. CASE WriteInProgress(a) \/ WriteDone(a) \/ CleanRoot(a) \/ CleanDepot(a) \/ Rewrite(a)
    <2>1. at'[a] \in {"over", "rewrite", "cleanRoot", "cleanDepot"}
      BY <1>8 DEF WriteInProgress, WriteDone, CleanRoot, CleanDepot, Rewrite, TypeOK
    <2> QED BY <2>1 DEF ActorSound
  <1> QED BY <1>3, <1>4, <1>5, <1>6, <1>7, <1>8 DEF Step

\* A step of one actor touches nothing that the others' soundness is about.
LEMMA OtherStepSound ==
  ASSUME TypeOK, NEW a \in Actors, Begin(a) \/ Step(a) \/ OpFails(a),
         NEW b \in Actors, b # a, ActorSound(b)
  PROVE  ActorSound(b)'
  <1>1. UNCHANGED <<stored, overtaken>> BY StepStoresNothing
  <1>2. UNCHANGED <<at[b], lastTime[b], todo[b], result[b]>>
    BY DEF TypeOK, Go, Merged, locals, Begin, Step, ListRoot, ReadRoot, ListDepot,
           ReadDepot, ListOld, WriteInProgress, WriteDone, CleanRoot, CleanDepot,
           Rewrite, OpFails
  <1> QED BY <1>1, <1>2 DEF ActorSound, Upto

\* Until the done file exists, what is merged is sound.
LEMMA MergeSoundKept == TypeOK /\ IInv /\ [Next]_vars => MergeSound'
  <1> SUFFICES ASSUME TypeOK, IInv, [Next]_vars, ~isDone', NEW b \in Actors
               PROVE  ActorSound(b)'
    BY DEF MergeSound, ActorSound
  <1>1. ~isDone BY DoneStays
  <1>2. ActorSound(b) BY <1>1 DEF IInv, MergeSound, ActorSound
  <1>3. ASSUME NEW s \in Samples, Put(s) PROVE ActorSound(b)'
    BY <1>2, <1>3, PutKeepsSound DEF IInv
  <1>4. ASSUME NEW a \in Actors, Begin(a) PROVE ActorSound(b)'
    <2>1. CASE a = b
      <3>1. at'[b] = "listRoot" BY <1>1, <1>4, <2>1 DEF Begin, Go, TypeOK
      <3> QED BY <3>1 DEF ActorSound
    <2> QED BY <1>2, <1>4, <2>1, OtherStepSound
  <1>5. ASSUME NEW a \in Actors, Step(a) PROVE ActorSound(b)'
    BY <1>1, <1>2, <1>5, OwnStepSound, OtherStepSound
  <1>6. ASSUME NEW a \in Actors, OpFails(a) PROVE ActorSound(b)'
    <2>1. CASE a = b
      <3>1. at'[b] = "failed" BY <1>6, <2>1 DEF OpFails, Go, TypeOK
      <3> QED BY <3>1 DEF ActorSound
    <2> QED BY <1>2, <1>6, <2>1, OtherStepSound
  <1>7. ASSUME NEW d \in deleting, DeletionLands(d) PROVE ActorSound(b)'
    BY <1>2, <1>7 DEF DeletionLands, locals, history, ActorSound, Upto
  <1>8. CASE UNCHANGED vars
    BY <1>2, <1>8 DEF vars, locals, history, ActorSound, Upto
  <1> QED BY <1>3, <1>4, <1>5, <1>6, <1>7, <1>8 DEF Next

\* What ReadsCurrent says of one reader, while nobody finalises.
ReaderCurrent(r) ==
  /\ at[r] = "readDepot" => begun[r] \ overtaken \subseteq result[r] \cup todo[r]
  /\ at[r] \in {"listOld", "writeInProgress", "over"} =>
       begun[r] \ overtaken \subseteq result[r]

\* A live read's own operation keeps it current.
LEMMA OwnStepCurrent ==
  ASSUME TypeOK, IInv, builders = {}, NEW r \in Readers, Begin(r) \/ Step(r) \/ OpFails(r)
  PROVE  ReaderCurrent(r)'
  <1> USE DEF Go
  <1>0. r \in Actors /\ r \notin Finalisers BY StorageAssumption DEF Actors
  <1>1. UNCHANGED <<stored, overtaken>> BY <1>0, StepStoresNothing
  <1>2. ~isDone BY DEF IInv, Builders
  <1>3. ReaderCurrent(r) /\ begun[r] \subseteq stored
    BY DEF IInv, ReadsCurrent, ReaderCurrent
  <1>4. CASE Begin(r) \/ OpFails(r)
    <2>1. at'[r] \in {"listRoot", "failed"} BY <1>0, <1>2, <1>4 DEF Begin, OpFails, TypeOK
    <2> QED BY <2>1 DEF ReaderCurrent
  <1>5. CASE ListRoot(r) \/ ReadRoot(r)
    <2>1. at'[r] \in {"readRoot", "listDepot", "failed"}
      BY <1>0, <1>5 DEF ListRoot, ReadRoot, TypeOK
    <2> QED BY <2>1 DEF ReaderCurrent
  <1>6. CASE ListDepot(r)
    <2>1. /\ at'[r] = "readDepot" /\ result' = result /\ begun' = begun
          /\ todo'[r] = {s \in depot : s > lastTime[r]}
      BY <1>0, <1>6 DEF ListDepot, TypeOK
    <2>2. depot = stored BY <1>2 DEF IInv, DepotWhole
    <2>3. Upto(lastTime[r]) \subseteq result[r]
      BY <1>0, <1>2, <1>6 DEF IInv, MergeSound, ListDepot
    <2>4. stored \ overtaken \subseteq result'[r] \cup todo'[r]
      BY <1>0, <2>1, <2>2, <2>3 DEF Upto, TypeOK, Times, Samples
    <2> QED BY <1>1, <1>3, <2>1, <2>4 DEF ReaderCurrent
  <1>7. CASE ReadDepot(r)
    <2>1. CASE todo[r] \subseteq depot
      <3>1. /\ at[r] = "readDepot" /\ at'[r] = "listOld"
            /\ result'[r] = result[r] \cup todo[r] /\ begun' = begun
        BY <1>0, <1>7, <2>1 DEF ReadDepot, TypeOK, history
      <3> QED BY <1>1, <1>3, <3>1 DEF ReaderCurrent
    <2>2. CASE ~(todo[r] \subseteq depot)
      <3>1. at'[r] = "failed" BY <1>0, <1>7, <2>2 DEF ReadDepot, TypeOK
      <3> QED BY <3>1 DEF ReaderCurrent
    <2> QED BY <2>1, <2>2
  <1>8. CASE ListOld(r) \/ WriteInProgress(r)
    <2>1. at[r] \in {"listOld", "writeInProgress"} /\ at'[r] \in {"writeInProgress", "over"}
            /\ result' = result /\ begun' = begun
      BY <1>0, <1>8 DEF ListOld, WriteInProgress, TypeOK, locals, history
    <2> QED BY <1>1, <1>3, <2>1 DEF ReaderCurrent
  <1>9. CASE WriteDone(r) \/ CleanRoot(r) \/ CleanDepot(r) \/ Rewrite(r)
    BY <1>9 DEF IInv, Roles, Cleaning, WriteDone, CleanRoot, CleanDepot, Rewrite
  <1> QED BY <1>4, <1>5, <1>6, <1>7, <1>8, <1>9 DEF Step

\* What a reader knew at its beginning was stored.
LEMMA BegunStored ==
  TypeOK /\ IInv /\ [Next]_vars => \A r \in Readers : begun'[r] \subseteq stored'
  <1> SUFFICES ASSUME TypeOK, IInv, [Next]_vars, NEW r \in Readers
               PROVE  begun'[r] \subseteq stored'
    OBVIOUS
  <1>1. begun[r] \subseteq stored BY DEF IInv, ReadsCurrent
  <1>2. ASSUME NEW s \in Samples, Put(s) PROVE begun'[r] \subseteq stored'
    BY <1>1, <1>2 DEF Put
  <1>3. ASSUME NEW a \in Actors, Begin(a) PROVE begun'[r] \subseteq stored'
    BY <1>1, <1>3 DEF Begin, TypeOK
  <1>4. CASE UNCHANGED <<begun, stored>> BY <1>1, <1>4
  <1> QED BY <1>2, <1>3, <1>4 DEF Next, vars, history, Step, ListRoot, ReadRoot,
             ListDepot, ReadDepot, ListOld, WriteInProgress, WriteDone, CleanRoot,
             CleanDepot, Rewrite, OpFails, DeletionLands

\* Live reads stay current until a finaliser begins.
LEMMA ReadsCurrentKept == TypeOK /\ IInv /\ [Next]_vars => ReadsCurrent'
  <1> SUFFICES ASSUME TypeOK, IInv, [Next]_vars, builders' = {}, NEW r \in Readers
               PROVE  ReaderCurrent(r)'
    BY BegunStored DEF ReadsCurrent, ReaderCurrent
  <1>1. builders = {}
    BY DEF Next, vars, history, Put, Begin, Step, ListRoot, ReadRoot, ListDepot, ReadDepot,
           ListOld, WriteInProgress, WriteDone, CleanRoot, CleanDepot, Rewrite, OpFails,
           DeletionLands
  <1>2. ReaderCurrent(r) BY <1>1 DEF IInv, ReadsCurrent, ReaderCurrent
  <1>3. r \in Actors BY DEF Actors
  <1>4. ASSUME NEW s \in Samples, Put(s) PROVE ReaderCurrent(r)'
    BY <1>2, <1>4 DEF Put, locals, ReaderCurrent
  <1>5. ASSUME NEW a \in Actors, Begin(a) \/ Step(a) \/ OpFails(a) PROVE ReaderCurrent(r)'
    <2>1. CASE a = r BY <1>1, <1>5, <2>1, OwnStepCurrent
    <2>2. CASE a # r
      <3>1. UNCHANGED <<at[r], todo[r], result[r], begun[r]>>
        BY <1>3, <1>5, <2>2
           DEF TypeOK, Go, Merged, locals, history, Begin, Step, ListRoot, ReadRoot,
               ListDepot, ReadDepot, ListOld, WriteInProgress, WriteDone, CleanRoot,
               CleanDepot, Rewrite, OpFails
      <3> QED BY <1>2, <1>5, <3>1, StepStoresNothing DEF ReaderCurrent
    <2> QED BY <2>1, <2>2
  <1>6. ASSUME NEW d \in deleting, DeletionLands(d) PROVE ReaderCurrent(r)'
    BY <1>2, <1>6 DEF DeletionLands, locals, history, ReaderCurrent
  <1>7. CASE UNCHANGED vars BY <1>2, <1>7 DEF vars, locals, history, ReaderCurrent
  <1> QED BY <1>4, <1>5, <1>6, <1>7 DEF Next

\* What DoneWhole says once there is a done file and no overlap.
Whole ==
  /\ stored \ overtaken \subseteq done
  /\ \A f \in Finalisers :
       at[f] \notin Merging /\ (at[f] \in Cleaning => result[f] = done)

\* A finaliser that begins finds the done file or becomes a builder.
LEMMA BeginWhole ==
  ASSUME TypeOK, IInv, isDone', ~Overlap', NEW a \in Actors, Begin(a)
  PROVE  Whole'
  <1> USE DEF Go
  <1>1. isDone /\ builders' = builders BY DEF Begin, files
  <1>2. Whole BY <1>1 DEF IInv, DoneWhole, Whole, Overlap
  <1>3. at'[a] \in {"rewrite", "over"} /\ result'[a] = done
    BY <1>1 DEF Begin, TypeOK
  <1>4. \A f \in Finalisers : f # a => at'[f] = at[f] /\ result'[f] = result[f]
    BY <1>1 DEF Begin, TypeOK, Actors
  <1>5. done' = done /\ stored' = stored /\ overtaken' = overtaken
    BY DEF Begin, files
  <1> QED BY <1>2, <1>3, <1>4, <1>5 DEF Whole, Merging, Cleaning

\* Writing the done file: nobody else has begun to.
LEMMA WriteDoneWhole ==
  ASSUME TypeOK, IInv, ~Overlap', NEW a \in Actors, WriteDone(a)
  PROVE  Whole'
  <1>1. a \in Finalisers /\ at[a] = "writeDone"
    BY DEF WriteDone, IInv, Roles, Actors
  <1>2. builders' = builders /\ stored' = stored /\ overtaken' = overtaken
          /\ done' = result[a] /\ result' = result
    BY DEF WriteDone, history
  <1>3. a \in builders /\ \A f \in builders : f = a
    BY <1>1, <1>2 DEF IInv, Builders, Merging, Overlap
  <1>4. ~isDone BY <1>1, <1>3 DEF IInv, DoneWhole, Merging, Overlap
  <1>5. stored \ overtaken \subseteq result[a]
    BY <1>1, <1>4 DEF IInv, MergeSound, Actors
  <1>6. at'[a] = "cleanRoot" BY DEF WriteDone, Go, TypeOK
  <1>7. ASSUME NEW f \in Finalisers, f # a PROVE at'[f] \notin Merging \cup Cleaning
    <2>1. at'[f] = at[f] BY <1>7 DEF WriteDone, Go, TypeOK, Actors
    <2>2. f \notin builders BY <1>3, <1>7
    <2> QED BY <1>4, <2>1, <2>2 DEF IInv, Builders
  <1> QED BY <1>1, <1>2, <1>5, <1>6, <1>7 DEF Whole, Merging, Cleaning

\* Any other operation leaves the done file as it is.
LEMMA StepWhole ==
  ASSUME TypeOK, IInv, isDone', ~Overlap', NEW a \in Actors, Step(a) \/ OpFails(a)
  PROVE  Whole'
  <1> USE DEF Go
  <1>1. CASE WriteDone(a) BY <1>1, WriteDoneWhole
  <1>2. CASE ~WriteDone(a)
    <2>1. isDone /\ builders' = builders /\ stored' = stored /\ overtaken' = overtaken
      BY <1>2 DEF files, history, Step, ListRoot, ReadRoot, ListDepot, ReadDepot, ListOld,
             WriteInProgress, CleanRoot, CleanDepot, Rewrite, OpFails
    <2>2. Whole BY <2>1 DEF IInv, DoneWhole, Whole, Overlap
    <2>3. done' = done
      <3>1. CASE Rewrite(a)
        <4>1. a \in Finalisers /\ at[a] = "rewrite"
          BY <3>1 DEF Rewrite, IInv, Roles, Cleaning, Actors
        <4> QED BY <2>2, <3>1, <4>1 DEF Whole, Cleaning, Rewrite
      <3>2. CASE ~Rewrite(a)
        BY <1>2, <3>2 DEF files, Step, ListRoot, ReadRoot, ListDepot, ReadDepot, ListOld,
               WriteInProgress, CleanRoot, CleanDepot, OpFails
      <3> QED BY <3>1, <3>2
    <2>4. ASSUME NEW f \in Finalisers
          PROVE  at'[f] \notin Merging /\ (at'[f] \in Cleaning => result'[f] = done)
      <3>1. f \in Actors BY DEF Actors
      <3>2. at[f] \notin Merging /\ (at[f] \in Cleaning => result[f] = done)
        BY <2>2 DEF Whole
      <3>3. CASE f = a
        <4>1. at[a] \notin {"listOld", "writeInProgress"} BY <3>3 DEF IInv, Roles
        <4> QED BY <1>2, <3>1, <3>2, <3>3, <4>1
                DEF Merging, Cleaning, TypeOK, Step, ListRoot, ReadRoot, ListDepot,
                    ReadDepot, ListOld, WriteInProgress, CleanRoot, CleanDepot,
                    Rewrite, OpFails, locals
      <3>4. CASE f # a
        <4>1. at'[f] = at[f] /\ result'[f] = result[f]
          BY <1>2, <3>1, <3>4
             DEF TypeOK, locals, Step, ListRoot, ReadRoot, ListDepot, ReadDepot, ListOld,
                 WriteInProgress, CleanRoot, CleanDepot, Rewrite, OpFails
        <4> QED BY <3>2, <4>1
      <3> QED BY <3>3, <3>4
    <2> QED BY <2>1, <2>2, <2>3, <2>4 DEF Whole
  <1> QED BY <1>1, <1>2

\* Without overlap the done file is whole.
LEMMA DoneWholeKept == TypeOK /\ IInv /\ [Next]_vars => DoneWhole'
  <1> SUFFICES ASSUME TypeOK, IInv, [Next]_vars, isDone', ~Overlap'
               PROVE  Whole'
    BY DEF DoneWhole, Whole
  <1>1. ASSUME NEW s \in Samples, Put(s) PROVE Whole'
    <2>1. isDone /\ ~Overlap /\ at' = at /\ result' = result /\ done' = done
      BY <1>1 DEF Put, locals, Overlap
    <2>2. Whole BY <2>1 DEF IInv, DoneWhole, Whole
    <2>3. PICK f \in builders : at[f] # "idle" BY <2>1 DEF IInv, Builders
    <2>4. f \in Finalisers BY DEF TypeOK
    <2>5. TooLate(s) BY <2>2, <2>3, <2>4 DEF Whole, Merging, TooLate
    <2>6. (stored \ overtaken)' \subseteq stored \ overtaken BY <1>1, <2>5 DEF Put
    <2> QED BY <2>1, <2>2, <2>6 DEF Whole
  <1>2. ASSUME NEW a \in Actors, Begin(a) PROVE Whole'
    BY <1>2, BeginWhole
  <1>3. ASSUME NEW a \in Actors, Step(a) \/ OpFails(a) PROVE Whole'
    BY <1>3, StepWhole
  <1>4. CASE UNCHANGED <<isDone, done, stored, overtaken, at, result, builders>>
    BY <1>4 DEF IInv, DoneWhole, Whole, Overlap
  <1> QED BY <1>1, <1>2, <1>3, <1>4 DEF Next, vars, files, locals, history, DeletionLands

-----------------------------------------------------------------------------
(* The theorems                                                             *)

\* The invariant is inductive.
LEMMA InvKept == TypeOK /\ IInv /\ [Next]_vars => IInv'
  BY RolesKept, BuildersKept, DepotWholeKept, TimesListedKept, CacheKept,
     MergeSoundKept, ReadsCurrentKept, DoneWholeKept DEF IInv

\* All of it holds in every reachable state.
LEMMA Invariance == Spec => [](TypeOK /\ IInv)
  <1>1. TypeOK /\ IInv /\ [Next]_vars => (TypeOK /\ IInv)'
    BY NextTyped, InvKept
  <1> QED BY InitTyped, InitInv, <1>1, PTL DEF Spec

\* Whoever reads and whatever fails meanwhile, the final file of a single teardown
\* lacks no sample but those overtaken in the cache.
THEOREM FinalFileWhole == Spec => []OnlyOvertakenLost
  <1>1. IInv => OnlyOvertakenLost BY DEF IInv, DoneWhole, OnlyOvertakenLost
  <1> QED BY Invariance, <1>1, PTL

\* Concurrent readers never make a cached file that hides a sample of the depot.
THEOREM CacheSound == Spec => []CacheStandsForDepot
  <1>1. IInv => CacheStandsForDepot BY DEF IInv
  <1> QED BY Invariance, <1>1, PTL

\* A live read returns at least what had been stored when it began.
THEOREM ReadCurrent == Spec => []LiveReadIsCurrent
  <1>1. IInv => LiveReadIsCurrent BY DEF IInv, ReadsCurrent, LiveReadIsCurrent
  <1> QED BY Invariance, <1>1, PTL

\* The done file of a single teardown never changes.
THEOREM DoneForEver == Spec => DoneUnchanged
  <1>1. TypeOK /\ IInv /\ [Next]_vars => [isDone /\ ~Overlap => isDone' /\ done' = done]_vars
    <2> SUFFICES ASSUME TypeOK, IInv, [Next]_vars, isDone, ~Overlap
                 PROVE  isDone' /\ done' = done
      OBVIOUS
    <2>1. ASSUME NEW a \in Actors, WriteDone(a) PROVE FALSE
      <3>1. a \in Finalisers /\ at[a] = "writeDone"
        BY <2>1 DEF WriteDone, IInv, Roles, Actors
      <3> QED BY <3>1 DEF IInv, DoneWhole, Merging
    <2>2. ASSUME NEW a \in Actors, Rewrite(a) PROVE isDone' /\ done' = done
      <3>1. a \in Finalisers /\ at[a] = "rewrite"
        BY <2>2 DEF Rewrite, IInv, Roles, Cleaning, Actors
      <3> QED BY <2>2, <3>1 DEF IInv, DoneWhole, Cleaning, Rewrite
    <2>3. CASE UNCHANGED <<isDone, done>> BY <2>3
    <2> QED BY <2>1, <2>2, <2>3
            DEF Next, vars, files, Put, Begin, Step, ListRoot, ReadRoot, ListDepot,
                ReadDepot, ListOld, WriteInProgress, CleanRoot, CleanDepot, OpFails,
                DeletionLands
  <1> QED BY Invariance, <1>1, PTL DEF Spec, DoneUnchanged

===============================================================================

------------------------ MODULE ProfileStore_proofs ------------------------
(***************************************************************************)
(* The profile files under concurrent requests, for any number of web      *)
(* threads, names and files and any bundle.  Each property has its own     *)
(* invariant over the same facts about the threads (Threads): where each   *)
(* is in its request, and with what.                                       *)
(***************************************************************************)
EXTENDS ProfileStore, FiniteSetTheorems, TLAPS

(* A set of numbers has a least one: among its initial segments, which are *)
(* finite, there is a smallest.                                            *)
LEMMA LeastIndex ==
  ASSUME NEW I \in SUBSET Nat, I # {}
  PROVE  Min(I) \in I /\ \A i \in I : Min(I) <= i
<1> DEFINE Upto(k) == I \intersect (0 .. k)
           T == {Upto(k) : k \in I}
           R == StrictSubsetOrdering(I)
<1>1. T \subseteq FiniteSubsetsOf(I)
  <2>1. \A k \in I : Upto(k) \in SUBSET (0 .. k) /\ IsFiniteSet(0 .. k)
    BY FS_Interval
  <2>2. \A k \in I : IsFiniteSet(Upto(k)) BY <2>1, FS_Subset
  <2>3. QED BY <2>2 DEF FiniteSubsetsOf
<1>2. IsWellFoundedOn(R, FiniteSubsetsOf(I)) BY FS_StrictSubsetOrderingWellFounded
<1>3. T # {} OBVIOUS
<1>4. \E x \in T : \A y \in T : <<y, x>> \notin R
  <2> HIDE DEF T, R
  <2> QED BY <1>1, <1>2, <1>3, WFMin
<1>5. PICK k \in I : \A j \in I : <<Upto(j), Upto(k)>> \notin R BY <1>4
<1>6. ASSUME NEW j \in I, j < k PROVE FALSE
  <2>1. Upto(j) \subseteq Upto(k) /\ k \in Upto(k) /\ k \notin Upto(j) BY <1>6
  <2>2. <<Upto(j), Upto(k)>> \in R BY <2>1 DEF StrictSubsetOrdering
  <2>3. QED BY <1>5, <2>2
<1>7. \A j \in I : k <= j BY <1>6
<1>8. QED BY <1>7 DEF Min

(* What a search for a name finds.                                         *)
LEMMA FindFileFinds ==
  ASSUME NEW dir, NEW n
  PROVE  /\ FindFile(dir, n) = NoFile => \A f \in Files : ~Holds(dir, f, n)
         /\ FindFile(dir, n) # NoFile =>
              FindFile(dir, n) \in Files /\ Holds(dir, FindFile(dir, n), n)
<1> DEFINE I == {i \in 1 .. Len(FileOrder) : Holds(dir, FileOrder[i], n)}
<1>1. /\ \A i \in 1 .. Len(FileOrder) : FileOrder[i] \in Files
      /\ \A f \in Files : \E i \in 1 .. Len(FileOrder) : FileOrder[i] = f
  BY ProfileStoreConstants DEF Files, ToSet
<1>2. CASE I = {}
  <2>1. FindFile(dir, n) = NoFile BY <1>2 DEF FindFile, SelectInSeq
  <2>2. QED BY <1>1, <1>2, <2>1
<1>3. CASE I # {}
  <2>1. Len(FileOrder) \in Nat BY ProfileStoreConstants
  <2>2. Min(I) \in I BY <1>3, <2>1, LeastIndex
  <2>3. FindFile(dir, n) = FileOrder[Min(I)]
    BY <1>3, <2>2 DEF FindFile, SelectInSeq
  <2>4. QED BY <1>1, <2>2, <2>3, ProfileStoreConstants
<1>4. QED BY <1>2, <1>3

(* Files that say the same of a name are searched alike.                   *)
LEMMA FindFileSame ==
  ASSUME NEW dir, NEW new, NEW n,
         \A f \in Files : Holds(dir, f, n) <=> Holds(new, f, n)
  PROVE  FindFile(new, n) = FindFile(dir, n)
<1>1. \A i \in 1 .. Len(FileOrder) : FileOrder[i] \in Files
  BY ProfileStoreConstants DEF Files, ToSet
<1>2. {i \in 1 .. Len(FileOrder) : Holds(dir, FileOrder[i], n)}
        = {i \in 1 .. Len(FileOrder) : Holds(new, FileOrder[i], n)}
  BY <1>1
<1>3. QED BY <1>2 DEF FindFile, SelectInSeq

-----------------------------------------------------------------------------
(* What a web thread is in the middle of.                                  *)
Saving(t) == step[t] \in {"open", "write"}
ThreadType ==
  /\ step \in [Web -> {"idle", "locate", "open", "write", "unlink", "notify"}]
  /\ items \in [Web -> Seq(Profiles)] /\ named \in [Web -> SUBSET Names]
  /\ target \in [Web -> Files \union {NoFile}]
  /\ doomed \in [Web -> Files \union {NoFile}]
ProfType ==
  /\ ThreadType /\ files \in [Files -> Contents]
  /\ queue \in Nat /\ raced \subseteq Names
Coherent(t) ==
  /\ step[t] \in {"locate", "open", "write"} =>
       /\ items[t] # <<>> /\ \A i \in DOMAIN items[t] : items[t][i].name \in named[t]
       /\ doomed[t] # NoFile => Cardinality(named[t]) = 2
  /\ Saving(t) => target[t] \in Files
  /\ step[t] = "unlink" => doomed[t] \in Files
Threads == ProfType /\ \A t \in Web : Coherent(t)

LEMMA HeadIsNamed ==
  ASSUME Threads, NEW t \in Web, step[t] \in {"locate", "open", "write"}
  PROVE  /\ Head(items[t]) \in Profiles /\ Head(items[t]).name \in named[t]
         /\ Head(items[t]).name \in Names
         /\ Tail(items[t]) \in Seq(Profiles)
         /\ Len(items[t]) > 1 => Tail(items[t]) # <<>>
         /\ \A i \in DOMAIN Tail(items[t]) : Tail(items[t])[i].name \in named[t]
<1>1. items[t] \in Seq(Profiles) /\ items[t] # <<>> /\ named[t] \in SUBSET Names
  BY DEF Threads, ProfType, ThreadType, Coherent
<1>2. Head(items[t]) = items[t][1] /\ 1 \in DOMAIN items[t]
  BY <1>1
<1>3. \A i \in DOMAIN Tail(items[t]) :
        i + 1 \in DOMAIN items[t] /\ Tail(items[t])[i] = items[t][i + 1]
  BY <1>1
<1>4. \A i \in DOMAIN items[t] : items[t][i].name \in named[t]
  BY DEF Threads, Coherent
<1>5. Head(items[t]) \in Profiles /\ Tail(items[t]) \in Seq(Profiles) BY <1>1
<1>6. Head(items[t]).name \in named[t] BY <1>2, <1>4
<1>7. \A i \in DOMAIN Tail(items[t]) : Tail(items[t])[i].name \in named[t] BY <1>3, <1>4
<1>8. Len(items[t]) > 1 => Tail(items[t]) # <<>> BY <1>1
<1>9. QED BY <1>1, <1>5, <1>6, <1>7, <1>8

(* A request starts with what it is about.                                 *)
Starts(t) ==
  \/ \E p \in Profiles : Create(t, p) \/ \E n \in Names : Update(t, n, p)
  \/ \E n \in Names : Delete(t, n)
  \/ \E b \in Bundles : Import(t, b)

(* and starts with arguments that fit together.                            *)
Sound(at, save, remove, names) ==
  /\ at \in {"locate", "unlink"} /\ save \in Seq(Profiles)
  /\ remove \in Files \union {NoFile} /\ names \in SUBSET Names
  /\ at = "locate" =>
       /\ save # <<>> /\ \A i \in DOMAIN save : save[i].name \in names
       /\ remove # NoFile => Cardinality(names) = 2
  /\ at = "unlink" => remove \in Files
  /\ remove # NoFile => \E n \in names : Holds(files, remove, n)

LEMMA PairHasTwo == ASSUME NEW m, NEW n, m # n PROVE Cardinality({n, m}) = 2
<1>1. IsFiniteSet({n}) /\ Cardinality({n}) = 1 BY FS_Singleton
<1>2. Cardinality({n} \union {m}) = 2 BY <1>1, FS_AddElement
<1>3. {n} \union {m} = {n, m} OBVIOUS
<1>4. QED BY <1>2, <1>3

LEMMA StartIsBegin ==
  ASSUME NEW t \in Web, Starts(t)
  PROVE  \E at, save, remove, names :
           Begin(t, at, save, remove, names) /\ Sound(at, save, remove, names)
<1>1. ASSUME NEW p \in Profiles
      PROVE  /\ <<p>> \in Seq(Profiles) /\ <<p>> # <<>> /\ p.name \in Names
             /\ \A i \in DOMAIN <<p>> : <<p>>[i].name = p.name
  BY <1>1 DEF Profiles
<1>2. CASE \E p \in Profiles : Create(t, p)
  <2>1. PICK p \in Profiles : Begin(t, "locate", <<p>>, NoFile, {p.name})
    BY <1>2 DEF Create
  <2>2. Sound("locate", <<p>>, NoFile, {p.name}) BY <1>1 DEF Sound
  <2>3. QED BY <2>1, <2>2
<1>3. CASE \E p \in Profiles, n \in Names : Update(t, n, p)
  <2>1. PICK p \in Profiles, n \in Names : Update(t, n, p) BY <1>3
  <2> DEFINE old == FindFile(files, n)
             remove == IF p.name # n THEN old ELSE NoFile
  <2>2. old # NoFile /\ Begin(t, "locate", <<p>>, remove, {n, p.name})
    BY <2>1 DEF Update
  <2>3. old \in Files /\ Holds(files, old, n) BY <2>2, FindFileFinds
  <2>4. p.name # n => Cardinality({n, p.name}) = 2 BY PairHasTwo
  <2>5. Sound("locate", <<p>>, remove, {n, p.name})
    <3>1. remove = NoFile \/ (p.name # n /\ remove = old) OBVIOUS
    <3> HIDE DEF old, remove
    <3>2. QED BY <1>1, <2>3, <2>4, <3>1 DEF Sound
  <2> HIDE DEF old, remove
  <2>6. QED BY <2>2, <2>5
<1>4. CASE \E n \in Names : Delete(t, n)
  <2>1. PICK n \in Names : Delete(t, n) BY <1>4
  <2> DEFINE old == FindFile(files, n)
  <2>2. old # NoFile /\ Begin(t, "unlink", <<>>, old, {n}) BY <2>1 DEF Delete
  <2>3. old \in Files /\ Holds(files, old, n) BY <2>2, FindFileFinds
  <2> HIDE DEF old
  <2>4. Sound("unlink", <<>>, old, {n}) BY <2>3 DEF Sound
  <2>5. QED BY <2>2, <2>4
<1>5. CASE \E b \in Bundles : Import(t, b)
  <2>1. PICK b \in Bundles : Import(t, b) BY <1>5
  <2> DEFINE names == {b[i].name : i \in DOMAIN b}
  <2>2. Begin(t, "locate", b, NoFile, names) BY <2>1 DEF Import
  <2>3. b \in Seq(Profiles) /\ b # <<>> BY ProfileStoreConstants
  <2>4. \A i \in DOMAIN b : b[i].name \in Names /\ b[i].name \in names
    <3>1. \A i \in DOMAIN b : b[i] \in Profiles BY <2>3
    <3>2. QED BY <3>1 DEF Profiles
  <2>5. names \in SUBSET Names BY <2>4
  <2> HIDE DEF names
  <2>6. Sound("locate", b, NoFile, names) BY <2>3, <2>4, <2>5 DEF Sound
  <2>7. QED BY <2>2, <2>6
<1>6. QED BY <1>2, <1>3, <1>4, <1>5 DEF Starts

(* A step of a thread leaves the others where they are.                    *)
Saves(t) == Locate(t) \/ Open(t) \/ Write(t) \/ WriteFails(t) \/ Unlink(t) \/ Notify(t)
Alone(t) ==
  \A u \in Web \ {t} :
    /\ step'[u] = step[u] /\ items'[u] = items[u] /\ target'[u] = target[u]
    /\ doomed'[u] = doomed[u] /\ named'[u] = named[u]

LEMMA ActsAlone == ASSUME Threads, NEW t \in Web, Starts(t) \/ Saves(t) PROVE Alone(t)
<1> USE DEF Threads, ProfType, ThreadType, Alone
<1>1. CASE Starts(t) BY <1>1, StartIsBegin DEF Begin
<1>2. CASE Locate(t) \/ Open(t) \/ Write(t) BY <1>2 DEF Locate, Open, Write
<1>3. CASE WriteFails(t) \/ Notify(t) BY <1>3 DEF WriteFails, Notify, End
<1>4. CASE Unlink(t) BY <1>4 DEF Unlink, End
<1>5. QED BY <1>1, <1>2, <1>3, <1>4 DEF Saves

LEMMA ContentsHold ==
  /\ Absent \in Contents /\ Broken \in Contents
  /\ \A p \in Profiles : Holding(p) \in Contents
BY DEF Contents

LEMMA StartKeepsThreads ==
  ASSUME Threads, NEW t \in Web, Starts(t) PROVE ProfType' /\ Coherent(t)'
<1>1. PICK at, save, remove, names :
        Begin(t, at, save, remove, names) /\ Sound(at, save, remove, names)
  BY StartIsBegin
<1>2. ProfType' BY <1>1 DEF Begin, Sound, Threads, ProfType, ThreadType
<1>3. /\ step'[t] = at /\ items'[t] = save /\ doomed'[t] = remove /\ named'[t] = names
  BY <1>1 DEF Begin, Threads, ProfType, ThreadType
<1>4. Coherent(t)' BY <1>1, <1>3 DEF Sound, Coherent, Saving
<1>5. QED BY <1>2, <1>4

LEMMA PathIsFile ==
  ASSUME NEW n \in Names PROVE PathOf(files, n) \in Files
BY FindFileFinds, ProfileStoreConstants DEF PathOf

LEMMA SaveKeepsThreads ==
  ASSUME Threads, NEW t \in Web, Saves(t) PROVE ProfType' /\ Coherent(t)'
<1>1. Coherent(t) BY DEF Threads
<1>2. CASE Locate(t)
  <2>1. Head(items[t]).name \in Names BY <1>2, HeadIsNamed DEF Locate
  <2>2. PathOf(files, Head(items[t]).name) \in Files BY <2>1, PathIsFile
  <2>3. ProfType' BY <1>2, <2>1, <2>2 DEF Locate, Threads, ProfType, ThreadType
  <2>4. step'[t] = "open" /\ target'[t] \in Files /\ UNCHANGED <<items, doomed, named>>
    BY <1>2, <2>2 DEF Locate, Threads, ProfType, ThreadType
  <2>5. step[t] = "locate" BY <1>2 DEF Locate
  <2>6. Coherent(t)' BY <1>1, <2>4, <2>5 DEF Coherent, Saving
  <2>7. QED BY <2>3, <2>6
<1>3. CASE Open(t)
  <2>1. ProfType' BY <1>3, ContentsHold DEF Open, Threads, ProfType, ThreadType
  <2>2. /\ step[t] = "open" /\ step'[t] = "write"
        /\ UNCHANGED <<items, target, doomed, named>>
    BY <1>3 DEF Open, Threads, ProfType, ThreadType
  <2>3. Coherent(t)' BY <1>1, <2>2 DEF Coherent, Saving
  <2>4. QED BY <2>1, <2>3
<1>4. CASE Write(t)
  <2>1. step[t] = "write" BY <1>4 DEF Write
  <2>2. /\ Head(items[t]) \in Profiles /\ Tail(items[t]) \in Seq(Profiles)
        /\ Len(items[t]) > 1 => Tail(items[t]) # <<>>
        /\ \A i \in DOMAIN Tail(items[t]) : Tail(items[t])[i].name \in named[t]
    BY <2>1, HeadIsNamed
  <2>3. AfterSave(t) \in {"locate", "unlink", "notify"} BY DEF AfterSave
  <2>4. ProfType' BY <1>4, <2>2, <2>3, ContentsHold DEF Write, Threads, ProfType, ThreadType
  <2>5. /\ step'[t] = AfterSave(t) /\ items'[t] = Tail(items[t])
        /\ UNCHANGED <<doomed, named>>
    BY <1>4 DEF Write, Threads, ProfType, ThreadType
  <2>6. doomed[t] # NoFile => doomed[t] \in Files BY DEF Threads, ProfType, ThreadType
  <2>7. Coherent(t)' BY <1>1, <2>1, <2>2, <2>5, <2>6 DEF Coherent, Saving, AfterSave
  <2>8. QED BY <2>4, <2>7
<1>5. End(t) => ThreadType' /\ step'[t] = "idle"
  BY DEF End, Threads, ProfType, ThreadType
<1>6. CASE WriteFails(t) \/ Notify(t)
  <2>1. ThreadType' /\ step'[t] = "idle" BY <1>5, <1>6 DEF WriteFails, Notify
  <2>2. ProfType' BY <1>6, <2>1 DEF WriteFails, Notify, Threads, ProfType
  <2>3. Coherent(t)' BY <2>1 DEF Coherent, Saving
  <2>4. QED BY <2>2, <2>3
<1>7. CASE Unlink(t)
  <2>1. ThreadType' /\ step'[t] \in {"idle", "notify"}
    BY <1>5, <1>7 DEF Unlink, Threads, ProfType, ThreadType
  <2>2. ProfType' BY <1>7, <2>1, ContentsHold DEF Unlink, Threads, ProfType
  <2>3. Coherent(t)' BY <2>1 DEF Coherent, Saving
  <2>4. QED BY <2>2, <2>3
<1>8. QED BY <1>2, <1>3, <1>4, <1>6, <1>7 DEF Saves

LEMMA DaemonActs ==
  ASSUME Threads, Reload \/ TickFails \/ UNCHANGED profVars PROVE Threads'
<1>1. UNCHANGED threadVars BY DEF Reload, TickFails, profVars
<1>2. ThreadType' BY <1>1 DEF threadVars, Threads, ProfType, ThreadType
<1>3. ProfType' BY <1>2 DEF Reload, TickFails, profVars, Threads, ProfType
<1>4. \A t \in Web : Coherent(t)' BY <1>1 DEF threadVars, Threads, Coherent, Saving
<1>5. QED BY <1>3, <1>4 DEF Threads

(* The steps of the program: one thread's, or none's.                      *)
LEMMA StepOf ==
  ASSUME [ProfNext]_profVars
  PROVE  \/ Reload \/ TickFails \/ UNCHANGED profVars
         \/ \E t \in Web : Starts(t) \/ Saves(t)
BY DEF ProfNext, Starts, Saves, Refuse

LEMMA ThreadsStep == ASSUME Threads, [ProfNext]_profVars PROVE Threads'
<1>1. CASE Reload \/ TickFails \/ UNCHANGED profVars BY <1>1, DaemonActs
<1>2. ASSUME NEW t \in Web, Starts(t) \/ Saves(t) PROVE Threads'
  <2>1. ProfType' /\ Coherent(t)' BY <1>2, StartKeepsThreads, SaveKeepsThreads
  <2>2. ASSUME NEW u \in Web \ {t} PROVE Coherent(u)'
    <3>1. Coherent(u) BY DEF Threads
    <3>2. Alone(t) BY <1>2, ActsAlone
    <3>3. QED BY <3>1, <3>2 DEF Alone, Coherent, Saving
  <2>3. QED BY <2>1, <2>2 DEF Threads
<1>3. QED BY <1>1, <1>2, StepOf

LEMMA ThreadsInit == ProfInit => Threads
<1> SUFFICES ASSUME ProfInit PROVE Threads OBVIOUS
<1>1. ThreadType BY DEF ProfInit, ThreadType
<1>2. ProfType BY <1>1, ProfileStoreConstants DEF ProfInit, ProfType
<1>3. \A t \in Web : Coherent(t) BY DEF ProfInit, Coherent, Saving
<1>4. QED BY <1>2, <1>3 DEF Threads

-----------------------------------------------------------------------------
(* Where a profile is or is about to be.                                   *)
Saver(t, f, n) == Saving(t) /\ target[t] = f /\ Head(items[t]).name = n
Spot(f, n) == Holds(files, f, n) \/ \E t \in Web : Saver(t, f, n)
OneSpot ==
  \A n \in Names \ raced, f, g \in Files : Spot(f, n) /\ Spot(g, n) => f = g

(* Only a thread that has looked for its file adds a place, the one found. *)
LEMMA SpotsShrink ==
  ASSUME Threads, [ProfNext]_profVars, NEW f \in Files, NEW n \in Names, Spot(f, n)'
  PROVE  \/ Spot(f, n)
         \/ \E t \in Web : Locate(t) /\ Head(items[t]).name = n /\ PathOf(files, n) = f
<1>1. CASE Reload \/ TickFails \/ UNCHANGED profVars
  <2>1. UNCHANGED <<files, step, items, target>>
    BY <1>1 DEF Reload, TickFails, profVars, threadVars
  <2>2. QED BY <2>1 DEF Spot, Saver, Saving
<1>2. ASSUME NEW t \in Web, Starts(t) \/ Saves(t)
      PROVE  \/ Spot(f, n)
             \/ Locate(t) /\ Head(items[t]).name = n /\ PathOf(files, n) = f
  <2>1. Alone(t) BY <1>2, ActsAlone
  <2>2. \A u \in Web \ {t} : Saver(u, f, n)' => Saver(u, f, n)
    BY <2>1 DEF Alone, Saver, Saving
  <2> USE DEF Threads, ProfType, ThreadType
  <2>3. CASE Starts(t)
    <3>1. PICK at, save, remove, names :
            Begin(t, at, save, remove, names) /\ Sound(at, save, remove, names)
      BY <2>3, StartIsBegin
    <3>2. files' = files /\ ~Saving(t)' BY <3>1 DEF Begin, Sound, Saving
    <3>3. QED BY <2>2, <3>2 DEF Spot, Saver
  <2>4. CASE Locate(t)
    <3>1. /\ UNCHANGED <<files, items>>
          /\ target'[t] = PathOf(files, Head(items[t]).name)
      BY <2>4 DEF Locate
    <3>2. QED BY <2>2, <2>4, <3>1 DEF Spot, Saver
  <2>5. CASE Open(t)
    <3>1. UNCHANGED <<items, target>> /\ step[t] = "open" BY <2>5 DEF Open
    <3>2. Saver(t, f, n)' => Saver(t, f, n) BY <3>1 DEF Saver, Saving
    <3>3. Holds(files, f, n)' => Holds(files, f, n)
      BY <2>5 DEF Open, Holds, Broken
    <3>4. QED BY <2>2, <3>2, <3>3 DEF Spot
  <2>6. CASE Write(t)
    <3>1. ~Saving(t)' BY <2>6 DEF Write, AfterSave, Saving
    <3>2. Holds(files, f, n)' => Holds(files, f, n) \/ Saver(t, f, n)
      BY <2>6 DEF Write, Holds, Holding, Saver, Saving
    <3>3. QED BY <2>2, <3>1, <3>2 DEF Spot, Saver
  <2>7. CASE WriteFails(t) \/ Notify(t)
    <3>1. files' = files /\ ~Saving(t)' BY <2>7 DEF WriteFails, Notify, End, Saving
    <3>2. QED BY <2>2, <3>1 DEF Spot, Saver
  <2>8. CASE Unlink(t)
    <3>1. ~Saving(t)' BY <2>8 DEF Unlink, End, Saving
    <3>2. Holds(files, f, n)' => Holds(files, f, n) BY <2>8 DEF Unlink, Holds, Absent
    <3>3. QED BY <2>2, <3>1, <3>2 DEF Spot, Saver
  <2>9. QED BY <1>2, <2>3, <2>4, <2>5, <2>6, <2>7, <2>8 DEF Saves
<1>3. QED BY <1>1, <1>2, StepOf

LEMMA OneSpotStep == ASSUME Threads, OneSpot, [ProfNext]_profVars PROVE OneSpot'
<1>1. raced \subseteq raced'
  <2>1. CASE Reload \/ TickFails \/ UNCHANGED profVars
    BY <2>1 DEF Reload, TickFails, profVars
  <2>2. ASSUME NEW t \in Web, Starts(t) PROVE raced' = raced
    BY <2>2, StartIsBegin DEF Begin
  <2>3. ASSUME NEW t \in Web, Saves(t) PROVE raced \subseteq raced'
    BY <2>3 DEF Saves, Locate, Open, Write, WriteFails, Unlink, Notify
  <2>4. QED BY <2>1, <2>2, <2>3, StepOf
<1>2. SUFFICES ASSUME NEW n \in Names, n \notin raced', NEW f \in Files, NEW g \in Files,
                      Spot(f, n)', Spot(g, n)'
               PROVE  f = g
  BY DEF OneSpot
<1>3. CASE \A t \in Web : ~(Locate(t) /\ Head(items[t]).name = n)
  <2>1. Spot(f, n) /\ Spot(g, n) BY <1>2, <1>3, SpotsShrink
  <2>2. QED BY <1>1, <1>2, <2>1 DEF OneSpot
<1>4. ASSUME NEW t \in Web, Locate(t), Head(items[t]).name = n PROVE f = g
  <2> DEFINE path == PathOf(files, n)
  <2>1. /\ target'[t] = path /\ UNCHANGED <<files, items>> /\ Alone(t)
        /\ \A u \in Web \ {t} : ~(Saving(u) /\ Head(items[u]).name = n)
    BY <1>2, <1>4, ActsAlone DEF Locate, Saves, Saving, Threads, ProfType, ThreadType
  <2>2. \A h \in Files : Spot(h, n)' => h = path \/ Holds(files, h, n)
    BY <2>1 DEF Spot, Saver, Saving, Alone
  <2>3. CASE FindFile(files, n) = NoFile BY <1>2, <2>2, <2>3, FindFileFinds
  <2>4. CASE FindFile(files, n) # NoFile
    <3>1. path \in Files /\ Holds(files, path, n) BY <2>4, FindFileFinds DEF PathOf
    <3>2. \A h \in Files : Holds(files, h, n) => h = path
      BY <1>1, <1>2, <3>1 DEF OneSpot, Spot
    <3>3. QED BY <1>2, <2>2, <3>2
  <2>5. QED BY <2>3, <2>4
<1>5. QED BY <1>3, <1>4

(* Two files come to hold one profile only when two requests save it at    *)
(* the same time.                                                          *)
THEOREM ProfilesOneFilePerName ==
  ASSUME \A dir \in StartFiles : NoDuplicates(dir)
  PROVE  ProfSpec => []OneFilePerName
<1>1. ProfInit => OneSpot
  BY DEF ProfInit, OneSpot, Spot, Saver, Saving, NoDuplicates
<1>2. Threads /\ OneSpot => OneFilePerName BY DEF OneSpot, Spot, OneFilePerName
<1>3. Threads /\ OneSpot /\ [ProfNext]_profVars => Threads' /\ OneSpot'
  BY ThreadsStep, OneSpotStep
<1>4. QED BY <1>1, <1>2, <1>3, ThreadsInit, PTL DEF ProfSpec

-----------------------------------------------------------------------------
(* The daemon is behind the directory only while someone will still tell   *)
(* it: a reload waits, or a request is under way that ends with one.  A    *)
(* deletion is not counted: it may find its file gone and end without; but *)
(* then it has not changed the directory.                                  *)
WillTell(t) ==
  step[t] # "idle" /\ (step[t] = "unlink" => Cardinality(named[t]) # 1)
Told ==
  loaded = LoadProfiles(files) \/ missed \/ queue > 0 \/ \E t \in Web : WillTell(t)

LEMMA ToldStep == ASSUME Threads, Told, [ProfNext]_profVars PROVE Told'
<1>1. CASE Reload \/ TickFails
  <2>1. CASE Reload BY <2>1 DEF Reload, Told
  <2>2. CASE TickFails BY <2>2 DEF TickFails, Told
  <2>3. QED BY <1>1, <2>1, <2>2
<1>2. CASE UNCHANGED profVars
  BY <1>2 DEF profVars, threadVars, Told, WillTell
<1>3. ASSUME NEW t \in Web, Starts(t) \/ Saves(t) PROVE Told'
  <2>1. Alone(t) BY <1>3, ActsAlone
  <2>2. \A u \in Web \ {t} : WillTell(u) => WillTell(u)' BY <2>1 DEF Alone, WillTell
  <2> USE DEF Threads, ProfType, ThreadType
  <2>3. CASE Starts(t)
    <3>1. UNCHANGED <<files, queue, loaded, missed>> /\ step[t] = "idle"
      BY <2>3, StartIsBegin DEF Begin
    <3>2. ~WillTell(t) BY <3>1 DEF WillTell
    <3>3. QED BY <2>2, <3>1, <3>2 DEF Told
  <2>4. CASE Locate(t) \/ Open(t)
    <3>1. step'[t] \in {"open", "write"} BY <2>4 DEF Locate, Open
    <3>2. QED BY <3>1 DEF Told, WillTell
  <2>5. CASE Write(t)
    <3>1. step'[t] = AfterSave(t) /\ named' = named /\ step[t] = "write"
      BY <2>5 DEF Write
    <3>2. doomed[t] # NoFile => Cardinality(named[t]) = 2 BY <3>1 DEF Coherent
    <3>3. WillTell(t)' BY <3>1, <3>2 DEF WillTell, AfterSave
    <3>4. QED BY <3>3 DEF Told
  <2>6. CASE WriteFails(t) BY <2>6 DEF WriteFails, Told
  <2>7. CASE Unlink(t) /\ files[doomed[t]] = Absent /\ Cardinality(named[t]) = 1
    <3>1. files' = files /\ UNCHANGED <<queue, loaded, missed>>
      BY <2>7 DEF Unlink
    <3>2. ~WillTell(t) BY <2>7 DEF Unlink, WillTell
    <3>3. QED BY <2>2, <3>1, <3>2 DEF Told
  <2>8. CASE Unlink(t) /\ ~(files[doomed[t]] = Absent /\ Cardinality(named[t]) = 1)
    <3>1. step'[t] = "notify" BY <2>8 DEF Unlink
    <3>2. QED BY <3>1 DEF Told, WillTell
  <2>9. CASE Notify(t) BY <2>9 DEF Notify, Told
  <2>10. QED BY <1>3, <2>3, <2>4, <2>5, <2>6, <2>7, <2>8, <2>9 DEF Saves
<1>4. QED BY <1>1, <1>2, <1>3, StepOf

(* Once it is quiet the daemon works with the directory, unless a reload   *)
(* was missed.                                                             *)
THEOREM ProfilesQuietMeansLoaded == ProfSpec => []QuietMeansLoaded
<1>1. ProfInit => Told BY DEF ProfInit, Told
<1>2. Threads /\ Told => QuietMeansLoaded
  BY DEF Threads, ProfType, Told, WillTell, QuietMeansLoaded
<1>3. Threads /\ Told /\ [ProfNext]_profVars => Threads' /\ Told'
  BY ThreadsStep, ToldStep
<1>4. QED BY <1>1, <1>2, <1>3, ThreadsInit, PTL DEF ProfSpec

-----------------------------------------------------------------------------
(* A file is claimed by the profile it holds, one being saved to it, and   *)
(* the one it is named for: never two, and no step adds a claim.           *)
Claim(f, n) == Spot(f, n) \/ NameFile[n] = f
OneClaim ==
  /\ \A f \in Files, m, n \in Names : Claim(f, m) /\ Claim(f, n) => m = n
  /\ \A t \in Web, n \in Names :
       doomed[t] # NoFile /\ Claim(doomed[t], n) => n \in named[t]

LEMMA ClaimsShrink ==
  ASSUME Threads, [ProfNext]_profVars, NEW f \in Files, NEW n \in Names, Claim(f, n)'
  PROVE  Claim(f, n)
<1>1. CASE Spot(f, n)'
  <2>1. PathOf(files, n) = f => Claim(f, n) BY FindFileFinds DEF PathOf, Claim, Spot
  <2>2. QED BY <1>1, <2>1, SpotsShrink DEF Claim
<1>2. QED BY <1>1 DEF Claim

LEMMA OneClaimStep == ASSUME Threads, OneClaim, [ProfNext]_profVars PROVE OneClaim'
<1>1. ASSUME NEW f \in Files, NEW m \in Names, NEW n \in Names, Claim(f, m)', Claim(f, n)'
      PROVE  m = n
  BY <1>1, ClaimsShrink DEF OneClaim
<1>2. ASSUME NEW t \in Web, NEW n \in Names, doomed'[t] # NoFile, Claim(doomed[t], n)'
      PROVE  n \in named'[t]
  <2>1. Threads' BY ThreadsStep
  <2>2. doomed'[t] \in Files BY <1>2, <2>1 DEF Threads, ProfType, ThreadType
  <2>3. Claim(doomed[t]', n) BY <1>2, <2>2, ClaimsShrink
  <2>4. CASE doomed'[t] = doomed[t] /\ named'[t] = named[t]
    BY <1>2, <2>3, <2>4 DEF OneClaim
  <2>5. CASE Starts(t)
    <3>1. PICK at, save, remove, names :
            Begin(t, at, save, remove, names) /\ Sound(at, save, remove, names)
      BY <2>5, StartIsBegin
    <3>2. doomed'[t] = remove /\ named'[t] = names
      BY <3>1 DEF Begin, Threads, ProfType, ThreadType
    <3>3. PICK m \in names : Holds(files, remove, m) BY <1>2, <3>1, <3>2 DEF Sound
    <3>4. m \in Names /\ Claim(remove, m) BY <3>1, <3>3 DEF Sound, Claim, Spot
    <3>5. m = n BY <2>2, <2>3, <3>2, <3>4 DEF OneClaim
    <3>6. QED BY <3>2, <3>3, <3>5
  <2>6. \/ Starts(t) \/ doomed'[t] = NoFile
        \/ doomed'[t] = doomed[t] /\ named'[t] = named[t]
    <3>1. CASE Reload \/ TickFails \/ UNCHANGED profVars
      BY <3>1 DEF Reload, TickFails, profVars, threadVars
    <3>2. CASE Saves(t)
      <4>1. Locate(t) \/ Open(t) \/ Write(t) => UNCHANGED <<doomed, named>>
        BY DEF Locate, Open, Write
      <4>2. End(t) => doomed'[t] = NoFile BY DEF End, Threads, ProfType, ThreadType
      <4>3. WriteFails(t) \/ Notify(t) => End(t) BY DEF WriteFails, Notify
      <4>4. Unlink(t) => End(t) \/ UNCHANGED <<doomed, named>> BY DEF Unlink
      <4>5. End(t) \/ UNCHANGED <<doomed, named>>
        BY <3>2, <4>1, <4>3, <4>4, Zenon DEF Saves
      <4>6. QED BY <4>2, <4>5
    <3>3. CASE \E u \in Web \ {t} : Starts(u) \/ Saves(u) BY <3>3, ActsAlone DEF Alone
    <3>4. QED BY <3>1, <3>2, <3>3, StepOf
  <2>7. QED BY <1>2, <2>4, <2>5, <2>6
<1>3. QED BY <1>1, <1>2 DEF OneClaim

(* A step that changes what the directory says of a profile is the step of *)
(* a request about it.                                                     *)
LEMMA OnlyOwnChange ==
  ASSUME Threads, OneClaim, [ProfNext]_profVars,
         NEW n \in Names, Defined(files, n) # Defined(files, n)'
  PROVE  \E t \in Web : step[t] # step'[t] /\ n \in named[t]
<1>1. PICK t \in Web : Starts(t) \/ Saves(t)
  <2>1. CASE Reload \/ TickFails \/ UNCHANGED profVars
    <3>1. files' = files BY <2>1 DEF Reload, TickFails, profVars
    <3>2. QED BY <3>1 DEF Defined
  <2>2. QED BY <2>1, StepOf
<1>2. ~(files' = files) BY DEF Defined
<1>3. Open(t) \/ Write(t) \/ Unlink(t)
  <2>1. Starts(t) => files' = files BY StartIsBegin DEF Begin
  <2>2. Locate(t) \/ WriteFails(t) \/ Notify(t) => files' = files
    BY DEF Locate, WriteFails, Notify
  <2>3. QED BY <1>1, <1>2, <2>1, <2>2 DEF Saves
<1>4. step[t] # step'[t]
  BY <1>3 DEF Open, Write, AfterSave, Unlink, End, Threads, ProfType, ThreadType
<1>5. PICK f \in Files :
        /\ \A g \in Files \ {f} : files'[g] = files[g]
        /\ \A m \in Names : Claim(f, m) => m \in named[t]
  <2> USE DEF Threads, ProfType, ThreadType
  <2>1. CASE Open(t) \/ Write(t)
    <3> DEFINE m == Head(items[t]).name
    <3>1. Saving(t) BY <2>1 DEF Open, Write, Saving
    <3>2. target[t] \in Files /\ m \in Names /\ m \in named[t]
      BY <3>1, HeadIsNamed DEF Coherent, Saving
    <3>3. Claim(target[t], m) BY <3>1 DEF Claim, Spot, Saver
    <3>4. \A k \in Names : Claim(target[t], k) => k \in named[t]
      BY <3>2, <3>3 DEF OneClaim
    <3>5. \A g \in Files \ {target[t]} : files'[g] = files[g] BY <2>1 DEF Open, Write
    <3>6. QED BY <3>2, <3>4, <3>5
  <2>2. CASE Unlink(t)
    <3>1. doomed[t] \in Files /\ doomed[t] # NoFile
      BY <2>2, ProfileStoreConstants DEF Unlink, Coherent
    <3>2. \A k \in Names : Claim(doomed[t], k) => k \in named[t] BY <3>1 DEF OneClaim
    <3>3. \A g \in Files \ {doomed[t]} : files'[g] = files[g] BY <2>2 DEF Unlink
    <3>4. QED BY <3>1, <3>2, <3>3
  <2>3. QED BY <1>3, <2>1, <2>2
<1>6. SUFFICES ASSUME n \notin named[t] PROVE FALSE BY <1>4
<1>7. ~Claim(f, n) BY <1>5, <1>6
<1>8. ~Claim(f, n)' BY <1>7, ClaimsShrink
<1>9. \A g \in Files : Holds(files, g, n) <=> Holds(files', g, n)
  BY <1>5, <1>7, <1>8 DEF Claim, Spot, Holds
<1>10. FindFile(files', n) = FindFile(files, n) BY <1>9, FindFileSame
<1>11. FindFile(files, n) # NoFile =>
         FindFile(files, n) \in Files /\ FindFile(files, n) # f
  BY <1>7, FindFileFinds DEF Claim, Spot
<1>12. QED BY <1>5, <1>10, <1>11 DEF Defined

(* What an import promises, and every other request keeps: nobody else's   *)
(* profile is touched.                                                     *)
THEOREM ProfilesOthersUntouched ==
  ASSUME \A dir \in StartFiles : OwnFileNames(dir)
  PROVE  ProfSpec => OthersUntouched
<1>1. ProfInit => OneClaim
  BY ProfileStoreConstants
  DEF ProfInit, OneClaim, Claim, Spot, Saver, Saving, OwnFileNames, IsInjective, Holds
<1>2. Threads /\ OneClaim /\ [ProfNext]_profVars
        => [\A n \in Names : Defined(files, n) # Defined(files', n) =>
              \E t \in Web : step[t] # step'[t] /\ n \in named[t]]_profVars
  BY OnlyOwnChange
<1>3. Threads /\ OneClaim /\ [ProfNext]_profVars => Threads' /\ OneClaim'
  BY ThreadsStep, OneClaimStep
<1>4. QED BY <1>1, <1>2, <1>3, ThreadsInit, PTL DEF ProfSpec, OthersUntouched
=============================================================================

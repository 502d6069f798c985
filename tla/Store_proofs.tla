---------------------------- MODULE Store_proofs ----------------------------
(***************************************************************************)
(* What holds of the state document for any number of updates and crashes, *)
(* and of what relies on it: automatic import, which keeps its records in  *)
(* it, for any number of contexts, of imports at one time and of launches, *)
(* and the read-only policy, whose stored mode lets no write through.      *)
(***************************************************************************)
EXTENDS Store, AutoImport, PolicyHistory, FiniteSetTheorems, TLAPS

USE MaxCrashesAssumption

\* One update at a time holds the mutex, and only in a running process.
OneHolder ==
  /\ \A u, v \in Updates :
       caller[u] \in Holding /\ caller[v] \in Holding => u = v
  /\ ~running => Free

\* A file that a power loss leaves as it is: on disk, and whole or never made.
Sound(f) == f.flushed /\ (f.size = "whole" \/ (f.size = "none" /\ f.holds = {}))

\* Every file the document's name may be found naming is such a file.
FilesWhole == Sound(disk) /\ \A f \in older : Sound(f)

\* The temporary file holds what memory holds and the update being saved, and is
\* whole and flushed before it takes the document's name.
Prepared ==
  \A u \in Updates :
    /\ caller[u] \in Holding \ {"swapping"} => tmp.holds = memory \cup {u}
    /\ caller[u] \in {"flushing", "closing", "renaming"} => tmp.size = "whole"
    /\ caller[u] \in {"closing", "renaming"} => tmp.flushed

\* Disk is ahead of memory by the update being swapped in, and never otherwise.
DiskAhead ==
  /\ \A u \in Updates :
       caller[u] = "swapping" => disk.holds = memory \cup {u}
  /\ running /\ (\A u \in Updates : caller[u] # "swapping")
       => disk.holds = memory

\* What the name may fall back to lacks updates and has none of its own; while
\* an update is swapped in it is the document of just before, or the rename has
\* reached the disk.
OlderIsBehind ==
  /\ \A f \in older : f.holds \subseteq disk.holds
                       /\ (running => f.holds \subseteq memory)
  /\ \A u \in Updates :
       caller[u] = "swapping" => older = {} \/ \E f \in older : f.holds = memory

\* An update that was not saved yet is in no document.
NotYet ==
  \A u \in Updates :
    /\ caller[u] = "new" => u \notin disk.holds
    /\ caller[u] \in Holding => u \notin memory

SavedInMemory == saved \subseteq memory /\ (~running => saved = {})

\* The inductive invariant.
IInv == /\ TypeOK /\ OneHolder /\ FilesWhole /\ Prepared /\ DiskAhead
        /\ OlderIsBehind /\ NotYet /\ SavedInMemory

-----------------------------------------------------------------------------
\* The invariant holds initially, with or without a document of before.
LEMMA InitInvariant == Init => IInv
<1> SUFFICES ASSUME Init PROVE IInv
  OBVIOUS
<1>1. \A f \in {Nothing, Written} : f \in File /\ Sound(f) /\ f.holds = {}
  <2>1. Written \in File /\ Nothing \in File
    BY DEF File, Document, Nothing, Written
  <2>2. Nothing.flushed /\ Nothing.size = "none" /\ Nothing.holds = {}
    BY DEF Nothing
  <2>3. Written.flushed /\ Written.size = "whole" /\ Written.holds = {}
    BY DEF Written
  <2> QED BY <2>1, <2>2, <2>3 DEF Sound
<1>2. disk \in File /\ Sound(disk) /\ disk.holds = {} /\ tmp \in File
  BY <1>1 DEF Init
<1>3. TypeOK
  BY <1>2 DEF Init, TypeOK, Document, Steps
<1>4. FilesWhole /\ OlderIsBehind
  BY <1>2 DEF Init, FilesWhole, OlderIsBehind
<1>5. OneHolder /\ Prepared /\ DiskAhead /\ NotYet /\ SavedInMemory
  BY <1>2 DEF Init, OneHolder, Prepared, DiskAhead, NotYet, SavedInMemory,
              Holding, Free
<1> QED BY <1>3, <1>4, <1>5 DEF IInv

\* The document made of a sound file is what the file holds.
LEMMA SoundContents ==
  ASSUME IInv
  PROVE  /\ Contents(disk) = disk.holds
         /\ \A f \in older : Contents(f) = f.holds
         /\ disk.size # "part"
  BY DEF IInv, FilesWhole, Sound, Contents

\* Every step of an update keeps the invariant.
LEMMA UpdateStep ==
  ASSUME IInv, NEW u \in Updates, Update(u)
  PROVE  IInv'
<1> USE DEF IInv, TypeOK, OneHolder, FilesWhole, Prepared, DiskAhead,
            OlderIsBehind, NotYet, SavedInMemory, Document, File, Sound, Steps,
            Holding, Free, To
<1>1. CASE Begin(u)
  <2>1. /\ caller' = [caller EXCEPT ![u] = "writing"]
        /\ tmp' = [holds |-> memory \cup {u}, size |-> "empty", flushed |-> FALSE]
        /\ UNCHANGED <<memory, disk, older, saved, running, crashes>>
        /\ running /\ Free /\ caller[u] = "new"
    BY <1>1 DEF Begin
  <2>2. TypeOK' /\ OneHolder'
    BY <2>1
  <2>3. FilesWhole' /\ Prepared' /\ DiskAhead'
    BY <2>1
  <2>4. OlderIsBehind' /\ NotYet' /\ SavedInMemory'
    BY <2>1
  <2>5. QED BY <2>2, <2>3, <2>4
<1>2. CASE Refuse(u)
  BY <1>2 DEF Refuse
<1>3. CASE Write(u)
  <2>1. /\ caller' = [caller EXCEPT ![u] = "flushing"]
        /\ tmp' = [tmp EXCEPT !.size = "whole"]
        /\ UNCHANGED <<memory, disk, older, saved, running, crashes>>
        /\ caller[u] = "writing"
    BY <1>3 DEF Write
  <2>t. tmp' \in File /\ tmp'.holds = tmp.holds
    BY <2>1
  <2>c. caller' \in [Updates -> Steps]
    BY <2>1
  <2>h. caller'[u] \in Holding /\ \A v \in Updates \ {u} : caller'[v] = caller[v]
    BY <2>1
  <2>2. TypeOK' /\ OneHolder'
    BY <2>1, <2>t, <2>c, <2>h
  <2>3. FilesWhole' /\ Prepared' /\ DiskAhead'
    BY <2>1
  <2>4. OlderIsBehind' /\ NotYet' /\ SavedInMemory'
    BY <2>1
  <2>5. QED BY <2>2, <2>3, <2>4
<1>4. CASE Sync(u)
  <2>1. /\ caller' = [caller EXCEPT ![u] = "closing"]
        /\ tmp' = [tmp EXCEPT !.flushed = TRUE]
        /\ UNCHANGED <<memory, disk, older, saved, running, crashes>>
        /\ caller[u] = "flushing"
    BY <1>4 DEF Sync
  <2>t. tmp' \in File /\ tmp'.holds = tmp.holds
    BY <2>1
  <2>c. caller' \in [Updates -> Steps]
    BY <2>1
  <2>h. caller'[u] \in Holding /\ \A v \in Updates \ {u} : caller'[v] = caller[v]
    BY <2>1
  <2>2. TypeOK' /\ OneHolder'
    BY <2>1, <2>t, <2>c, <2>h
  <2>3. FilesWhole' /\ Prepared' /\ DiskAhead'
    BY <2>1
  <2>4. OlderIsBehind' /\ NotYet' /\ SavedInMemory'
    BY <2>1
  <2>5. QED BY <2>2, <2>3, <2>4
<1>5. CASE Close(u)
  BY <1>5 DEF Close
<1>6. CASE Rename(u)
  <2>1. /\ caller' = [caller EXCEPT ![u] = "swapping"]
        /\ disk' = tmp /\ older' = older \cup {disk}
        /\ UNCHANGED <<memory, tmp, saved, running, crashes>>
        /\ caller[u] = "renaming"
    BY <1>6 DEF Rename
  <2>2. /\ running /\ disk.holds = memory
        /\ tmp.holds = memory \cup {u} /\ tmp.size = "whole" /\ tmp.flushed
    BY <2>1
  <2>c. caller' \in [Updates -> Steps] /\ older' \subseteq File
    BY <2>1
  <2>h. caller'[u] \in Holding /\ \A v \in Updates \ {u} : caller'[v] = caller[v]
    BY <2>1
  <2>t. TypeOK'
    <3> HIDE DEF File, OneHolder, FilesWhole, Prepared, DiskAhead, OlderIsBehind,
                 NotYet, SavedInMemory, Free, To
    <3> QED BY <2>1, <2>c
  <2>3. OneHolder'
    <3> HIDE DEF TypeOK, FilesWhole, Prepared, DiskAhead, OlderIsBehind,
                 NotYet, SavedInMemory, To, File
    <3>1. running' = TRUE /\ caller[u] \in Holding
      BY <2>1, <2>2
    <3>2. \A v \in Updates \ {u} : caller'[v] \notin Holding
      BY <2>h, <3>1
    <3> HIDE DEF Holding, Free, IInv
    <3> QED BY <2>h, <3>1, <3>2
  <2>4. FilesWhole'
    BY <2>1, <2>2
  <2>p. \A v \in Updates \ {u} : caller'[v] = caller[v] /\ caller'[v] \notin Holding
    BY <2>1
  <2>d. Prepared' /\ DiskAhead'
    BY <2>1, <2>2, <2>p
  <2>5. \A f \in older' : f.holds \subseteq memory
    BY <2>1, <2>2
  <2>6. disk \in older' /\ disk.holds = memory
    BY <2>1, <2>2
  <2>7. OlderIsBehind'
    <3> HIDE DEF File, TypeOK, FilesWhole, Prepared, DiskAhead, Free, NotYet,
                 SavedInMemory, OneHolder, IInv
    <3> QED BY <2>1, <2>2, <2>5, <2>6
  <2>8. NotYet' /\ SavedInMemory'
    BY <2>1, <2>2
  <2>9. QED BY <2>t, <2>3, <2>4, <2>d, <2>7, <2>8
<1>7. CASE Swap(u)
  <2>1. /\ caller' = [caller EXCEPT ![u] = "saved"]
        /\ memory' = disk.holds /\ saved' = saved \cup {u}
        /\ UNCHANGED <<disk, older, tmp, running, crashes>>
        /\ caller[u] = "swapping"
    BY <1>7, SoundContents DEF Swap
  <2>2. running /\ disk.holds = memory \cup {u}
    BY <2>1
  <2>3. TypeOK' /\ OneHolder'
    BY <2>1
  <2>4. FilesWhole' /\ Prepared' /\ DiskAhead'
    BY <2>1, <2>2
  <2>5. OlderIsBehind' /\ NotYet' /\ SavedInMemory'
    BY <2>1, <2>2
  <2>6. QED BY <2>3, <2>4, <2>5
<1>8. CASE SaveFails(u)
  <2>1. /\ caller' = [caller EXCEPT ![u] = "failed"]
        /\ UNCHANGED <<memory, disk, older, tmp, saved, running, crashes>>
        /\ caller[u] \in Holding \ {"swapping"}
    BY <1>8 DEF SaveFails
  <2>2. QED BY <2>1
<1> QED
  BY <1>1, <1>2, <1>3, <1>4, <1>5, <1>6, <1>7, <1>8 DEF Update

\* A process that dies leaves no update holding the mutex.
LEMMA DiedEffect ==
  ASSUME TypeOK
  PROVE  /\ Died \in [Updates -> Steps]
         /\ \A u \in Updates : Died[u] \notin Holding
         /\ \A u \in Updates : Died[u] = "new" => caller[u] = "new"
  BY DEF Died, TypeOK, Steps, Holding

\* What is found after a power loss is whole, and is what the name stood for or
\* something behind it.
LEMMA PowerLostEffect ==
  ASSUME IInv, PowerLost
  PROVE  /\ disk' \in File /\ Sound(disk')
         /\ disk' = disk \/ disk' \in older
<1>1. PICK f \in {disk} \cup older : disk' \in Found(f)
  BY DEF PowerLost
<1>2. f \in File /\ Sound(f)
  BY <1>1 DEF IInv, TypeOK, FilesWhole
<1>3. disk' = f
  BY <1>1, <1>2 DEF Found, Sound
<1> QED BY <1>1, <1>2, <1>3

\* Crashes, restarts and the file system keep the invariant.
LEMMA CrashStep ==
  ASSUME IInv, Settle \/ Killed \/ PowerLost \/ Open
  PROVE  IInv'
<1> USE DEF IInv, TypeOK, OneHolder, FilesWhole, Prepared, DiskAhead,
            OlderIsBehind, NotYet, SavedInMemory, Document, Free
<1>0. Holding \subseteq Steps /\ "new" \notin Holding /\ "swapping" \in Holding
        /\ {"flushing", "closing", "renaming"} \subseteq Holding
  BY DEF Holding, Steps
<1>d. /\ Died \in [Updates -> Steps]
      /\ \A u \in Updates : Died[u] \notin Holding
      /\ \A u \in Updates : Died[u] = "new" => caller[u] = "new"
  BY DiedEffect
<1>1. CASE Settle
  BY <1>1 DEF Settle
<1>2. CASE Killed
  <2>1. /\ running' = FALSE /\ crashes' = crashes + 1 /\ crashes < MaxCrashes
        /\ caller' = Died /\ saved' = {}
        /\ UNCHANGED <<memory, disk, older, tmp>>
    BY <1>2 DEF Killed
  <2>c. crashes' \in 0 .. MaxCrashes
    BY <2>1
  <2>t. caller' \in [Updates -> Steps]
    BY <2>1, <1>d
  <2>2. TypeOK'
    BY <2>1, <2>c, <2>t
  <2>a. OneHolder' /\ FilesWhole'
    BY <2>1, <1>d
  <2>3. Prepared' /\ DiskAhead' /\ SavedInMemory'
    BY <2>1, <1>d, <1>0
  <2>4. NotYet'
    BY <2>1, <1>d
  <2>5. OlderIsBehind'
    <3>1. \A u \in Updates : caller'[u] # "swapping"
      BY <2>1, <1>d, <1>0
    <3> QED BY <2>1, <3>1
  <2>6. QED BY <2>2, <2>a, <2>3, <2>4, <2>5
<1>3. CASE PowerLost
  <2>1. /\ running' = FALSE /\ crashes' = crashes + 1 /\ crashes < MaxCrashes
        /\ caller' = Died /\ saved' = {} /\ older' = {}
        /\ UNCHANGED <<memory, tmp>>
    BY <1>3 DEF PowerLost
  <2>c. crashes' \in 0 .. MaxCrashes
    BY <2>1
  <2>t. caller' \in [Updates -> Steps]
    BY <2>1, <1>d
  <2>p. disk' \in File /\ older' \subseteq File
    BY <1>3, <2>1, PowerLostEffect
  <2>2. TypeOK'
    BY <2>1, <2>c, <2>t, <2>p
  <2>a. OneHolder' /\ FilesWhole'
    BY <1>3, <2>1, <1>d, PowerLostEffect
  <2>3. Prepared' /\ DiskAhead' /\ SavedInMemory'
    BY <2>1, <1>d, <1>0
  <2>7. OlderIsBehind'
    BY <2>1
  <2>4. disk'.holds \subseteq disk.holds
    BY <1>3, PowerLostEffect
  <2>5. NotYet'
    BY <2>1, <2>4, <1>d
  <2>6. QED BY <2>2, <2>a, <2>3, <2>5, <2>7
<1>4. CASE Open
  <2>1. /\ memory' = disk.holds /\ running' = TRUE /\ ~running
        /\ UNCHANGED <<disk, older, tmp, caller, saved, crashes>>
    BY <1>4, SoundContents DEF Open
  <2>2. \A u \in Updates : caller[u] \notin Holding
    BY <2>1
  <2>3. TypeOK'
    BY <2>1 DEF File
  <2>a. OneHolder' /\ FilesWhole'
    BY <2>1, <2>2
  <2>4. Prepared' /\ DiskAhead' /\ SavedInMemory'
    BY <2>1, <2>2, <1>0 DEF File
  <2>5. NotYet'
    BY <2>1, <2>2
  <2>7. \A f \in older' : f.holds \subseteq disk'.holds /\ f.holds \subseteq memory'
    BY <2>1
  <2>8. OlderIsBehind'
    BY <2>1, <2>2, <2>7, <1>0
  <2>6. QED BY <2>3, <2>a, <2>4, <2>5, <2>8
<1> QED BY <1>1, <1>2, <1>3, <1>4

\* The invariant is inductive.
LEMMA InvariantStep == IInv /\ [Next]_vars => IInv'
<1> SUFFICES ASSUME IInv, [Next]_vars PROVE IInv'
  OBVIOUS
<1>1. CASE UNCHANGED vars
  BY <1>1 DEF vars, IInv, TypeOK, OneHolder, FilesWhole, Prepared, DiskAhead,
              OlderIsBehind, NotYet, SavedInMemory, Free
<1> QED BY <1>1, UpdateStep, CrashStep DEF Next

\* The invariant of the store holds in every state, for any number of updates
\* and crashes.
THEOREM StoreInvariant == Spec => []IInv
  BY InitInvariant, InvariantStep, PTL DEF Spec

\* Every variable keeps its type.
THEOREM TypeCorrect == Spec => []TypeOK
<1>1. IInv => TypeOK
  BY DEF IInv
<1> QED BY <1>1, StoreInvariant, PTL

\* The document found after a crash or a power loss is never part of one, nor an
\* empty file in the place of one.
THEOREM NeverTornAlways == Spec => []NeverTorn
<1>1. IInv => NeverTorn
  BY DEF IInv, FilesWhole, Sound, NeverTorn
<1> QED BY <1>1, StoreInvariant, PTL

\* Between updates memory and disk hold the same document.
THEOREM MemoryIsDiskAlways == Spec => []MemoryIsDisk
<1>1. IInv => MemoryIsDisk
  BY SoundContents DEF IInv, DiskAhead, MemoryIsDisk, Free, Holding
<1> QED BY <1>1, StoreInvariant, PTL

\* An update that returned without an error is in memory and on disk.
THEOREM SavedIsKeptAlways == Spec => []SavedIsKept
<1>1. ASSUME IInv PROVE SavedIsKept
  <2>1. CASE running
    <3>1. memory \subseteq disk.holds
      BY <1>1, <2>1 DEF IInv, DiskAhead
    <3>2. QED BY <1>1, <3>1, SoundContents DEF IInv, SavedInMemory, SavedIsKept
  <2>2. CASE ~running
    BY <1>1, <2>2 DEF IInv, SavedInMemory, SavedIsKept
  <2> QED BY <2>1, <2>2
<1> QED BY <1>1, StoreInvariant, PTL

-----------------------------------------------------------------------------
\* What a power loss may go back to: a document of before, other than Current.
Behind == {Contents(f) : f \in older} \ {Current}

\* While an update is between its rename and its return, memory and disk differ
\* by it, and the name may still be found where it was unless the rename has
\* reached the disk: taking the document on disk is adding one update.
LEMMA DiskIsNext ==
  ASSUME IInv, running, Contents(disk) # memory
  PROVE  /\ \E u \in Updates \ memory : Contents(disk) = memory \cup {u}
         /\ {Contents(f) : f \in older} \ {Contents(disk)}
              \in {{}, Behind \cup {memory}}
<1>1. PICK u \in Updates : caller[u] = "swapping"
  BY SoundContents DEF IInv, DiskAhead
<1>2. Contents(disk) = memory \cup {u} /\ u \in Updates \ memory
  BY <1>1, SoundContents DEF IInv, DiskAhead, NotYet, Holding
<1>3. \A f \in older : Contents(f) \subseteq memory
  BY SoundContents DEF IInv, OlderIsBehind
<1>4. {Contents(f) : f \in older} \ {Contents(disk)} = {Contents(f) : f \in older}
  BY <1>2, <1>3
<1>5. CASE older = {}
  BY <1>2, <1>5
<1>6. CASE \E f \in older : Contents(f) = memory
  <2>1. {Contents(f) : f \in older} = Behind \cup {memory}
    BY <1>6 DEF Behind, Current
  <2> QED BY <1>2, <1>4, <2>1
<1> QED BY <1>1, <1>5, <1>6, SoundContents DEF IInv, OlderIsBehind

\* Every step of the store is a step of the register, or none of its.
LEMMA RegisterStep ==
  ASSUME IInv, [Next]_vars
  PROVE  [Register!Next]_<<Current, Behind, running>>
<1> USE DEF Register!Next, Register!Apply, Register!Add, Register!Settle,
            Register!Kill, Register!PowerLoss, Register!Restart
<1>0. running \in BOOLEAN /\ IInv'
  BY InvariantStep DEF IInv, TypeOK
<1>1. ASSUME NEW u \in Updates, Swap(u)
      PROVE  Register!Next
  <2>1. running /\ running' /\ Current' = Contents(disk) /\ Current = memory
    BY <1>1 DEF Swap, IInv, OneHolder, Free, Holding, Current
  <2>2. Contents(disk) # memory
    BY <1>1, SoundContents DEF Swap, IInv, DiskAhead, NotYet, Holding
  <2>3. Behind' = {Contents(f) : f \in older} \ {Contents(disk)}
    BY <1>1, <2>1 DEF Swap, Behind
  <2>4. QED BY <2>1, <2>2, <2>3, DiskIsNext DEF Behind
<1>2. ASSUME NEW u \in Updates, Rename(u)
      PROVE  UNCHANGED <<Current, Behind, running>>
  <2>1. running /\ Contents(disk) = memory /\ Current = memory
    BY <1>2, SoundContents DEF Rename, IInv, OneHolder, Free, Holding, DiskAhead,
       Current
  <2>2. Current' = memory /\ running' = running
    BY <1>2, <2>1 DEF Rename, Current
  <2>3. Behind' = {Contents(f) : f \in older \cup {disk}} \ {memory}
    BY <1>2, <2>2 DEF Rename, Behind
  <2> QED BY <2>1, <2>2, <2>3 DEF Behind
<1>3. ASSUME NEW u \in Updates, Update(u), ~Swap(u)
      PROVE  UNCHANGED <<Current, Behind, running>>
  BY <1>2, <1>3 DEF Update, Begin, Refuse, Write, Sync, Close, SaveFails, Current,
     Behind
<1>4. CASE UNCHANGED vars
  BY <1>4 DEF vars, Current, Behind
<1>5. CASE Settle
  <2>1. UNCHANGED <<Current, running>> /\ Behind' = {}
    BY <1>5 DEF Settle, Current, Behind
  <2> QED BY <2>1 DEF Behind
<1>6. CASE Killed
  <2>1. /\ running /\ ~running' /\ running' = FALSE
        /\ Current = memory /\ Current' = Contents(disk)
        /\ Behind' = {Contents(f) : f \in older} \ {Contents(disk)}
    BY <1>6 DEF Killed, Current, Behind
  <2>2. CASE Contents(disk) = memory
    BY <2>1, <2>2 DEF Behind
  <2>3. CASE Contents(disk) # memory
    BY <2>1, <2>3, DiskIsNext DEF Behind
  <2> QED BY <2>2, <2>3
<1>7. CASE PowerLost
  <2>1. /\ running' = FALSE /\ Behind' = {} /\ Current' = Contents(disk')
        /\ disk' = disk \/ disk' \in older
    BY <1>7, PowerLostEffect DEF PowerLost, Current, Behind
  <2>2. CASE disk' \in older
    <3>1. Current' \in Behind \cup {Current}
      BY <2>1, <2>2 DEF Behind
    <3> QED BY <2>1, <3>1 DEF Behind
  <2>3. CASE disk' = disk /\ (~running \/ Contents(disk) = memory)
    <3>1. Current' = Current
      BY <2>1, <2>3 DEF Current
    <3> QED BY <2>1, <3>1 DEF Behind
  <2>4. CASE disk' = disk /\ running /\ Contents(disk) # memory
    <3>1. \E u \in Updates : Current' = Current \cup {u}
      BY <2>1, <2>4, DiskIsNext DEF Current
    <3> QED BY <2>1, <2>4, <3>1 DEF Behind
  <2> QED BY <2>1, <2>2, <2>3, <2>4
<1>8. CASE Open
  <2>1. ~running /\ running' = TRUE /\ UNCHANGED <<Current, Behind>>
    BY <1>8 DEF Open, Current, Behind
  <2> QED BY <2>1 DEF Behind
<1> QED
  BY <1>1, <1>3, <1>4, <1>5, <1>6, <1>7, <1>8 DEF Next

\* To the rest of the program the store is an atomic register of updates: a kill
\* leaves it as it is, or with the update that was being saved, and a power loss
\* takes it back, at most, to what it was before its last renames.
THEOREM StoreIsRegister == Spec => ImplementsRegister
<1>1. Init => Register!Init
  BY DEF Init, Register!Init, Current, Contents, Nothing
<1>2. IInv /\ [Next]_vars => [Register!Next]_<<Current, Behind, running>>
  BY RegisterStep
<1>3. Behind = {Contents(f) : f \in older} \ {Current}
  BY DEF Behind
<1> QED
  BY <1>1, <1>2, <1>3, StoreInvariant, PTL
     DEF Spec, ImplementsRegister, Register!Spec, Register!document, Behind

-----------------------------------------------------------------------------
(* Automatic import *)

\* Nothing runs in a process that has ended.
StoppedIsIdle ==
  ~launched => \A i \in Importers : importer[i] = IdleImporter

\* The import of a launch runs alone: the window is not open yet.
AutoIsAlone ==
  \A i, j \in Importers : importer[i].auto /\ i # j => importer[j].step = "idle"

\* What it has yet to create was never recorded.
AutoIsFresh ==
  \A i \in Importers : importer[i].auto =>
    importer[i].step = "creating" /\ importer[i].todo \cap seen = {}

\* The inductive invariant: AutoIsFresh is what the property needs, AutoIsAlone
\* keeps another import from recording meanwhile, and StoppedIsIdle keeps one
\* from being under way when the application starts.
ImportInv == ImportTypeOK /\ StoppedIsIdle /\ AutoIsAlone /\ AutoIsFresh

\* The types and the invariant hold initially.
LEMMA InitImportInv == ImportInit => ImportInv
<1> SUFFICES ASSUME ImportInit PROVE ImportInv
  OBVIOUS
<1>1. IdleImporter \in Importer /\ ~IdleImporter.auto
  BY DEF IdleImporter, Importer
<1>2. 0 \in 0 .. MaxLaunches
  BY MaxLaunchesAssumption
<1>3. ImportTypeOK
  BY <1>1, <1>2 DEF ImportInit, ImportTypeOK
<1> QED
  BY <1>1, <1>3 DEF ImportInit, ImportInv, StoppedIsIdle, AutoIsAlone, AutoIsFresh

\* An import that begins while every other import is idle, or that is none of
\* a launch, leaves the invariant as it was.
LEMMA ImportKeepsInv ==
  ASSUME ImportInv, NEW i \in Importers, NEW auto \in BOOLEAN,
         NEW candidates \in SUBSET Offered, Import(i, auto, candidates),
         \A j \in Importers : ~importer[j].auto,
         auto => /\ \A j \in Importers : importer[j].step = "idle"
                 /\ candidates \cap seen = {},
         seen' = seen
  PROVE  /\ importer' \in [Importers -> Importer]
         /\ AutoIsAlone' /\ AutoIsFresh'
<1> DEFINE begun == [step |-> "creating", auto |-> auto,
                     candidates |-> candidates, todo |-> candidates]
<1>1. importer \in [Importers -> Importer]
  BY DEF ImportInv, ImportTypeOK
<1>2. importer' = [importer EXCEPT ![i] = begun]
  BY DEF Import
<1>3. begun \in Importer
  BY DEF Importer
<1>4. /\ importer' \in [Importers -> Importer]
      /\ importer'[i] = begun
      /\ \A j \in Importers \ {i} : importer'[j] = importer[j]
  BY <1>1, <1>2, <1>3, Zenon
<1> QED
  BY <1>4 DEF AutoIsAlone, AutoIsFresh

\* Every step keeps the invariant, and creates by itself only what is fresh.
LEMMA NextImportInv ==
  ASSUME ImportInv, ImportNext
  PROVE  ImportInv' /\ \A k \in Offered : AutoCreates(k) => k \notin seen
<1>0. /\ ImportTypeOK
      /\ importer \in [Importers -> Importer]
  BY DEF ImportInv, ImportTypeOK
<1>1. ASSUME NEW k \in Offered, AutoCreates(k) PROVE k \notin seen
  BY <1>1 DEF AutoCreates, ImportInv, AutoIsFresh
<1>2. ASSUME NEW i \in Importers, Launch(i) PROVE ImportInv'
  <2>1. \A j \in Importers : importer[j].step = "idle" /\ ~importer[j].auto
    BY <1>2 DEF Launch, ImportInv, StoppedIsIdle, IdleImporter
  <2>2. /\ Fresh(indexed') \in SUBSET Offered
        /\ Fresh(indexed') \cap seen = {}
    BY <1>0 DEF Fresh, ImportTypeOK
  <2>3. /\ importer' \in [Importers -> Importer]
        /\ AutoIsAlone' /\ AutoIsFresh'
    <3>1. CASE enabled
      <4>1. Import(i, TRUE, Fresh(indexed')) /\ seen' = seen
        BY <1>2, <3>1 DEF Launch
      <4> QED
        BY <2>1, <2>2, <4>1, ImportKeepsInv
    <3>2. CASE ~enabled
      BY <1>0, <1>2, <2>1, <3>2 DEF Launch, AutoIsAlone, AutoIsFresh
    <3> QED
      BY <3>1, <3>2
  <2>4. launches' \in 0 .. MaxLaunches
    BY <1>0, <1>2, MaxLaunchesAssumption DEF Launch, ImportTypeOK
  <2>5. ImportTypeOK'
    BY <1>0, <1>2, <2>3, <2>4 DEF Launch, ImportTypeOK
  <2> QED
    BY <1>2, <2>3, <2>5 DEF Launch, ImportInv, StoppedIsIdle
<1>3. ASSUME NEW i \in Importers, ImportAll(i) PROVE ImportInv'
  <2>1. \A j \in Importers : ~importer[j].auto
    BY <1>3 DEF ImportAll, Usable, Syncing, ImportInv, AutoIsFresh
  <2>2. Scan \in SUBSET Offered /\ seen' = seen
    BY <1>0, <1>3 DEF Scan, ImportTypeOK, ImportAll, stored
  <2>3. /\ importer' \in [Importers -> Importer]
        /\ AutoIsAlone' /\ AutoIsFresh'
    BY <1>3, <2>1, <2>2, ImportKeepsInv DEF ImportAll
  <2>4. launched /\ launched' = launched
    BY <1>3 DEF ImportAll, Usable, process
  <2> QED
    BY <1>0, <1>3, <2>3, <2>4
       DEF ImportAll, ImportInv, ImportTypeOK, StoppedIsIdle, stored, process
<1>4. ASSUME NEW i \in Importers, NEW k \in Offered, CreateCluster(i, k) PROVE ImportInv'
  <2>1. importer' = [importer EXCEPT ![i].todo = @ \ {k}]
    BY <1>4 DEF CreateCluster
  <2>2. /\ importer' \in [Importers -> Importer]
        /\ \A j \in Importers :
             /\ importer'[j].step = importer[j].step
             /\ importer'[j].auto = importer[j].auto
             /\ importer'[j].todo \subseteq importer[j].todo
    BY <1>0, <2>1 DEF Importer
  <2>3. AutoIsAlone' /\ AutoIsFresh'
    BY <1>4, <2>2 DEF CreateCluster, ImportInv, AutoIsAlone, AutoIsFresh
  <2>4. launched
    BY <1>4 DEF CreateCluster, ImportInv, StoppedIsIdle, IdleImporter
  <2>5. ImportTypeOK'
    BY <1>0, <1>4, <2>2 DEF CreateCluster, ImportTypeOK, process
  <2> QED
    BY <1>4, <2>3, <2>4, <2>5 DEF CreateCluster, ImportInv, StoppedIsIdle, process
<1>5. ASSUME NEW i \in Importers, MarkSeen(i) PROVE ImportInv'
  <2>1. importer' = [importer EXCEPT ![i] = IdleImporter]
    BY <1>5 DEF MarkSeen
  <2>2. IdleImporter \in Importer /\ ~IdleImporter.auto
        /\ IdleImporter.step = "idle"
    BY DEF IdleImporter, Importer
  <2>3. /\ importer' \in [Importers -> Importer]
        /\ importer'[i] = IdleImporter
        /\ \A j \in Importers \ {i} : importer'[j] = importer[j]
    BY <1>0, <2>1, <2>2, Zenon
  <2>4. \A j \in Importers \ {i} : ~importer[j].auto
    BY <1>5 DEF MarkSeen, ImportInv, AutoIsAlone
  <2>5. AutoIsAlone' /\ AutoIsFresh'
    BY <2>2, <2>3, <2>4 DEF AutoIsAlone, AutoIsFresh
  <2>6. seen' \subseteq Offered
    BY <1>0, <1>5 DEF MarkSeen, ImportTypeOK, Importer
  <2>7. ImportTypeOK'
    BY <1>0, <1>5, <2>3, <2>6 DEF MarkSeen, ImportTypeOK, process
  <2>8. launched
    BY <1>5 DEF MarkSeen, ImportInv, StoppedIsIdle, IdleImporter
  <2> QED
    BY <1>5, <2>5, <2>7, <2>8 DEF MarkSeen, ImportInv, StoppedIsIdle, process
<1>6. ASSUME importer' = importer, launched' = launched, launches' = launches,
             indexed' \in BOOLEAN, file' \subseteq Offered,
             clusters' \subseteq Offered, enabled' \in BOOLEAN,
             seen' \subseteq seen
      PROVE  ImportInv'
  BY <1>6 DEF ImportInv, ImportTypeOK, StoppedIsIdle, AutoIsAlone, AutoIsFresh
<1>7. ASSUME NEW k \in Offered,
             AddByHand(k) \/ DeleteCluster(k) \/ ContextAdded(k)
      PROVE  ImportInv'
  BY <1>0, <1>6, <1>7
     DEF AddByHand, DeleteCluster, ContextAdded, ImportTypeOK, stored, process
<1>8. ASSUME NEW on \in BOOLEAN, SetEnabled(on) PROVE ImportInv'
  BY <1>0, <1>6, <1>8 DEF SetEnabled, ImportTypeOK, process
<1>9. ASSUME ForgetKubeconfig \/ ImportKubeconfig PROVE ImportInv'
  BY <1>0, <1>6, <1>9 DEF ForgetKubeconfig, ImportKubeconfig, ImportTypeOK, process
<1>10. ASSUME Stop PROVE ImportInv'
  <2>1. IdleImporter \in Importer /\ ~IdleImporter.auto
    BY DEF IdleImporter, Importer
  <2>2. importer' = [i \in Importers |-> IdleImporter]
    BY <1>10 DEF Stop
  <2>3. ImportTypeOK'
    BY <1>0, <1>10, <2>1 DEF Stop, ImportTypeOK, stored
  <2> QED
    BY <2>1, <2>2, <2>3 DEF ImportInv, StoppedIsIdle, AutoIsAlone, AutoIsFresh
<1>11. ImportInv'
  BY <1>2, <1>3, <1>4, <1>5, <1>7, <1>8, <1>9, <1>10 DEF ImportNext
<1> QED
  BY <1>1, <1>11

\* Stuttering keeps the invariant too.
LEMMA StutterImportInv == ImportInv /\ UNCHANGED importVars => ImportInv'
  BY DEF ImportInv, ImportTypeOK, StoppedIsIdle, AutoIsAlone, AutoIsFresh, importVars

\* Every variable keeps its type through imports, launches, kills and edits of
\* the kubeconfig.
THEOREM ImportTypeCorrect == ImportSpec => []ImportTypeOK
<1>1. ImportInv => ImportTypeOK
  BY DEF ImportInv
<1>2. ImportInv /\ [ImportNext]_importVars => ImportInv'
  BY NextImportInv, StutterImportInv
<1> QED
  BY InitImportInv, <1>1, <1>2, PTL DEF ImportSpec

\* A context that was recorded as seen (autoimport.go) is never imported again
\* by a launch, however imports, deletions, restarts and kills interleave.
THEOREM RecordedIsKept == ImportSpec => RecordedStaysDeleted
<1>1. ASSUME ImportInv, [ImportNext]_importVars
      PROVE  [\A k \in Offered : AutoCreates(k) => k \notin seen]_importVars
  BY <1>1, NextImportInv
<1>2. ImportInv /\ [ImportNext]_importVars => ImportInv'
  BY NextImportInv, StutterImportInv
<1> QED
  BY InitImportInv, <1>1, <1>2, PTL DEF ImportSpec, RecordedStaysDeleted

-----------------------------------------------------------------------------
(* The types of the policy *)

\* Changes that have yet to take their revision.
Waiting == {d \in Changers : changer[d].step \in {"setting", "bumping"}}

\* What keeps revision within its bound: room is taken when a change begins.
Room ==
  /\ IsFiniteSet(Waiting)
  /\ revision + Cardinality(Waiting) <= MaxRevision

TypeInv == PolicyTypeOK /\ Room

\* Nothing waits before the first change.
LEMMA InitTypes == PolicyInit => TypeInv
<1> SUFFICES ASSUME PolicyInit PROVE TypeInv
  OBVIOUS
<1>1. PolicyTypeOK
  <2>1. 0 \in 0 .. MaxRevision
    BY MaxRevisionAssumption
  <2>2. IdleChanger \in Changer /\ shown \in Policy
    BY <2>1 DEF PolicyInit, IdleChanger, Changer, Policy
  <2>3. IdleOpener \in Opener
    BY DEF IdleOpener, Opener
  <2> QED
    BY <2>1, <2>2, <2>3 DEF PolicyInit, PolicyTypeOK
<1>2. Waiting = {}
  BY DEF PolicyInit, Waiting, IdleChanger
<1>3. Room
  BY <1>2, FS_EmptySet, MaxRevisionAssumption DEF Room, PolicyInit
<1> QED
  BY <1>1, <1>3 DEF TypeInv

\* A change that begins takes one place of the room.
LEMMA BeginTakesRoom ==
  ASSUME TypeInv, NEW c \in Changers, MayChange(c),
         Waiting' \subseteq Waiting \cup {c}, revision' = revision
  PROVE  Room'
<1>1. c \notin Waiting
  BY DEF MayChange, Waiting
<1>2. /\ IsFiniteSet(Waiting \cup {c})
      /\ Cardinality(Waiting \cup {c}) = Cardinality(Waiting) + 1
  BY <1>1, FS_AddElement DEF TypeInv, Room
<1>3. IsFiniteSet(Waiting') /\ Cardinality(Waiting') <= Cardinality(Waiting) + 1
  BY <1>2, FS_Subset
<1>4. Cardinality(Waiting) \in Nat /\ Cardinality(Waiting') \in Nat
  BY <1>3, FS_CardinalityType DEF TypeInv, Room
<1>5. revision + Cardinality(Waiting) < MaxRevision
  BY DEF MayChange, Waiting
<1>6. revision \in Nat
  BY MaxRevisionAssumption DEF TypeInv, PolicyTypeOK
<1>7. revision' + Cardinality(Waiting') <= MaxRevision
  BY <1>3, <1>4, <1>5, <1>6, MaxRevisionAssumption
<1> QED
  BY <1>3, <1>7 DEF Room

\* A step that begins no change and takes no revision leaves the room there is.
LEMMA OthersKeepRoom ==
  ASSUME TypeInv, Waiting' \subseteq Waiting, revision' = revision
  PROVE  Room'
<1>1. IsFiniteSet(Waiting') /\ Cardinality(Waiting') <= Cardinality(Waiting)
  BY FS_Subset DEF TypeInv, Room
<1>2. Cardinality(Waiting) \in Nat /\ Cardinality(Waiting') \in Nat
  BY <1>1, FS_CardinalityType DEF TypeInv, Room
<1>3. revision \in Nat /\ revision + Cardinality(Waiting) <= MaxRevision
  BY MaxRevisionAssumption DEF TypeInv, PolicyTypeOK, Room
<1>4. revision' + Cardinality(Waiting') <= MaxRevision
  BY <1>1, <1>2, <1>3, MaxRevisionAssumption
<1> QED
  BY <1>1, <1>4 DEF Room

\* The revision a change takes comes out of the room it took.
LEMMA BumpKeepsRoom ==
  ASSUME TypeInv, NEW c \in Changers, Bump(c)
  PROVE  Room' /\ revision + 1 \in 0 .. MaxRevision
<1>1. c \in Waiting
  BY DEF Bump, Waiting
<1>2. changer \in [Changers -> Changer]
  BY DEF TypeInv, PolicyTypeOK
<1>3. Waiting' = Waiting \ {c}
  <2>1. changer'[c].step = "reading"
    BY <1>2 DEF Bump, Changer
  <2>2. \A d \in Changers \ {c} : changer'[d] = changer[d]
    BY <1>2 DEF Bump
  <2> QED
    BY <2>1, <2>2 DEF Waiting
<1>4. /\ IsFiniteSet(Waiting \ {c})
      /\ Cardinality(Waiting \ {c}) = Cardinality(Waiting) - 1
  BY <1>1, FS_RemoveElement DEF TypeInv, Room
<1>5. Cardinality(Waiting) \in Nat /\ Cardinality(Waiting \ {c}) \in Nat
  BY <1>4, FS_CardinalityType DEF TypeInv, Room
<1>6. revision \in Nat /\ revision + Cardinality(Waiting) <= MaxRevision
  BY MaxRevisionAssumption DEF TypeInv, PolicyTypeOK, Room
<1>7. revision' = revision + 1
  BY DEF Bump
<1>8. revision + 1 \in 0 .. MaxRevision
  BY <1>4, <1>5, <1>6, MaxRevisionAssumption
<1>9. revision' + Cardinality(Waiting \ {c}) <= MaxRevision
  BY <1>4, <1>5, <1>6, <1>7, MaxRevisionAssumption
<1> QED
  BY <1>3, <1>4, <1>8, <1>9 DEF Room

\* Every step keeps the types and the room.
LEMMA NextTypes == TypeInv /\ [PolicyNext]_policyVars => TypeInv'
<1> SUFFICES ASSUME TypeInv, [PolicyNext]_policyVars PROVE TypeInv'
  OBVIOUS
<1> USE DEF TypeInv
<1>0. /\ changer \in [Changers -> Changer]
      /\ opener \in [Openers -> Opener]
  BY DEF PolicyTypeOK
<1>a. ASSUME changer' = changer, revision' = revision PROVE Room'
  BY <1>a, OthersKeepRoom DEF Waiting
<1>1. ASSUME NEW c \in Changers, NEW readOnly \in BOOLEAN,
             SetPersistedMode(c, readOnly)
      PROVE  TypeInv'
  <2>1. changer' \in [Changers -> Changer]
    BY <1>0, <1>1 DEF SetPersistedMode, ChangerTo, Changer
  <2>2. Waiting' \subseteq Waiting \cup {c}
    BY <1>0, <1>1 DEF SetPersistedMode, ChangerTo, Waiting
  <2>3. Room'
    BY <1>1, <2>2, BeginTakesRoom DEF SetPersistedMode
  <2> QED
    BY <1>1, <2>1, <2>3 DEF SetPersistedMode, PolicyTypeOK
<1>2. ASSUME NEW c \in Changers, NEW readOnly \in BOOLEAN,
             AskSessionReadOnly(c, readOnly)
      PROVE  TypeInv'
  <2>1. changer' \in [Changers -> Changer]
    BY <1>0, <1>2 DEF AskSessionReadOnly, Changer
  <2>2. Waiting' \subseteq Waiting \cup {c}
    BY <1>0, <1>2 DEF AskSessionReadOnly, Waiting
  <2>3. Room'
    BY <1>2, <2>2, BeginTakesRoom DEF AskSessionReadOnly
  <2> QED
    BY <1>2, <2>1, <2>3 DEF AskSessionReadOnly, PolicyTypeOK, modes
<1>3. ASSUME NEW c \in Changers, SetSessionReadOnly(c) PROVE TypeInv'
  <2>1. changer' \in [Changers -> Changer]
    BY <1>0, <1>3 DEF SetSessionReadOnly, ChangerTo, Changer
  <2>2. Waiting' \subseteq Waiting
    BY <1>0, <1>3 DEF SetSessionReadOnly, ChangerTo, Waiting
  <2>3. Room'
    BY <1>3, <2>2, OthersKeepRoom DEF SetSessionReadOnly
  <2>4. changer[c].to \in BOOLEAN
    BY <1>0 DEF Changer
  <2> QED
    BY <1>3, <2>1, <2>3, <2>4 DEF SetSessionReadOnly, PolicyTypeOK
<1>4. ASSUME NEW c \in Changers, Bump(c) PROVE TypeInv'
  <2>1. Room' /\ revision + 1 \in 0 .. MaxRevision
    BY <1>4, BumpKeepsRoom
  <2> DEFINE policy == [changer[c].policy EXCEPT !.revision = revision + 1]
             next == [changer[c] EXCEPT !.step = "reading", !.policy = policy]
  <2>2. changer[c] \in Changer /\ changer[c].policy \in Policy
    BY <1>0 DEF Changer
  <2>3. policy \in Policy
    BY <2>1, <2>2 DEF Policy
  <2>4. changer' = [changer EXCEPT ![c] = next]
    BY <1>0, <1>4 DEF Bump
  <2> HIDE DEF policy
  <2>5. next \in Changer
    BY <2>2, <2>3 DEF Changer
  <2> HIDE DEF next
  <2>6. changer' \in [Changers -> Changer]
    BY <1>0, <2>4, <2>5
  <2> QED
    BY <1>4, <2>1, <2>6 DEF Bump, PolicyTypeOK, modes
<1>5. ASSUME NEW c \in Changers, SnapshotPersisted(c) PROVE TypeInv'
  <2>0. persisted \in BOOLEAN
    BY DEF PolicyTypeOK
  <2>1. changer' \in [Changers -> Changer]
    BY <1>0, <1>5, <2>0 DEF SnapshotPersisted, Changer
  <2>2. Waiting' \subseteq Waiting
    BY <1>0, <1>5 DEF SnapshotPersisted, Waiting
  <2>3. Room'
    BY <1>5, <2>2, OthersKeepRoom DEF SnapshotPersisted
  <2> QED
    BY <1>5, <2>1, <2>3 DEF SnapshotPersisted, PolicyTypeOK, modes
<1>6. ASSUME NEW c \in Changers, SnapshotSession(c) PROVE TypeInv'
  <2> DEFINE readOnly == effectiveMode(changer[c].stored, session)
  <2>0. readOnly \in BOOLEAN
    BY <1>0 DEF PolicyTypeOK, effectiveMode, Changer
  <2> DEFINE policy == [changer[c].policy EXCEPT !.readOnly = readOnly]
             next == [changer[c] EXCEPT !.policy = policy,
                        !.step = IF readOnly THEN "closing" ELSE "emitting"]
  <2>a. changer[c] \in Changer /\ changer[c].policy \in Policy
    BY <1>0 DEF Changer
  <2>b. policy \in Policy
    BY <2>0, <2>a DEF Policy
  <2>1. changer' = [changer EXCEPT ![c] = next]
    BY <1>0, <1>6 DEF SnapshotSession
  <2> HIDE DEF policy, readOnly
  <2>c. next \in Changer
    BY <2>a, <2>b DEF Changer
  <2>2. changer' \in [Changers -> Changer]
    BY <1>0, <2>1, <2>c
  <2>3. Waiting' \subseteq Waiting
    BY <1>0, <2>1 DEF Waiting
  <2> HIDE DEF next
  <2>4. Room'
    BY <1>6, <2>3, OthersKeepRoom DEF SnapshotSession
  <2> QED
    BY <1>6, <2>2, <2>4 DEF SnapshotSession, PolicyTypeOK, modes
<1>7. ASSUME NEW c \in Changers, OnReadOnly(c) PROVE TypeInv'
  <2>1. changer' \in [Changers -> Changer]
    BY <1>0, <1>7 DEF OnReadOnly, ChangerTo, Changer
  <2>2. Waiting' \subseteq Waiting
    BY <1>0, <1>7 DEF OnReadOnly, ChangerTo, Waiting
  <2>3. Room'
    BY <1>7, <2>2, OthersKeepRoom DEF OnReadOnly
  <2> QED
    BY <1>7, <2>1, <2>3 DEF OnReadOnly, PolicyTypeOK, modes
<1>8. ASSUME NEW c \in Changers, Emit(c) PROVE TypeInv'
  <2>0. PolicyTypeOK /\ MaxRevision \in Nat
    BY MaxRevisionAssumption
  <2>1. changer' \in [Changers -> Changer]
    BY <1>0, <1>8, <2>0 DEF Emit, Changer, IdleChanger, Policy
  <2>2. Waiting' \subseteq Waiting
    BY <1>0, <1>8 DEF Emit, Waiting, IdleChanger
  <2>3. Room'
    BY <1>8, <2>2, OthersKeepRoom DEF Emit
  <2>4. changer[c].policy \in Policy
    BY <1>0 DEF Changer
  <2> QED
    BY <1>8, <2>1, <2>3, <2>4 DEF Emit, PolicyTypeOK, modes
<1>9. ASSUME NEW o \in Openers, CheckPersisted(o) PROVE TypeInv'
  <2>0. persisted \in BOOLEAN
    BY DEF PolicyTypeOK
  <2>1. opener' \in [Openers -> Opener]
    BY <1>0, <1>9, <2>0 DEF CheckPersisted, Opener
  <2> QED
    BY <1>9, <1>a, <2>1 DEF CheckPersisted, PolicyTypeOK, modes
<1>10. ASSUME NEW o \in Openers, CheckSession(o) PROVE TypeInv'
  <2>1. opener' \in [Openers -> Opener]
    BY <1>0, <1>10 DEF CheckSession, Opener, IdleOpener
  <2> QED
    BY <1>10, <1>a, <2>1 DEF CheckSession, PolicyTypeOK, modes
<1>11. ASSUME NEW o \in Openers, Perform(o) PROVE TypeInv'
  <2>1. opener' \in [Openers -> Opener]
    BY <1>0, <1>11 DEF Perform, Opener, IdleOpener
  <2> QED
    BY <1>11, <1>a, <2>1 DEF Perform, PolicyTypeOK, modes
<1>12. ASSUME NEW o \in Openers, StreamEnds(o) PROVE TypeInv'
  BY <1>12, <1>a DEF StreamEnds, PolicyTypeOK, modes
<1>13. ASSUME Disconnect PROVE TypeInv'
  BY <1>13, <1>a DEF Disconnect, PolicyTypeOK
<1>14. ASSUME Connect PROVE TypeInv'
  <2>1. Effective \in BOOLEAN
    BY DEF PolicyTypeOK, Effective, effectiveMode
  <2>2. shown' \in Policy
    BY <1>14, <2>1 DEF Connect, Policy, PolicyTypeOK
  <2> QED
    BY <1>14, <1>a, <2>2 DEF Connect, PolicyTypeOK
<1>15. CASE UNCHANGED policyVars
  BY <1>15, <1>a DEF policyVars, PolicyTypeOK
<1> QED
  BY <1>1, <1>2, <1>3, <1>4, <1>5, <1>6, <1>7, <1>8, <1>9, <1>10, <1>11,
     <1>12, <1>13, <1>14, <1>15 DEF PolicyNext, Change

\* Every variable keeps its type, and the revision its bound, whatever changes
\* of the mode, openings and disconnections interleave.
THEOREM PolicyTypeCorrect == PolicySpec => []PolicyTypeOK
<1>1. TypeInv => PolicyTypeOK
  BY DEF TypeInv
<1> QED
  BY InitTypes, NextTypes, <1>1, PTL DEF PolicySpec

-----------------------------------------------------------------------------
(* The stored mode *)

\* A check that has read the stored mode while it was read-only, and since
\* when it stayed so, knows that it was.
StoredIsKnown ==
  /\ since \in [Openers -> BOOLEAN]
  /\ \A o \in Openers :
       opener[o].step = "reading" /\ since[o] => opener[o].stored

HistoryInv == PolicyTypeOK /\ StoredIsKnown

\* What one step of a check does to its knowledge of the stored mode.
LEMMA NextKeepsKnowledge ==
  ASSUME PolicyTypeOK, StoredIsKnown, HistoryNext
  PROVE  StoredIsKnown' /\ \A o \in Openers : Decides(o) => ~since[o]
<1>0. /\ opener \in [Openers -> Opener]
      /\ persisted \in BOOLEAN
  BY DEF PolicyTypeOK
<1>1. persisted' \in BOOLEAN
  <2>1. ASSUME NEW c \in Changers, Change(c) PROVE persisted' = persisted
    BY <2>1 DEF Change, SetSessionReadOnly, Bump, SnapshotPersisted,
                SnapshotSession, OnReadOnly, Emit, modes
  <2>2. ASSUME NEW o \in Openers,
               CheckPersisted(o) \/ CheckSession(o) \/ Perform(o) \/ StreamEnds(o)
        PROVE  persisted' = persisted
    BY <2>2 DEF CheckPersisted, CheckSession, Perform, StreamEnds, modes
  <2> QED
    BY <1>0, <2>1, <2>2 DEF HistoryNext, PolicyNext, SetPersistedMode,
       AskSessionReadOnly, Disconnect, Connect, modes
<1>2. since' = [o \in Openers |->
        persisted' /\ (opener[o].step = "idle" \/ since[o])]
  BY DEF HistoryNext
<1>3. since' \in [Openers -> BOOLEAN]
  BY <1>1, <1>2, Zenon DEF StoredIsKnown
<1>4. ASSUME NEW o \in Openers
      PROVE  \/ opener'[o] = opener[o]
             \/ /\ opener[o].step = "idle" /\ opener'[o].stored = persisted
                /\ persisted' = persisted
             \/ opener'[o] = IdleOpener
             \/ /\ opener[o].step = "reading" /\ ~opener[o].stored
                /\ opener'[o].step = "allowed"
  <2>1. ASSUME NEW p \in Openers, CheckPersisted(p) PROVE <1>4!2
    BY <1>0, <2>1 DEF CheckPersisted, Opener, modes
  <2>2. ASSUME NEW p \in Openers, CheckSession(p) PROVE <1>4!2
    <3>1. CASE effectiveMode(opener[p].stored, session)
      BY <1>0, <2>2, <3>1 DEF CheckSession
    <3>2. CASE ~effectiveMode(opener[p].stored, session)
      BY <1>0, <2>2, <3>2 DEF CheckSession, effectiveMode, Opener
    <3> QED
      BY <3>1, <3>2
  <2>3. ASSUME NEW p \in Openers, Perform(p) PROVE <1>4!2
    BY <1>0, <2>3 DEF Perform
  <2>4. ASSUME NEW p \in Openers, StreamEnds(p) PROVE <1>4!2
    BY <2>4 DEF StreamEnds
  <2>5. ASSUME NEW c \in Changers, Change(c) PROVE <1>4!2
    BY <2>5 DEF Change, SetSessionReadOnly, Bump, SnapshotPersisted,
                SnapshotSession, OnReadOnly, Emit
  <2> QED
    BY <2>1, <2>2, <2>3, <2>4, <2>5 DEF HistoryNext, PolicyNext, SetPersistedMode,
       AskSessionReadOnly, Disconnect, Connect
<1>5. ASSUME NEW o \in Openers, opener'[o].step = "reading", since'[o]
      PROVE  opener'[o].stored
  <2>1. persisted' /\ (opener[o].step = "idle" \/ since[o])
    BY <1>2, <1>5
  <2>2. CASE opener'[o] = opener[o]
    BY <1>5, <2>1, <2>2 DEF StoredIsKnown
  <2>3. CASE opener'[o].stored = persisted /\ persisted' = persisted
    BY <2>1, <2>3
  <2> QED
    BY <1>4, <1>5, <2>2, <2>3 DEF IdleOpener
<1>6. ASSUME NEW o \in Openers, Decides(o) PROVE ~since[o]
  BY <1>4, <1>6 DEF Decides, IdleOpener, StoredIsKnown
<1> QED
  BY <1>3, <1>5, <1>6 DEF StoredIsKnown

\* The history begins with what its invariant says, and every step keeps it.
LEMMA HistoryInductive ==
  /\ HistoryInit => HistoryInv
  /\ TypeInv /\ HistoryInv /\ [HistoryNext]_HistoryVars => HistoryInv'
<1>1. HistoryInit => HistoryInv
  BY InitTypes DEF HistoryInit, HistoryInv, StoredIsKnown, TypeInv
<1>2. ASSUME TypeInv, HistoryInv, HistoryNext PROVE HistoryInv'
  BY <1>2, NextTypes, NextKeepsKnowledge DEF HistoryNext, HistoryInv, TypeInv
<1>3. ASSUME TypeInv, HistoryInv, UNCHANGED HistoryVars PROVE HistoryInv'
  BY <1>3, NextTypes DEF HistoryVars, HistoryInv, TypeInv, StoredIsKnown, policyVars
<1> QED
  BY <1>1, <1>2, <1>3

\* Whatever the toggle does meanwhile, a cluster that is stored as read-only
\* for as long as a check takes (core_policy.go) lets no write through.
THEOREM StoredModeIsHeld == HistorySpec => StoredModeHolds
<1>1. HistoryInit => TypeInv
  BY InitTypes DEF HistoryInit
<1>2. TypeInv /\ [HistoryNext]_HistoryVars => TypeInv'
  BY NextTypes DEF HistoryNext, HistoryVars
<1>3. ASSUME HistoryInv, [HistoryNext]_HistoryVars
      PROVE  [\A o \in Openers : Decides(o) => ~since[o]]_HistoryVars
  BY <1>3, NextKeepsKnowledge DEF HistoryInv
<1> QED
  BY <1>1, <1>2, <1>3, HistoryInductive, PTL
     DEF HistorySpec, StoredModeHolds
=============================================================================

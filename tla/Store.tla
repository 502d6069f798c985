-------------------------------- MODULE Store --------------------------------
(***************************************************************************)
(* The state document (internal/store/store.go): updates prepared on a     *)
(* copy, written to a temporary file, flushed, renamed over the document   *)
(* and only then put in memory, all under one mutex, while the process may *)
(* be killed and the machine may lose power.  A document is the set of     *)
(* updates it holds; the file system is external.                          *)
(***************************************************************************)
EXTENDS Naturals, FiniteSets

CONSTANTS
  Updates,      \* calls of Store.Update
  MaxCrashes    \* bound: crashes in one behaviour

ASSUME MaxCrashesAssumption == MaxCrashes \in Nat

VARIABLES
  memory,       \* Store.data
  disk,         \* what the document's path names
  older,        \* what it named before renames that may not have reached disk
  tmp,          \* the temporary file
  caller,       \* caller[u]: where update u is
  saved,        \* updates that returned without an error in this process
  running,      \* whether the process runs with an opened store
  crashes       \* how many crashes there were

vars == <<memory, disk, older, tmp, caller, saved, running, crashes>>

-----------------------------------------------------------------------------
Document == SUBSET Updates

\* A file holds a document, only part of one or nothing yet, and its content may
\* not have been flushed; "none": the path names no file, as on a first run.
File == [holds: Document, size: {"none", "empty", "part", "whole"},
         flushed: BOOLEAN]

Nothing == [holds |-> {}, size |-> "none", flushed |-> TRUE]
Written == [holds |-> {}, size |-> "whole", flushed |-> TRUE]

\* The document Open makes of a file: a missing or an empty one is a new one.
Contents(f) == IF f.size = "whole" THEN f.holds ELSE {}

Steps == {"new", "writing", "flushing", "closing", "renaming", "swapping",
          "saved", "failed"}

\* The steps of an update that holds the mutex.
Holding == {"writing", "flushing", "closing", "renaming", "swapping"}

Free == \A u \in Updates : caller[u] \notin Holding

Init ==
  /\ memory = {}
  /\ disk \in {Nothing, Written}
  /\ older = {}
  /\ tmp = Nothing
  /\ caller = [u \in Updates |-> "new"]
  /\ saved = {}
  /\ running = TRUE
  /\ crashes = 0

To(u, step) == caller' = [caller EXCEPT ![u] = step]

-----------------------------------------------------------------------------
\* Update takes the mutex, clones and mutates, and creates the temporary file;
\* a mutation that refuses, or a file that cannot be created, changes nothing.
BeginMutant(u) ==
  /\ running /\ Free
  /\ caller[u] = "new"
  /\ memory' = memory \cup {u}
  /\ tmp' = [holds |-> memory \cup {u}, size |-> "empty", flushed |-> FALSE]
  /\ To(u, "writing")
  /\ UNCHANGED <<disk, older, saved, running, crashes>>

BeginUnlockedMutant(u) ==
  /\ running
  /\ caller[u] = "new"
  /\ tmp' = [holds |-> memory \cup {u}, size |-> "empty", flushed |-> FALSE]
  /\ To(u, "writing")
  /\ UNCHANGED <<memory, disk, older, saved, running, crashes>>

Begin(u) ==
  /\ running /\ Free
  /\ caller[u] = "new"
  /\ tmp' = [holds |-> memory \cup {u}, size |-> "empty", flushed |-> FALSE]
  /\ To(u, "writing")
  /\ UNCHANGED <<memory, disk, older, saved, running, crashes>>

Refuse(u) ==
  /\ running /\ Free
  /\ caller[u] = "new"
  /\ To(u, "failed")
  /\ UNCHANGED <<memory, disk, older, tmp, saved, running, crashes>>

Write(u) ==
  /\ caller[u] = "writing"
  /\ tmp' = [tmp EXCEPT !.size = "whole"]
  /\ To(u, "flushing")
  /\ UNCHANGED <<memory, disk, older, saved, running, crashes>>

SyncMutant(u) ==
  /\ caller[u] = "flushing"
  /\ To(u, "closing")
  /\ UNCHANGED <<memory, disk, older, tmp, saved, running, crashes>>

Sync(u) ==
  /\ caller[u] = "flushing"
  /\ tmp' = [tmp EXCEPT !.flushed = TRUE]
  /\ To(u, "closing")
  /\ UNCHANGED <<memory, disk, older, saved, running, crashes>>

\* Close and Chmod.
Close(u) ==
  /\ caller[u] = "closing"
  /\ To(u, "renaming")
  /\ UNCHANGED <<memory, disk, older, tmp, saved, running, crashes>>

\* The name changes at once; the directory is not flushed, so a power loss may
\* still find the name where it was.
Rename(u) ==
  /\ caller[u] = "renaming"
  /\ older' = older \cup {disk}
  /\ disk' = tmp
  /\ To(u, "swapping")
  /\ UNCHANGED <<memory, tmp, saved, running, crashes>>

SwapMutant(u) ==
  /\ caller[u] = "swapping"
  /\ saved' = saved \cup {u}
  /\ To(u, "saved")
  /\ UNCHANGED <<memory, disk, older, tmp, running, crashes>>

Swap(u) ==
  /\ caller[u] = "swapping"
  /\ memory' = Contents(disk)
  /\ saved' = saved \cup {u}
  /\ To(u, "saved")
  /\ UNCHANGED <<disk, older, tmp, running, crashes>>

\* Writing, flushing, closing or renaming fails; the temporary file is removed.
SaveFails(u) ==
  /\ caller[u] \in Holding \ {"swapping"}
  /\ To(u, "failed")
  /\ UNCHANGED <<memory, disk, older, tmp, saved, running, crashes>>

-----------------------------------------------------------------------------
\* The directory's new entry reaches the disk.
Settle ==
  /\ older # {}
  /\ older' = {}
  /\ UNCHANGED <<memory, disk, tmp, caller, saved, running, crashes>>

Died == [u \in Updates |-> IF caller[u] \in Holding THEN "failed" ELSE caller[u]]

Killed ==
  /\ running /\ crashes < MaxCrashes
  /\ running' = FALSE
  /\ crashes' = crashes + 1
  /\ caller' = Died
  /\ saved' = {}
  /\ UNCHANGED <<memory, disk, older, tmp>>

\* What may be found of a file after a power loss.
Found(f) ==
  {f} \cup (IF f.flushed THEN {}
           ELSE {[f EXCEPT !.size = size] : size \in {"empty", "part"}})

\* The document's name may be found naming a file it named before; the process
\* may have been dead already.
PowerLost ==
  /\ crashes < MaxCrashes
  /\ running' = FALSE
  /\ crashes' = crashes + 1
  /\ caller' = Died
  /\ saved' = {}
  /\ disk' \in UNION {Found(f) : f \in {disk} \cup older}
  /\ older' = {}
  /\ UNCHANGED <<memory, tmp>>

\* Open reads the document, and refuses one it cannot parse; it takes a file of
\* no length for a first run.
Open ==
  /\ ~running
  /\ disk.size # "part"
  /\ memory' = Contents(disk)
  /\ running' = TRUE
  /\ UNCHANGED <<disk, older, tmp, caller, saved, crashes>>

-----------------------------------------------------------------------------
Update(u) ==
  \/ Begin(u) \/ Refuse(u)
  \/ Write(u) \/ Sync(u) \/ Close(u) \/ Rename(u) \/ Swap(u) \/ SaveFails(u)

Next ==
  \/ \E u \in Updates : Update(u)
  \/ Settle \/ Killed \/ PowerLost \/ Open

Spec == Init /\ [][Next]_vars

-----------------------------------------------------------------------------
(* Properties *)

\* Types of every variable.
TypeOK ==
  /\ memory \in Document
  /\ disk \in File
  /\ older \subseteq File
  /\ tmp \in File
  /\ caller \in [Updates -> Steps]
  /\ saved \in Document
  /\ running \in BOOLEAN
  /\ crashes \in 0 .. MaxCrashes

\* Whenever the process dies, and even when the machine loses power, the file
\* that is found afterwards, if there ever was one, is a whole document: neither
\* a truncated one that is refused nor an empty one that is taken for a first
\* run, with every cluster the engineer configured gone.
NeverTorn == disk.size \in {"none", "whole"}

\* While no update is being saved, memory and disk agree: in particular after
\* a save that failed at any of its steps.
MemoryIsDisk == running /\ Free => memory = Contents(disk)

\* An update that returned without an error is in memory and on disk, whatever
\* other updates were saved, or failed, at the same time.
SavedIsKept == saved \subseteq memory /\ saved \subseteq Contents(disk)

\* What the rest of the program sees: a register of updates that a kill leaves
\* as it is and a power loss takes back to one of its own earlier contents.
Current == IF running THEN memory ELSE Contents(disk)

Register == INSTANCE AtomicDocument
  WITH content <- Current,
       behind <- {Contents(f) : f \in older} \ {Current},
       alive <- running

ImplementsRegister == Register!Spec
=============================================================================

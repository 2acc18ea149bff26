------------------------------ MODULE SharedFile ------------------------------
(***************************************************************************)
(* Shared Memory: a writer (shared_one) copies a file to a shared memory   *)
(* and raises a semaphore; a reader (shared_two) waits for it, prints the  *)
(* text up to its end, and removes semaphore and memory.  Both programs    *)
(* create what they do not find, and are run several times.                *)
(*                                                                         *)
(* Semaphores and memories are numbered as they are created; an identifier *)
(* is a number.  All writers write the same file.                          *)
(***************************************************************************)
EXTENDS Integers, FiniteSets

CONSTANTS Writers, Readers

FileProcs == Writers \cup Readers

ASSUME FileAssumption == IsFiniteSet(FileProcs)

VARIABLES
  shpc,     \* where each process is
  semid,    \* the semaphore it got, 0 before
  shmid,    \* the memory it got
  sems,     \* how many semaphores were created
  mems,     \* how many memories were created
  sem,      \* the value of the semaphore with the key, -1 if there is none
  mem,      \* there is a memory with the key
  written,  \* the memories that hold the text and its end
  shown     \* what each reader printed: nothing, the text, or memory behind its end

fileVars == <<shpc, semid, shmid, sems, mems, sem, mem, written, shown>>

FileInit ==
  /\ shpc = [p \in FileProcs |-> "semget"]
  /\ semid = [p \in FileProcs |-> 0] /\ shmid = [p \in FileProcs |-> 0]
  /\ sems = 0 /\ mems = 0 /\ sem = -1 /\ mem = FALSE
  /\ written = {} /\ shown = [r \in Readers |-> "nothing"]

FileGo(p, there) == shpc' = [shpc EXCEPT ![p] = there]

\* The semaphore a process got is still the one with the key.
SemThere(p) == sem >= 0 /\ semid[p] = sems
-----------------------------------------------------------------------------
\* semget with IPC_CREAT.
SemGet(p) ==
  /\ shpc[p] = "semget" /\ FileGo(p, "shmget")
  /\ IF sem >= 0 THEN UNCHANGED <<sem, sems>> ELSE sem' = 0 /\ sems' = sems + 1
  /\ semid' = [semid EXCEPT ![p] = sems']
  /\ UNCHANGED <<shmid, mems, mem, written, shown>>

\* shmget creates or finds, shmat attaches.
ShmGet(p) ==
  /\ shpc[p] = "shmget" /\ FileGo(p, IF p \in Writers THEN "write" ELSE "wait")
  /\ IF mem THEN UNCHANGED <<mem, mems>> ELSE mem' = TRUE /\ mems' = mems + 1
  /\ shmid' = [shmid EXCEPT ![p] = mems']
  /\ UNCHANGED <<semid, sems, sem, written, shown>>

\* The writer copies the file, with its end, and detaches.
Copy(w) ==
  /\ shpc[w] = "write" /\ FileGo(w, "post")
  /\ written' = written \cup {shmid[w]}
  /\ UNCHANGED <<semid, shmid, sems, mems, sem, mem, shown>>

\* Mutant: the semaphore is raised before the text is there.
PostFirst(w) ==
  /\ shpc[w] \in {"write", "post"} /\ FileGo(w, IF shpc[w] = "write" THEN "post" ELSE "done")
  /\ sem' = IF shpc[w] = "write" /\ SemThere(w) THEN sem + 1 ELSE sem
  /\ written' = IF shpc[w] = "post" THEN written \cup {shmid[w]} ELSE written
  /\ UNCHANGED <<semid, shmid, sems, mems, mem, shown>>

\* semop(+1); that it fails on a removed semaphore is not noticed.
Post(w) ==
  /\ shpc[w] = "post" /\ FileGo(w, "done")
  /\ sem' = IF SemThere(w) THEN sem + 1 ELSE sem
  /\ UNCHANGED <<semid, shmid, sems, mems, mem, written, shown>>

\* semop(-1) takes a token, or fails, unnoticed, when the semaphore is removed.
Wait(r) ==
  /\ shpc[r] = "wait" /\ FileGo(r, "print")
  /\ IF SemThere(r) THEN sem > 0 /\ sem' = sem - 1 ELSE UNCHANGED sem
  /\ UNCHANGED <<semid, shmid, sems, mems, mem, written, shown>>

\* The reader prints up to the end of the text; without one it runs off the memory and
\* is killed.
PrintText(r) ==
  /\ shpc[r] = "print"
  /\ IF shmid[r] \in written THEN FileGo(r, "semrm") ELSE FileGo(r, "done")
  /\ shown' = [shown EXCEPT ![r] = IF shmid[r] \in written THEN "text" ELSE "beyond"]
  /\ UNCHANGED <<semid, shmid, sems, mems, sem, mem, written>>

\* Mutant: the semaphore is left.
SemLeave(r) ==
  /\ shpc[r] = "semrm" /\ FileGo(r, "shmrm")
  /\ UNCHANGED <<semid, shmid, sems, mems, sem, mem, written, shown>>

\* semctl(IPC_RMID)
SemRemove(r) ==
  /\ shpc[r] = "semrm" /\ FileGo(r, "shmrm")
  /\ sem' = IF SemThere(r) THEN -1 ELSE sem
  /\ UNCHANGED <<semid, shmid, sems, mems, mem, written, shown>>

\* shmdt and shmctl(IPC_RMID): the memory is not found again, but stays with those that
\* have attached it.
ShmRemove(r) ==
  /\ shpc[r] = "shmrm" /\ FileGo(r, "done")
  /\ mem' = (mem /\ shmid[r] # mems)
  /\ UNCHANGED <<semid, shmid, sems, mems, sem, written, shown>>

Writer(w) == SemGet(w) \/ ShmGet(w) \/ Copy(w) \/ Post(w)
Reader(r) == \/ SemGet(r) \/ ShmGet(r) \/ Wait(r) \/ PrintText(r)
             \/ SemRemove(r) \/ ShmRemove(r)

FileNext == (\E w \in Writers : Writer(w)) \/ (\E r \in Readers : Reader(r))

FileSpec == FileInit /\ [][FileNext]_fileVars
-----------------------------------------------------------------------------
FileTypeOK ==
  /\ shpc \in [FileProcs -> {"semget", "shmget", "write", "post", "wait", "print", "semrm",
                       "shmrm", "done"}]
  /\ semid \in [FileProcs -> 0..sems] /\ shmid \in [FileProcs -> 0..mems]
  /\ sems \in 0..Cardinality(FileProcs) /\ mems \in 0..Cardinality(FileProcs)
  /\ sem \in -1..Cardinality(Writers) /\ mem \in BOOLEAN
  /\ written \subseteq 1..mems
  /\ shown \in [Readers -> {"nothing", "text", "beyond"}]

\* Every process got a semaphore and a memory of one age: none came between the removal
\* of the one (shared_two.c:73) and of the other (81).
Matched == \A p \in FileProcs : shmid[p] # 0 => shmid[p] = semid[p]

\* Then every reader prints the text (68-71), also one whose semaphore is removed while
\* it waits.
WholeText == Matched => \A r \in Readers : shown[r] # "beyond"

\* And once a writer has raised the semaphore a reader waits for, it does not wait for
\* ever, though another reader may take the token: that one removes the semaphore.
ReaderReleased ==
  \A r \in Readers, w \in Writers :
    shpc[r] = "wait" /\ shpc[w] = "done" /\ semid[w] = semid[r]
      ~> shpc[r] # "wait" \/ ~Matched
=============================================================================

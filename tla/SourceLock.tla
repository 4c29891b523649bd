----------------------------- MODULE SourceLock -----------------------------
(***************************************************************************)
(* The on-disk lock of sync/locks.py: source_lock(), the file              *)
(* <locks>/<source>.lock created with mode "x", one file system call per   *)
(* action.  The contenders are threads of processes of one host.           *)
(*                                                                         *)
(* The file records who created it, whether its payload has been written   *)
(* (json.dump reaches the file when the with block closes it) and whether  *)
(* the process it names is still running.                                  *)
(***************************************************************************)
EXTENDS Naturals

CONSTANTS Contender, NoFile,
          MaxCrashes   \* bound: how many processes are killed

VARIABLES file,    \* NoFile, or the lock file
          pc,      \* where each contender is in source_lock
          evicted, \* history: contenders whose lock file another one removed
          crashes

vars == <<file, pc, evicted, crashes>>

File == [by: Contender, written: BOOLEAN, running: BOOLEAN]

ASSUME LockAssumption == MaxCrashes \in Nat /\ NoFile \notin File

\* The phases in which a contender has created its file and not removed it.
InLock == {"writing", "locked"}

Init ==
    /\ file = NoFile
    /\ pc = [c \in Contender |-> "idle"]
    /\ evicted = {}
    /\ crashes = 0

Goto(c, where) == pc' = [pc EXCEPT ![c] = where]

ActiveIfWritten(f) == f.written
\* _lock_is_active: the payload parses, and its pid runs on this host.  That the
\* pid of a killed process is not given to another one is assumed.
Active(f) == f.written /\ f.running

-----------------------------------------------------------------------------
\* lock.exists(): straight to the create when there is no file.
Exists(c) ==
    /\ pc[c] = "idle"
    /\ Goto(c, IF file = NoFile THEN "create" ELSE "read")
    /\ UNCHANGED <<file, evicted, crashes>>

\* _lock_is_active() reads the file; a file that is gone meanwhile, or whose
\* payload is not there yet, does not parse and counts as inactive.
Read(c) ==
    /\ pc[c] = "read"
    /\ Goto(c, IF file # NoFile /\ Active(file) THEN "create" ELSE "unlink")
    /\ UNCHANGED <<file, evicted, crashes>>

\* The owner of the file at the path loses it to c.
UnlinkLock(c) ==
    /\ file' = NoFile
    /\ evicted' = (IF file # NoFile /\ file.running THEN evicted \cup {file.by}
                                                     ELSE evicted) \ {c}

\* _unlink_lock(missing_ok): whatever is at the path by now.
Unlink(c) ==
    /\ pc[c] = "unlink"
    /\ UnlinkLock(c)
    /\ Goto(c, "create")
    /\ UNCHANGED crashes

CreateOverwrites(c) ==
    /\ pc[c] = "create"
    /\ file' = [by |-> c, written |-> FALSE, running |-> TRUE]
    /\ Goto(c, "writing")
    /\ UNCHANGED <<evicted, crashes>>
\* lock.open("x") succeeds: an empty file.
Create(c) ==
    /\ pc[c] = "create"
    /\ file = NoFile
    /\ file' = [by |-> c, written |-> FALSE, running |-> TRUE]
    /\ Goto(c, "writing")
    /\ UNCHANGED <<evicted, crashes>>

\* FileExistsError: sleep and try again, or give up at the deadline.
CreateFails(c) ==
    /\ pc[c] = "create"
    /\ file # NoFile
    /\ Goto(c, "idle")
    /\ UNCHANGED <<file, evicted, crashes>>

\* json.dump and close: into this contender's file, at the path or orphaned.
WritePayload(c) ==
    /\ pc[c] = "writing"
    /\ file' = IF file # NoFile /\ file.by = c /\ file.running
               THEN [file EXCEPT !.written = TRUE] ELSE file
    /\ Goto(c, "locked")
    /\ UNCHANGED <<evicted, crashes>>

\* The finally: _unlink_lock of whatever is at the path.
Release(c) ==
    /\ pc[c] = "locked"
    /\ UnlinkLock(c)
    /\ Goto(c, "idle")
    /\ UNCHANGED crashes

\* The process is killed; its file stays and names a pid that is not running.
Crash(c) ==
    /\ crashes < MaxCrashes
    /\ pc[c] # "idle"
    /\ crashes' = crashes + 1
    /\ file' = IF file # NoFile /\ file.by = c
               THEN [file EXCEPT !.running = FALSE] ELSE file
    /\ evicted' = evicted \ {c}
    /\ Goto(c, "idle")

Step(c) ==
    \/ Exists(c) \/ Read(c) \/ Unlink(c) \/ Create(c) \/ CreateFails(c)
    \/ WritePayload(c) \/ Release(c)

Next == \E c \in Contender : Step(c) \/ Crash(c)

Spec == Init /\ [][Next]_vars

\* A contender polls until it has the lock, and a holder lets go of it.
FairSpec == Spec /\ \A c \in Contender : WF_vars(Step(c))

-----------------------------------------------------------------------------
\* Types of the file and of the contenders' program counters; a file that
\* names a running process is that of a contender inside the lock.
TypeOK ==
    /\ file \in File \cup {NoFile}
    /\ file # NoFile /\ file.running => pc[file.by] \in InLock
    /\ pc \in [Contender -> {"idle", "read", "unlink", "create"} \cup InLock]
    /\ evicted \subseteq Contender
    /\ crashes \in 0..MaxCrashes

(* Two contenders are inside the lock together only if the lock file of    *)
(* one of them was removed by another contender while its process ran: the *)
(* exclusive create itself never admits two, and the file at the path is   *)
(* that of the contender inside.                                           *)
CreateExcludes ==
    \A c, d \in Contender :
        c # d /\ pc[c] \in InLock /\ pc[d] \in InLock => {c, d} \cap evicted # {}

(* A lock left behind by a killed process does not brick the source: it is *)
(* cleared although nobody released it (_lock_is_active's comment).        *)
LeftoverCleared ==
    file # NoFile /\ ~file.running ~> (file = NoFile \/ file.running)

(* "it excludes two *threads* of one process" (_source_write_lock)         *)
ExcludesThreads ==
    \A c, d \in Contender : pc[c] = "locked" /\ pc[d] = "locked" => c = d
=============================================================================

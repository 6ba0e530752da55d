----------------------------- MODULE StateLock -----------------------------
(***************************************************************************)
(* The lock file beside a state file (acquireStateLock in localState.ts):  *)
(* created exclusively, then filled with the pid of its owner, and taken   *)
(* over from an owner that no longer runs.  A process is a session's life: *)
(* it opens the state file, works, and closes or crashes.                  *)
(***************************************************************************)
EXTENDS Naturals, FiniteSets

CONSTANTS
    Procs,   \* processes that open the state file, one session each
    Rivals   \* whether several of them may be opening it at the same time

ASSUME StateLockAssumption ==
    /\ IsFiniteSet(Procs) /\ "none" \notin Procs
    /\ Rivals \in BOOLEAN

VARIABLES
    lock,   \* the lock file: who created it, and whether the pid is in it
    proc    \* where each process stands

lockVars == <<lock, proc>>

NoLock == [owner |-> "none", pid |-> FALSE]

Opening == {"trying", "creating", "blocked", "stale"}
Working == {"loading", "running", "closing"}
Gone == {"refused", "closed", "crashed"}

LockInit ==
    /\ lock = NoLock
    /\ proc = [p \in Procs |-> "new"]

\* isProcessRunning.
IsProcessRunning(p) == proc[p] \in Opening \cup Working

Goes(p, to) == proc' = [proc EXCEPT ![p] = to]

Starts(p) ==
    /\ proc[p] = "new"
    /\ Rivals \/ \A q \in Procs : proc[q] \notin Opening
    /\ Goes(p, "trying") /\ UNCHANGED lock

\* writeFile with "wx": the file is created, or found to exist ...
TryCreate(p) ==
    /\ proc[p] = "trying"
    /\ IF lock = NoLock
       THEN lock' = [owner |-> p, pid |-> FALSE] /\ Goes(p, "creating")
       ELSE UNCHANGED lock /\ Goes(p, "blocked")

\* ... and then written.  Another process may have removed it meanwhile.
WritePid(p) ==
    /\ proc[p] = "creating"
    /\ lock' = IF lock.owner = p THEN [lock EXCEPT !.pid = TRUE] ELSE lock
    /\ Goes(p, "loading")

Verdict_NotAsked(file) ==
    CASE file = NoLock -> "trying" [] ~file.pid -> "refused" [] OTHER -> "stale"

\* What a process makes of the file it reads: a lock without a pid is refused,
\* as is one whose owner runs.
Verdict(file) ==
    CASE file = NoLock -> "trying"
      [] file # NoLock /\ ~file.pid -> "refused"
      [] OTHER -> IF IsProcessRunning(file.owner) THEN "refused" ELSE "stale"

ReadOwner(p) ==
    /\ proc[p] = "blocked"
    /\ Goes(p, Verdict(lock)) /\ UNCHANGED lock

\* unlink of a lock judged stale, whatever the file is by now.
UnlinkStale(p) ==
    /\ proc[p] = "stale"
    /\ lock' = NoLock /\ Goes(p, "trying")

\* The release unlinks the file, whatever is in it.
Release(p) ==
    /\ lock' = NoLock /\ Goes(p, "closed")

Crash(p) ==
    /\ proc[p] \in Opening \cup Working
    /\ Goes(p, "crashed") /\ UNCHANGED lock

LockStep(p) == Starts(p) \/ TryCreate(p) \/ WritePid(p) \/ ReadOwner(p) \/ UnlinkStale(p)

-----------------------------------------------------------------------------
LockTypeOK ==
    /\ lock \in [owner : Procs, pid : BOOLEAN] \cup {NoLock}
    /\ proc \in [Procs -> Opening \cup Working \cup Gone \cup {"new"}]

\* "Exclusive process lock: one MLS session writer per state file"
\* (acquireStateLock in localState.ts).
OneWriter == \A p, q \in Procs : (proc[p] \in Working /\ proc[q] \in Working) => p = q
=============================================================================

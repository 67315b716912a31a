----------------------------- MODULE WriteLock -----------------------------
(***************************************************************************)
(* WriteLockManager: the write lock of one repository, a JSON file created *)
(* with O_CREAT|O_EXCL, shared by the threads of several server processes  *)
(* on several hosts.  Every system call on the file (exists, read, unlink, *)
(* open, write) is a step of its own.                                      *)
(*                                                                         *)
(* The file is described by the client that created it, so a client that   *)
(* writes into a file somebody has unlinked meanwhile is recognised.       *)
(*                                                                         *)
(* The history variable struck is not part of the code: it records that a  *)
(* file was unlinked under its living creator in one of the ways the guard *)
(* of a process does not prevent.                                          *)
(***************************************************************************)
EXTENDS Integers, FiniteSets

CONSTANTS Client,      \* threads that use the lock
          Process,     \* server processes (workers, nodes)
          Proc, Host,  \* the process of a client, the host of a process
          Refresher,   \* the threads that only ever ask is_locked (refresh)
          Expiry,      \* may a holder outlive its ttl_seconds?
          MaxCrashes,  \* bound on process crashes
          None         \* no client

ASSUME ClientAssumption == /\ Proc \in [Client -> Process]
                           /\ Refresher \subseteq Client
                           /\ None \notin Client
ASSUME FlagsAssumption == Expiry \in BOOLEAN /\ MaxCrashes \in Nat

VARIABLES pc,       \* where each client is
          intra,    \* per process: holder of the intra-process guard
          file,     \* creator of the file at the lock's path, or None
          written,  \* does it hold its metadata yet?
          expired,  \* acquired_at + ttl_seconds < now
          dead,     \* has the process named in it died?
          crashes,
          struck    \* history: has a living client lost its file?

fileVars == <<file, written, expired, dead>>
vars == <<pc, intra, fileVars, crashes, struck>>

Init == /\ pc = [c \in Client |-> "idle"]
        /\ intra = [p \in Process |-> None]
        /\ file = None
        /\ written = FALSE /\ expired = FALSE /\ dead = FALSE
        /\ crashes = 0
        /\ struck = FALSE

Goto(c, s) == pc' = [pc EXCEPT ![c] = s]

Unlink == file' = None /\ written' = FALSE /\ expired' = FALSE /\ dead' = FALSE

Unguard(c) == intra' = [intra EXCEPT ![Proc[c]] = None]

\* c has created its file and not yet given it up.
Lives(c) == pc[c] \in {"writing", "held", "dropping"}

\* An unlink now would take the file of a client that is still there.
Robs == file # None /\ Lives(file)

----------------------------------------------------------------------------
(* acquire *)

\* Mutant: no guard between the threads of a process.
TryAcquireUnguarded(c) == /\ c \notin Refresher /\ pc[c] = "idle"
                          /\ Goto(c, "looking")
                          /\ UNCHANGED <<intra, fileVars, crashes, struck>>

\* The intra-process guard, without waiting: acquire returns False otherwise.
TryAcquire(c) == /\ c \notin Refresher /\ pc[c] = "idle"
                 /\ intra[Proc[c]] = None
                 /\ intra' = [intra EXCEPT ![Proc[c]] = c]
                 /\ Goto(c, "looking")
                 /\ UNCHANGED <<fileVars, crashes, struck>>

\* lock_file.exists()
Look(c) == /\ pc[c] = "looking"
           /\ Goto(c, IF file = None THEN "opening" ELSE "reading")
           /\ UNCHANGED <<intra, fileVars, crashes, struck>>

\* Mutant: a lock of another host is never stale.
IsStaleLocalOnly(c) == Host[Proc[file]] = Host[Proc[c]] /\ (expired \/ dead)

\* Mutant: the pid of another host is looked up on this one.
IsStaleForeignPid(c) == expired \/ dead \/ Host[Proc[file]] # Host[Proc[c]]

\* Of a file with metadata.  The pid means something on its own host only.
IsStale(c) == \/ expired
              \/ dead /\ Host[Proc[file]] = Host[Proc[c]]

\* The file cannot be parsed (it is empty until its creator has written it)
\* or its lock is stale.
Evictable(c) == ~written \/ IsStale(c)

\* Mutant: the early return of a live lock skips the finally clause.
ReadKeepsGuard(c) ==
    /\ pc[c] = "reading"
    /\ Goto(c, IF file = None THEN "opening"
               ELSE IF Evictable(c) THEN "evicting" ELSE "idle")
    /\ UNCHANGED <<intra, fileVars, crashes, struck>>

\* _evict_if_stale reads the file; a live lock makes acquire return False.
Read(c) == /\ pc[c] = "reading"
           /\ \/ file = None /\ Goto(c, "opening") /\ UNCHANGED intra
              \/ /\ file # None /\ Evictable(c)
                 /\ Goto(c, "evicting") /\ UNCHANGED intra
              \/ /\ file # None /\ ~Evictable(c)
                 /\ Goto(c, "idle") /\ Unguard(c)
           /\ UNCHANGED <<fileVars, crashes, struck>>

\* unlink by path: it removes the file that is there now.  The guard covers
\* neither the other processes nor a lock that has outlived its TTL.
Evict(c) == /\ pc[c] = "evicting"
            /\ Unlink
            /\ struck' = (struck \/ (Robs /\ (Proc[file] # Proc[c] \/ expired)))
            /\ Goto(c, "opening")
            /\ UNCHANGED <<intra, crashes>>

\* os.open(O_CREAT|O_EXCL)
Open(c) == /\ pc[c] = "opening"
           /\ \/ /\ file = None
                 /\ file' = c /\ written' = FALSE
                 /\ expired' = FALSE /\ dead' = FALSE
                 /\ Goto(c, "writing") /\ UNCHANGED intra
              \/ /\ file # None
                 /\ Goto(c, "idle") /\ Unguard(c)
                 /\ UNCHANGED fileVars
           /\ UNCHANGED <<crashes, struck>>

\* os.write through the descriptor, which may lead to a file without a name;
\* acquire returns True in any case.
Write(c) == /\ pc[c] = "writing"
            /\ written' = IF file = c THEN TRUE ELSE written
            /\ Goto(c, "held") /\ Unguard(c)
            /\ UNCHANGED <<file, expired, dead, crashes, struck>>

\* os.write raises, and acquire with it: the finally clauses close the
\* descriptor and return the guard, the file stays behind empty.
WriteFails(c) == /\ pc[c] = "writing"
                 /\ Goto(c, "idle") /\ Unguard(c)
                 /\ UNCHANGED <<fileVars, crashes, struck>>

----------------------------------------------------------------------------
(* release *)

\* exists() and read: a missing or unreadable file, or one of another owner,
\* is left as it is.  Owner names are taken to differ between clients.
Release(c) == /\ pc[c] = "held"
              /\ Goto(c, IF file = c /\ written THEN "dropping" ELSE "idle")
              /\ UNCHANGED <<intra, fileVars, crashes, struck>>

Drop(c) == /\ pc[c] = "dropping"
           /\ Unlink
           /\ Goto(c, "idle")
           /\ UNCHANGED <<intra, crashes, struck>>

----------------------------------------------------------------------------
(* is_locked, which any thread may ask and which takes no guard.            *)
(* get_lock_info evicts in fewer cases.                                      *)

Peek(c) == /\ pc[c] = "idle"
           /\ file # None
           /\ Goto(c, "peeking")
           /\ UNCHANGED <<intra, fileVars, crashes, struck>>

PeekRead(c) == /\ pc[c] = "peeking"
               /\ Goto(c, IF file # None /\ Evictable(c) THEN "peekEvicting"
                                                         ELSE "idle")
               /\ UNCHANGED <<intra, fileVars, crashes, struck>>

PeekEvict(c) == /\ pc[c] = "peekEvicting"
                /\ Unlink
                /\ struck' = (struck \/ Robs)
                /\ Goto(c, "idle")
                /\ UNCHANGED <<intra, crashes>>

----------------------------------------------------------------------------
\* The wall clock passes acquired_at + ttl_seconds.
TtlPasses == /\ Expiry
             /\ written /\ ~expired
             /\ expired' = TRUE
             /\ UNCHANGED <<pc, intra, file, written, dead, crashes, struck>>

\* A process dies, its threads with it, and is started again under a new pid.
Crash(p) == /\ crashes < MaxCrashes
            /\ crashes' = crashes + 1
            /\ pc' = [c \in Client |-> IF Proc[c] = p THEN "idle" ELSE pc[c]]
            /\ intra' = [intra EXCEPT ![p] = None]
            /\ dead' = (dead \/ (file # None /\ Proc[file] = p))
            /\ UNCHANGED <<file, written, expired, struck>>

Acquiring(c) == \/ TryAcquire(c) \/ Look(c) \/ Read(c) \/ Evict(c)
                \/ Open(c) \/ Write(c) \/ WriteFails(c)
Releasing(c) == Release(c) \/ Drop(c)
Peeking(c)   == Peek(c) \/ PeekRead(c) \/ PeekEvict(c)

Next == \/ \E c \in Client : Acquiring(c) \/ Releasing(c) \/ Peeking(c)
        \/ TtlPasses
        \/ \E p \in Process : Crash(p)

Spec == Init /\ [][Next]_vars

\* Threads run, time passes, and the refresh scheduler keeps asking is_locked.
\* No holder is assumed to release.
Fairness == /\ \A c \in Client : /\ WF_vars(Look(c) \/ Read(c) \/ Evict(c)
                                            \/ Open(c) \/ Write(c)
                                            \/ WriteFails(c))
                                 /\ WF_vars(Drop(c))
                                 /\ WF_vars(PeekRead(c) \/ PeekEvict(c))
            /\ \A c \in Refresher : WF_vars(Peek(c))
            /\ WF_vars(TtlPasses)

FairSpec == Spec /\ Fairness

----------------------------------------------------------------------------
Place == {"idle", "looking", "reading", "evicting", "opening", "writing",
          "held", "dropping", "peeking", "peekEvicting"}

\* Type correctness; a path without a file has no attributes.
TypeOK == /\ pc \in [Client -> Place]
          /\ intra \in [Process -> Client \cup {None}]
          /\ file \in Client \cup {None}
          /\ written \in BOOLEAN /\ expired \in BOOLEAN /\ dead \in BOOLEAN
          /\ crashes \in 0..MaxCrashes
          /\ struck \in BOOLEAN
          /\ file = None => ~written /\ ~expired /\ ~dead

Owns(c) == pc[c] \in {"held", "dropping"}

\* No two clients are between a successful acquire and the end of release.
MutualExclusion == \A c, d \in Client : Owns(c) /\ Owns(d) => c = d

\* The intra-process guard is held by a thread that is still inside acquire:
\* no early return and no crash leaves it taken, which would refuse the lock
\* to the whole process from then on.
GuardNotLeaked == \A p \in Process : intra[p] # None =>
    /\ Proc[intra[p]] = p
    /\ pc[intra[p]] \in {"looking", "reading", "evicting", "opening", "writing"}

\* The lock as its users see it: the clients that own it.
Holders == {c \in Client : Owns(c)}
Lock == INSTANCE RepoLock WITH holders <- Holders

\* acquire lets a second owner in only after struck: after is_locked, the
\* acquire of another process, or the TTL removed the file of a client that
\* was still there.  The threads of one process that acquire and release
\* exclude each other, whatever crashes, raises or asks in between.
ImplementsLock == Lock!Spec

\* A lock with its metadata in place, alive and within its TTL, and no unlink
\* on its way: no verdict reached earlier, no release of an earlier owner.
Settled == /\ file # None /\ written /\ ~expired /\ ~dead
           /\ \A c \in Client : /\ pc[c] \notin {"evicting", "peekEvicting"}
                                /\ pc[c] = "dropping" => file = c

\* A settled lock stays, whatever the other threads, processes and hosts call:
\* it goes by its owner's release, or stops being settled because its TTL
\* passes or its process dies.  _is_stale asks for a pid on its own host only,
\* and release unlinks its own lock only.
LiveLockStays == [][Settled => \/ /\ file' = file
                                  /\ Settled' \/ expired' \/ dead'
                               \/ file' = None /\ pc[file] = "dropping"]_vars

\* The file of a client that is gone: its process died, or its write raised.
Orphan == file # None /\ (dead \/ ~Lives(file))

\* An orphan is removed: by pid on its own host, by TTL on another, as
\* unparseable if it never got its metadata.
OrphanIsEvicted == Orphan ~> ~Orphan

=============================================================================

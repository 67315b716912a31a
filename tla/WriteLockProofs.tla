-------------------------- MODULE WriteLockProofs --------------------------
(***************************************************************************)
(* For any number of hosts, processes, threads, crashes, expiries, raising *)
(* writes and calls of is_locked: the guard of a process is always given   *)
(* back, the lock excludes until a file is unlinked under its living       *)
(* creator in one of the ways the guard does not cover (struck), so the    *)
(* file protocol implements RepoLock, and a settled lock stays.            *)
(***************************************************************************)
EXTENDS WriteLock, TLAPS

Inside == {"looking", "reading", "evicting", "opening", "writing"}

----------------------------------------------------------------------------
(* Types and the guard. *)

GuardInv == /\ TypeOK
            /\ GuardNotLeaked
            /\ \A c \in Client : pc[c] \in Inside => intra[Proc[c]] = c

\* What a client's step does to its place and to the guard of its process.
Moves(c, s) ==
    /\ pc' = [pc EXCEPT ![c] = s]
    /\ \/ intra' = intra /\ (pc[c] \in Inside <=> s \in Inside)
       \/ intra' = [intra EXCEPT ![Proc[c]] = None] /\ pc[c] \in Inside /\ s \notin Inside
       \/ /\ intra[Proc[c]] = None /\ s \in Inside
          /\ intra' = [intra EXCEPT ![Proc[c]] = c]

LEMMA ClientMoves ==
    ASSUME NEW c \in Client, Acquiring(c) \/ Releasing(c) \/ Peeking(c)
    PROVE  \E s \in Place : Moves(c, s)
<1> USE DEF Moves, Goto, Unguard, Place, Inside
<1>1. CASE TryAcquire(c) \/ Look(c) \/ Read(c)
  BY <1>1, Zenon DEF TryAcquire, Look, Read
<1>2. CASE Evict(c) \/ Open(c)
  BY <1>2, Zenon DEF Evict, Open
<1>3. CASE Write(c) \/ WriteFails(c)
  BY <1>3, Zenon DEF Write, WriteFails
<1>4. CASE Releasing(c)
  BY <1>4, Zenon DEF Releasing, Release, Drop
<1>5. CASE Peeking(c)
  BY <1>5, Zenon DEF Peeking, Peek, PeekRead, PeekEvict
<1>6. QED
  BY <1>1, <1>2, <1>3, <1>4, <1>5, Zenon DEF Acquiring

\* What a client's step does to the file at the lock's path.
Creates(c) == /\ file = None
              /\ file' = c /\ written' = FALSE /\ expired' = FALSE /\ dead' = FALSE
Fills(c) == /\ file = c /\ file' = c /\ written' = TRUE
            /\ expired' = expired /\ dead' = dead

LEMMA FileMoves ==
    ASSUME NEW c \in Client, Acquiring(c) \/ Releasing(c) \/ Peeking(c)
    PROVE  /\ crashes' = crashes
           /\ UNCHANGED fileVars \/ Unlink \/ Creates(c) \/ Fills(c)
           /\ struck' = struck \/ struck' \in BOOLEAN
<1> USE DEF Creates, Fills, fileVars
<1>1. CASE Acquiring(c)
  BY <1>1, Zenon DEF Acquiring, TryAcquire, Look, Read, Evict, Open, Write, WriteFails
<1>2. CASE Releasing(c)
  BY <1>2, Zenon DEF Releasing, Release, Drop
<1>3. CASE Peeking(c)
  BY <1>3, Zenon DEF Peeking, Peek, PeekRead, PeekEvict
<1>4. QED
  BY <1>1, <1>2, <1>3, Zenon

\* It leaves the file well formed.
LEMMA FileTyped ==
    ASSUME TypeOK, NEW c \in Client,
           UNCHANGED fileVars \/ Unlink \/ Creates(c) \/ Fills(c)
    PROVE  /\ file' \in Client \cup {None}
           /\ written' \in BOOLEAN /\ expired' \in BOOLEAN /\ dead' \in BOOLEAN
           /\ file' = None => ~written' /\ ~expired' /\ ~dead'
<1> USE ClientAssumption DEF TypeOK
<1>1. CASE UNCHANGED fileVars
  BY <1>1, Zenon DEF fileVars
<1>2. CASE Unlink
  BY <1>2, Zenon DEF Unlink
<1>3. CASE Creates(c)
  BY <1>3, Zenon DEF Creates
<1>4. CASE Fills(c)
  BY <1>4, Zenon DEF Fills
<1>5. QED
  BY <1>1, <1>2, <1>3, <1>4, Zenon

LEMMA ClientGuard ==
    ASSUME GuardInv, NEW c \in Client, Acquiring(c) \/ Releasing(c) \/ Peeking(c)
    PROVE  GuardInv'
<1>1. PICK s \in Place : Moves(c, s)
  BY ClientMoves, Zenon
<1>2. pc' \in [Client -> Place] /\ intra' \in [Process -> Client \cup {None}]
  BY <1>1, ClientAssumption DEF GuardInv, TypeOK, Moves
<1>3. TypeOK'
  <2>1. /\ crashes' = crashes
        /\ UNCHANGED fileVars \/ Unlink \/ Creates(c) \/ Fills(c)
        /\ struck' = struck \/ struck' \in BOOLEAN
    BY FileMoves, Zenon
  <2>2. QED
    BY <1>2, <2>1, FileTyped, Zenon DEF GuardInv, TypeOK
<1>4. GuardNotLeaked'
  BY <1>1, ClientAssumption DEF GuardInv, TypeOK, GuardNotLeaked, Moves, Inside
<1>5. ASSUME NEW d \in Client, pc'[d] \in Inside PROVE intra'[Proc[d]] = d
  BY <1>1, <1>5, ClientAssumption, Zenon DEF GuardInv, TypeOK, Moves, Inside
<1>6. QED
  BY <1>3, <1>4, <1>5, Zenon DEF GuardInv

\* A crash clears the guard of the process that dies and of no other.
LEMMA CrashGuard == ASSUME GuardInv, NEW p \in Process, Crash(p) PROVE GuardInv'
<1>1. /\ pc' \in [Client -> Place] /\ intra' \in [Process -> Client \cup {None}]
      /\ crashes' \in 0..MaxCrashes
  BY FlagsAssumption DEF GuardInv, TypeOK, Crash, Place
<1>2. dead' \in BOOLEAN
  BY Zenon DEF Crash
<1>3. TypeOK'
  BY <1>1, <1>2, Zenon DEF GuardInv, TypeOK, Crash
<1>4. GuardNotLeaked'
  BY ClientAssumption DEF GuardInv, TypeOK, GuardNotLeaked, Crash
<1>5. ASSUME NEW d \in Client, pc'[d] \in Inside PROVE intra'[Proc[d]] = d
  BY <1>5, ClientAssumption DEF GuardInv, TypeOK, Crash, Inside
<1>6. QED
  BY <1>3, <1>4, <1>5, Zenon DEF GuardInv

LEMMA GuardInductive == GuardInv /\ [Next]_vars => GuardInv'
<1> SUFFICES ASSUME GuardInv, [Next]_vars PROVE GuardInv'
  OBVIOUS
<1>1. CASE TtlPasses
  BY <1>1, Zenon DEF TtlPasses, GuardInv, TypeOK, GuardNotLeaked
<1>2. CASE UNCHANGED vars
  BY <1>2, Zenon DEF vars, fileVars, GuardInv, TypeOK, GuardNotLeaked
<1>3. QED
  BY <1>1, <1>2, ClientGuard, CrashGuard, Zenon DEF Next

LEMMA GuardInit == Init => GuardInv
<1> SUFFICES ASSUME Init PROVE GuardInv
  OBVIOUS
<1>1. /\ pc \in [Client -> Place] /\ intra \in [Process -> Client \cup {None}]
      /\ crashes \in 0..MaxCrashes
  BY FlagsAssumption DEF Init, Place
<1>2. /\ written \in BOOLEAN /\ expired \in BOOLEAN /\ dead \in BOOLEAN
      /\ struck \in BOOLEAN
  BY Zenon DEF Init
<1>3. QED
  BY <1>1, <1>2, Zenon DEF Init, GuardInv, TypeOK, GuardNotLeaked, Inside

\* acquire never returns with the guard of its process taken, and a crash does
\* not leave it taken, for any number of processes, threads and crashes.
THEOREM GuardIsReturned == Spec => []GuardNotLeaked
<1>1. GuardInv => GuardNotLeaked
  BY Zenon DEF GuardInv
<1>2. QED
  BY <1>1, GuardInit, GuardInductive, PTL DEF Spec

\* Types, and a path without a file has no attributes, whoever removed it.
THEOREM TypeCorrect == Spec => []TypeOK
<1>1. GuardInv => TypeOK
  BY Zenon DEF GuardInv
<1>2. QED
  BY <1>1, GuardInit, GuardInductive, PTL DEF Spec

----------------------------------------------------------------------------
(* Exclusion.  Until somebody is struck, a client that has created its file *)
(* finds it in place, and a thread about to evict aims at no living client  *)
(* of its own process within its TTL: the guard keeps the others out.       *)

Alone == \A c \in Client : Lives(c) => file = c /\ ~dead /\ (Owns(c) => written)

Aimed == \A c \in Client :
    pc[c] = "evicting" => ~Robs \/ Proc[file] # Proc[c] \/ expired

IInv == GuardInv /\ (struck \/ (Alone /\ Aimed))

\* The places of the other clients stay, and so does what they have.
LEMMA Others ==
    ASSUME TypeOK, NEW c \in Client, NEW s, Goto(c, s)
    PROVE  /\ pc'[c] = s
           /\ \A d \in Client \ {c} : pc'[d] = pc[d]
BY DEF TypeOK, Goto

\* A step that neither touches the file nor brings its client to a place where
\* it has a file or removes one.
LEMMA QuietStep ==
    ASSUME IInv, NEW c \in Client, NEW s, Goto(c, s), UNCHANGED <<fileVars, struck>>,
           s \notin {"writing", "held", "evicting"},
           s = "dropping" => Owns(c)
    PROVE  struck' \/ (Alone' /\ Aimed')
<1> SUFFICES ASSUME ~struck PROVE Alone' /\ Aimed'
  BY Zenon
<1>1. Alone /\ Aimed /\ TypeOK
  BY Zenon DEF IInv, GuardInv
<1>2. /\ pc'[c] = s
      /\ \A d \in Client \ {c} : pc'[d] = pc[d]
      /\ file' = file /\ written' = written /\ expired' = expired /\ dead' = dead
  BY <1>1, Others, Zenon DEF fileVars
<1>3. \A d \in Client : (Lives(d)' => Lives(d)) /\ (Owns(d)' => Owns(d))
  BY <1>2, Zenon DEF Lives, Owns
<1>4. Alone'
  BY <1>1, <1>2, <1>3, Zenon DEF Alone
<1>5. Robs' => Robs
  BY <1>1, <1>2, <1>3, Zenon DEF Robs, TypeOK
<1>6. Aimed'
  BY <1>1, <1>2, <1>5, Zenon DEF Aimed
<1>7. QED
  BY <1>4, <1>6, Zenon

\* An unlink that robs nobody, or only a client that gives up its file by it.
LEMMA UnlinkStep ==
    ASSUME IInv, NEW c \in Client, NEW s \in {"idle", "opening"}, Goto(c, s), Unlink,
           struck' \/ (~struck /\ (~Robs \/ file = c))
    PROVE  struck' \/ (Alone' /\ Aimed')
<1> SUFFICES ASSUME ~struck' PROVE Alone' /\ Aimed'
  BY Zenon
<1>1. Alone /\ TypeOK /\ (~Robs \/ file = c)
  BY Zenon DEF IInv, GuardInv
<1>2. /\ pc'[c] = s
      /\ \A d \in Client \ {c} : pc'[d] = pc[d]
      /\ file' = None
  BY <1>1, Others, Zenon DEF Unlink
<1>3. \A d \in Client : Lives(d) => d = c
  BY <1>1, ClientAssumption, Zenon DEF Alone, Robs
<1>4. \A d \in Client : ~Lives(d)'
  BY <1>2, <1>3, Zenon DEF Lives
<1>5. QED
  BY <1>2, <1>4, Zenon DEF Alone, Aimed, Robs

LEMMA AcquireInv ==
    ASSUME IInv, NEW c \in Client, Acquiring(c)
    PROVE  struck' \/ (Alone' /\ Aimed')
<1>1. CASE TryAcquire(c)
  BY <1>1, QuietStep, Zenon DEF TryAcquire, fileVars
<1>2. CASE Look(c)
  BY <1>2, QuietStep, Zenon DEF Look, fileVars
<1>3. CASE Read(c)
  <2>1. CASE Goto(c, "evicting") /\ file # None /\ Evictable(c) /\ ~struck
    <3>1. /\ Alone /\ Aimed /\ TypeOK /\ pc[c] = "reading"
          /\ \A d \in Client : pc[d] \in Inside => intra[Proc[d]] = d
          /\ UNCHANGED <<fileVars, struck>>
      BY <1>3, <2>1, Zenon DEF Read, IInv, GuardInv, fileVars
    <3>2. /\ pc'[c] = "evicting"
          /\ \A d \in Client \ {c} : pc'[d] = pc[d]
          /\ file' = file /\ written' = written /\ expired' = expired /\ dead' = dead
      BY <2>1, <3>1, Others, Zenon DEF fileVars
    <3>3. \A d \in Client : (Lives(d)' <=> Lives(d)) /\ (Owns(d)' <=> Owns(d))
      BY <3>1, <3>2, Zenon DEF Lives, Owns
    <3>4. Alone' /\ (Robs' <=> Robs)
      BY <2>1, <3>1, <3>2, <3>3, Zenon DEF Alone, Robs, TypeOK
    <3>5. ~Robs \/ Proc[file] # Proc[c] \/ expired
      <4> SUFFICES ASSUME Robs, Proc[file] = Proc[c], ~expired PROVE FALSE
        BY Zenon
      <4>1. file \in Client /\ Lives(file) /\ ~dead
        BY <3>1, Zenon DEF Robs, Alone, TypeOK
      <4>2. pc[file] = "writing"
        BY <2>1, <3>1, <4>1, Zenon DEF Evictable, IsStale, Alone, Lives, Owns
      <4>3. intra[Proc[file]] = file /\ intra[Proc[c]] = c
        BY <3>1, <4>1, <4>2, Zenon DEF Inside
      <4>4. QED
        BY <3>1, <4>2, <4>3, Zenon
    <3>6. Aimed'
      BY <3>1, <3>2, <3>4, <3>5, Zenon DEF Aimed
    <3>7. QED
      BY <3>4, <3>6, Zenon
  <2>2. CASE Goto(c, "opening") \/ Goto(c, "idle")
    BY <1>3, <2>2, QuietStep, Zenon DEF Read, fileVars
  <2>3. QED
    BY <1>3, <2>1, <2>2, Zenon DEF Read
<1>4. CASE Evict(c)
  <2>1. struck' \/ (~struck /\ ~Robs)
    BY <1>4, Zenon DEF Evict, IInv, Aimed
  <2>2. QED
    BY <1>4, <2>1, UnlinkStep, Zenon DEF Evict
<1>5. CASE Open(c)
  <2>1. CASE Goto(c, "writing") /\ Creates(c) /\ ~struck
    <3>1. /\ Alone /\ Aimed /\ TypeOK /\ pc[c] = "opening"
          /\ \A d \in Client : pc[d] \in Inside => intra[Proc[d]] = d
      BY <1>5, <2>1, Zenon DEF Open, IInv, GuardInv
    <3>2. /\ pc'[c] = "writing"
          /\ \A d \in Client \ {c} : pc'[d] = pc[d]
          /\ file = None /\ file' = c /\ dead' = FALSE
      BY <2>1, <3>1, Others, Zenon DEF Creates
    <3>3. \A d \in Client : ~Lives(d)
      BY <3>1, <3>2, ClientAssumption, Zenon DEF Alone
    <3>4. Alone'
      BY <3>2, <3>3, Zenon DEF Alone, Lives, Owns
    <3>5. ASSUME NEW d \in Client, pc'[d] = "evicting" PROVE Proc[c] # Proc[d]
      <4>1. d # c /\ pc[d] = "evicting"
        BY <3>2, <3>5, Zenon
      <4>2. intra[Proc[d]] = d /\ intra[Proc[c]] = c
        BY <3>1, <4>1, Zenon DEF Inside
      <4>3. QED
        BY <4>1, <4>2, Zenon
    <3>6. QED
      BY <3>2, <3>4, <3>5, Zenon DEF Aimed
  <2>2. CASE Goto(c, "idle") /\ UNCHANGED fileVars
    BY <1>5, <2>2, QuietStep, Zenon DEF Open, fileVars
  <2>3. QED
    BY <1>5, <2>1, <2>2, Zenon DEF Open, Creates
<1>6. CASE Write(c)
  <2> SUFFICES ASSUME ~struck PROVE Alone' /\ Aimed'
    BY <1>6, Zenon DEF Write
  <2>1. Alone /\ Aimed /\ TypeOK /\ pc[c] = "writing"
    BY <1>6, Zenon DEF Write, IInv, GuardInv
  <2>2. file = c /\ ~dead
    BY <2>1, Zenon DEF Alone, Lives
  <2>3. /\ pc'[c] = "held"
        /\ \A d \in Client \ {c} : pc'[d] = pc[d]
        /\ file' = file /\ written' = TRUE /\ expired' = expired /\ dead' = dead
    BY <1>6, <2>1, <2>2, Others, Zenon DEF Write
  <2>4. \A d \in Client : Lives(d)' <=> Lives(d)
    BY <2>1, <2>3, Zenon DEF Lives
  <2>5. Alone' /\ (Robs' <=> Robs)
    BY <2>1, <2>2, <2>3, <2>4, Zenon DEF Alone, Robs
  <2>6. Aimed'
    BY <2>1, <2>3, <2>5, Zenon DEF Aimed
  <2>7. QED
    BY <2>5, <2>6, Zenon
<1>7. CASE WriteFails(c)
  BY <1>7, QuietStep, Zenon DEF WriteFails, fileVars
<1>8. QED
  BY <1>1, <1>2, <1>3, <1>4, <1>5, <1>6, <1>7, Zenon DEF Acquiring

LEMMA ReleaseInv ==
    ASSUME IInv, NEW c \in Client, Releasing(c)
    PROVE  struck' \/ (Alone' /\ Aimed')
<1>1. CASE Release(c)
  BY <1>1, QuietStep, Zenon DEF Release, fileVars, Owns
<1>2. CASE Drop(c)
  <2>1. struck' \/ (~struck /\ file = c)
    BY <1>2, Zenon DEF Drop, IInv, Alone, Lives
  <2>2. QED
    BY <1>2, <2>1, UnlinkStep, Zenon DEF Drop
<1>3. QED
  BY <1>1, <1>2, Zenon DEF Releasing

LEMMA PeekInv ==
    ASSUME IInv, NEW c \in Client, Peeking(c)
    PROVE  struck' \/ (Alone' /\ Aimed')
<1>1. CASE Peek(c)
  BY <1>1, QuietStep, Zenon DEF Peek, fileVars
<1>2. CASE PeekRead(c)
  BY <1>2, QuietStep, Zenon DEF PeekRead, fileVars
<1>3. CASE PeekEvict(c)
  BY <1>3, UnlinkStep, Zenon DEF PeekEvict
<1>4. QED
  BY <1>1, <1>2, <1>3, Zenon DEF Peeking

\* A crash takes every thread of the process and leaves a dead file.
LEMMA CrashInv ==
    ASSUME IInv, NEW p \in Process, Crash(p)
    PROVE  struck' \/ (Alone' /\ Aimed')
<1> SUFFICES ASSUME ~struck PROVE Alone' /\ Aimed'
  BY Zenon DEF Crash
<1>1. Alone /\ Aimed /\ TypeOK
  BY Zenon DEF IInv, GuardInv
<1>2. /\ \A d \in Client : pc'[d] = IF Proc[d] = p THEN "idle" ELSE pc[d]
      /\ file' = file /\ written' = written /\ expired' = expired
      /\ dead' <=> (dead \/ (file # None /\ Proc[file] = p))
  BY Zenon DEF Crash
<1>3. \A d \in Client : Lives(d)' => Lives(d) /\ Proc[d] # p /\ (Owns(d)' => Owns(d))
  BY <1>2, Zenon DEF Lives, Owns
<1>4. Alone'
  BY <1>1, <1>2, <1>3, Zenon DEF Alone
<1>5. Robs' => Robs
  BY <1>1, <1>2, <1>3, Zenon DEF Robs, TypeOK
<1>6. \A d \in Client : pc'[d] = "evicting" => pc[d] = "evicting"
  BY <1>2, Zenon
<1>7. Aimed'
  BY <1>1, <1>2, <1>5, <1>6, Zenon DEF Aimed
<1>8. QED
  BY <1>4, <1>7, Zenon

LEMMA Inductive == IInv /\ [Next]_vars => IInv'
<1> SUFFICES ASSUME IInv, [Next]_vars PROVE struck' \/ (Alone' /\ Aimed')
  BY GuardInductive, Zenon DEF IInv
<1>1. CASE TtlPasses
  BY <1>1, Zenon DEF TtlPasses, IInv, Alone, Aimed, Lives, Owns, Robs
<1>2. CASE UNCHANGED vars
  BY <1>2, Zenon DEF vars, fileVars, IInv, Alone, Aimed, Lives, Owns, Robs
<1>3. QED
  BY <1>1, <1>2, AcquireInv, ReleaseInv, PeekInv, CrashInv, Zenon DEF Next

LEMMA InitInv == Init => IInv
  BY GuardInit, Zenon DEF IInv, Init, Alone, Aimed, Lives

\* No two clients own the lock together before struck, on any hosts.
THEOREM ExcludesUntilStruck == Spec => [](struck \/ MutualExclusion)
<1>1. IInv => struck \/ MutualExclusion
  BY Zenon DEF IInv, Alone, MutualExclusion, Lives, Owns
<1>2. QED
  BY <1>1, InitInv, Inductive, PTL DEF Spec

----------------------------------------------------------------------------
(* Refinement. *)

\* A step that moves one client and does not make it an owner takes at most
\* that client from the holders.
LEMMA Leaves ==
    ASSUME TypeOK, NEW c \in Client, NEW s, Goto(c, s), s # "held",
           s = "dropping" => Owns(c), struck' = struck
    PROVE  Lock!Next
<1>1. /\ pc'[c] = s
      /\ \A d \in Client \ {c} : pc'[d] = pc[d]
  BY Others, Zenon
<1>2. CASE s = "dropping"
  <2>1. \A d \in Client : Owns(d)' <=> Owns(d)
    BY <1>1, <1>2, Zenon DEF Owns
  <2>2. Holders' = Holders \ {} /\ {} \in SUBSET Client
    BY <2>1, Zenon DEF Holders
  <2>3. QED
    BY <2>2, Zenon DEF Lock!Next, Lock!Drop
<1>3. CASE s # "dropping"
  <2>1. \A d \in Client : Owns(d)' <=> Owns(d) /\ d # c
    BY <1>1, <1>3, Zenon DEF Owns
  <2>2. Holders' = Holders \ {c}
    BY <2>1, Zenon DEF Holders
  <2>3. {c} \in SUBSET Client
    BY Zenon
  <2>4. QED
    BY <2>2, <2>3, Zenon DEF Lock!Next, Lock!Drop
<1>4. QED
  BY <1>2, <1>3, Zenon

\* An unlink by a client that owns nothing strikes, or leaves the lock alone.
LEMMA Strikes ==
    ASSUME TypeOK, NEW c \in Client, NEW s \in {"idle", "opening"}, Goto(c, s),
           ~Owns(c), struck' = struck \/ struck' = TRUE
    PROVE  [Lock!Next]_(Lock!vars)
<1>1. /\ pc'[c] = s
      /\ \A d \in Client \ {c} : pc'[d] = pc[d]
  BY Others, Zenon
<1>2. \A d \in Client : Owns(d)' <=> Owns(d)
  BY <1>1, Zenon DEF Owns
<1>3. Holders' = Holders
  BY <1>2, Zenon DEF Holders
<1>4. QED
  BY <1>3, Zenon DEF Lock!Next, Lock!Strike, Lock!vars

LEMMA StepSimulation ==
    ASSUME IInv, [Next]_vars
    PROVE  [Lock!Next]_(Lock!vars)
<1>t. TypeOK
  BY Zenon DEF IInv, GuardInv
<1>1. ASSUME NEW c \in Client, Write(c) PROVE Lock!Take(c)
  <2>1. /\ pc'[c] = "held" /\ pc[c] = "writing" /\ struck' = struck
        /\ \A d \in Client \ {c} : pc'[d] = pc[d]
    BY <1>t, <1>1, Others, Zenon DEF Write
  <2>2. \A d \in Client : Owns(d)' <=> Owns(d) \/ d = c
    BY <2>1, Zenon DEF Owns
  <2>3. Holders' = Holders \cup {c} /\ c \notin Holders
    BY <2>1, <2>2, Zenon DEF Holders, Owns
  <2>4. ASSUME ~struck PROVE Holders = {}
    <3>1. \A d \in Client : Lives(d) => d = c
      BY <2>1, <2>4, Zenon DEF IInv, Alone, Lives
    <3>2. \A d \in Client : ~Owns(d)
      BY <2>1, <3>1, Zenon DEF Lives, Owns
    <3>3. QED
      BY <3>2, Zenon DEF Holders
  <2>5. QED
    BY <2>1, <2>3, <2>4, Zenon DEF Lock!Take
<1>2. ASSUME NEW c \in Client,
             \/ TryAcquire(c) \/ Look(c) \/ Read(c) \/ Open(c) \/ WriteFails(c)
      PROVE  Lock!Next
  BY <1>t, <1>2, Leaves, Zenon DEF TryAcquire, Look, Read, Open, WriteFails
<1>3. ASSUME NEW c \in Client, Releasing(c) \/ Peek(c) \/ PeekRead(c)
      PROVE  Lock!Next
  BY <1>t, <1>3, Leaves, Zenon DEF Releasing, Release, Drop, Peek, PeekRead, Owns
<1>4. ASSUME NEW c \in Client, Evict(c) \/ PeekEvict(c)
      PROVE  [Lock!Next]_(Lock!vars)
  <2>1. struck' = struck \/ struck' = TRUE
    BY <1>t, <1>4, Zenon DEF Evict, PeekEvict, TypeOK
  <2>2. QED
    BY <1>t, <1>4, <2>1, Strikes, Zenon DEF Evict, PeekEvict, Owns
<1>5. ASSUME NEW p \in Process, Crash(p) PROVE Lock!Next
  <2> DEFINE S == {c \in Client : Proc[c] = p}
  <2>1. \A d \in Client : Owns(d)' <=> Owns(d) /\ Proc[d] # p
    BY <1>5, Zenon DEF Crash, Owns
  <2>2. Holders' = Holders \ S
    BY <2>1, Zenon DEF Holders
  <2>3. S \in SUBSET Client /\ struck' = struck
    BY <1>5, Zenon DEF Crash
  <2>4. QED
    BY <2>2, <2>3, Zenon DEF Lock!Next, Lock!Drop
<1>6. CASE TtlPasses
  BY <1>6, Zenon DEF TtlPasses, Lock!vars, Holders, Owns
<1>7. CASE UNCHANGED vars
  BY <1>7, Zenon DEF vars, Lock!vars, Holders, Owns
<1>8. QED
  BY <1>1, <1>2, <1>3, <1>4, <1>5, <1>6, <1>7, Zenon
     DEF Next, Acquiring, Peeking, Lock!Next

\* The file protocol implements the lock its users can rely on: taking it is
\* the write of the metadata, giving it back the unlink or the crash, and a
\* second holder comes only after struck.
THEOREM FileLockRefinesRepoLock == Spec => ImplementsLock
<1>1. Init => Lock!Init
  BY Zenon DEF Init, Lock!Init, Holders, Owns
<1>2. IInv /\ [Next]_vars => [Lock!Next]_(Lock!vars)
  BY StepSimulation, Zenon
<1>3. QED
  BY <1>1, <1>2, InitInv, Inductive, PTL DEF Spec, ImplementsLock, Lock!Spec

----------------------------------------------------------------------------
(* Settled locks. *)

\* A client's step that keeps the file and starts no unlink.
LEMMA KeepsSettled ==
    ASSUME TypeOK, Settled, NEW c \in Client, NEW s, Goto(c, s), UNCHANGED fileVars,
           s \notin {"evicting", "peekEvicting"}, s = "dropping" => file = c
    PROVE  file' = file /\ Settled'
<1>1. /\ pc'[c] = s
      /\ \A d \in Client \ {c} : pc'[d] = pc[d]
      /\ file' = file /\ written' = written /\ expired' = expired /\ dead' = dead
  BY Others, Zenon DEF fileVars
<1>2. QED
  BY <1>1, Zenon DEF Settled

LEMMA SettledStep ==
    ASSUME TypeOK, Settled, Next
    PROVE  \/ file' = file /\ (Settled' \/ expired' \/ dead')
           \/ file' = None /\ pc[file] = "dropping"
<1>1. ASSUME NEW c \in Client PROVE ~Evictable(c) \/ dead
  BY Zenon DEF Settled, Evictable, IsStale
<1>2. ASSUME NEW c \in Client,
             \/ TryAcquire(c) \/ Look(c) \/ Read(c) \/ Open(c) \/ WriteFails(c)
      PROVE  file' = file /\ Settled'
  BY <1>1, <1>2, KeepsSettled, Zenon
     DEF TryAcquire, Look, Read, Open, WriteFails, Settled
<1>3. ASSUME NEW c \in Client, Write(c) PROVE file' = file /\ Settled'
  <2>1. /\ pc'[c] = "held" /\ \A d \in Client \ {c} : pc'[d] = pc[d]
        /\ file' = file /\ expired' = expired /\ dead' = dead
        /\ written' = IF file = c THEN TRUE ELSE written
    BY <1>3, Others, Zenon DEF Write
  <2>2. QED
    BY <2>1, Zenon DEF Settled
<1>4. ASSUME NEW c \in Client, Release(c) \/ Peek(c) \/ PeekRead(c)
      PROVE  file' = file /\ Settled'
  BY <1>1, <1>4, KeepsSettled, Zenon DEF Release, Peek, PeekRead, Settled
<1>5. ASSUME NEW c \in Client, Drop(c)
      PROVE  file' = None /\ pc[file] = "dropping"
  BY <1>5, Zenon DEF Drop, Unlink, Settled
<1>6. ASSUME NEW c \in Client PROVE ~Evict(c) /\ ~PeekEvict(c)
  BY Zenon DEF Evict, PeekEvict, Settled
<1>7. ASSUME NEW p \in Process, Crash(p)
      PROVE  file' = file /\ (Settled' \/ dead')
  <2>1. /\ \A d \in Client : pc'[d] = IF Proc[d] = p THEN "idle" ELSE pc[d]
        /\ file' = file /\ written' = written /\ expired' = expired
    BY <1>7, Zenon DEF Crash
  <2>2. QED
    BY <2>1, Zenon DEF Settled
<1>8. CASE TtlPasses
  BY <1>8, Zenon DEF TtlPasses
<1>9. QED
  BY <1>2, <1>3, <1>4, <1>5, <1>6, <1>7, <1>8, Zenon
     DEF Next, Acquiring, Releasing, Peeking

\* Once a lock is settled, nothing but its owner's release, its TTL or the
\* death of its process ends it: no call of any thread on any host.
THEOREM SettledLocksStay == Spec => LiveLockStays
<1>1. TypeOK /\ [Next]_vars =>
        [Settled => \/ file' = file /\ (Settled' \/ expired' \/ dead')
                    \/ file' = None /\ pc[file] = "dropping"]_vars
  BY SettledStep, Zenon
<1>2. QED
  BY <1>1, TypeCorrect, PTL DEF Spec, LiveLockStays

=============================================================================

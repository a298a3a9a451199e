------------------------------ MODULE DaemonProofs ------------------------------
(***************************************************************************)
(* Proofs about Daemon, for any number of processes and whichever of their *)
(* calls fail: at most one daemon is at work, the PID file names it if it  *)
(* could be written, and it listens on the port if it could get one.       *)
(***************************************************************************)
EXTENDS Daemon, FiniteSetTheorems, TLAPS

(* The inductive invariant: who has the PID file open, and who its lock. *)

\* The lock goes with the open file.
HolderHasFile == \A i \in Inode : holder[i] # Nobody => fd[holder[i]] = i

\* Before open there is no file.
NoFileEarly ==
  \A p \in Proc : pc[p] \in {"down", "fork", "stat", "mkdir", "open"} => fd[p] = NoFile

\* Only a daemon comes through daemonize.
DaemonPrepares ==
  \A p \in Proc :
    pc[p] \in {"fork", "stat", "mkdir", "open", "flock", "fdopen", "write"} => daemon[p]

\* Nobody gets past fdopen without the file.
DaemonHasFile ==
  \A p \in Proc :
    daemon[p] /\ pc[p] \in {"write", "listen", "bound", "serving", "stop_server"}
      => fd[p] # NoFile

\* A file that is open and not yet locked is the one that is linked.
FileStays ==
  LockGood => \A p \in Proc : pc[p] = "flock" /\ fd[p] # NoFile => fd[p] = file

\* A daemon that has the file after flock has the lock on the one that is linked.
HolderHolds ==
  LockGood =>
    \A p \in Proc :
      /\ daemon[p]
      /\ pc[p] \in {"fdopen", "write", "listen", "bound", "serving", "stop_server"}
      /\ fd[p] # NoFile
      => fd[p] = file /\ holder[fd[p]] = p

LockInv == /\ HolderHasFile /\ NoFileEarly /\ DaemonPrepares /\ DaemonHasFile
           /\ FileStays /\ HolderHolds

\* Who listens is a process.  When every process gives back the port before the
\* lock, all of them are daemons, and who listens still has the lock.
ListenerHolds ==
  /\ listener # Nobody => Running(listener)
  /\ "port" \notin mishaps => \A p \in Proc : Running(p) => daemon[p]
  /\ LockGood /\ "port" \notin mishaps /\ listener # Nobody
       => daemon[listener] /\ pc[listener] \in {"bound", "serving", "stop_server"}

-----------------------------------------------------------------------------
(* Types. *)

\* As there are as many files as processes, a process without a file finds one
\* that is neither open nor linked, when none is linked.
LEMMA NewFileIsNew ==
  ASSUME TypeOK, NEW p \in Proc, fd[p] = NoFile, file = NoFile
  PROVE  NewFile \in Inode /\ NewFile # file /\ \A q \in Proc : fd[q] # NewFile
<1> DEFINE Others == Proc \ {p}
           Open   == {fd[q] : q \in Others}
           f      == [q \in Others |-> fd[q]]
<1>1. IsFiniteSet(Others) /\ Cardinality(Others) = Cardinality(Proc) - 1
  BY FS_RemoveElement, DaemonAssumption
<1>2. f \in Surjection(Others, Open)
  BY DEF Surjection
<1>3. IsFiniteSet(Open) /\ Cardinality(Open) <= Cardinality(Others)
  <2> HIDE DEF Others, Open, f
  <2>1. QED
    BY <1>1, <1>2, FS_Surjection
<1>4. Cardinality(Open) < Cardinality(Inode)
  <2>1. Cardinality(Open) \in Nat /\ Cardinality(Proc) \in Nat /\ Cardinality(Inode) \in Nat
    BY <1>3, FS_CardinalityType, DaemonAssumption
  <2>2. QED
    BY <1>1, <1>3, <2>1, DaemonAssumption
<1>5. PICK i \in Inode : i \notin Open
  <2>1. SUFFICES ASSUME Inode \subseteq Open PROVE FALSE
    OBVIOUS
  <2>2. Cardinality(Inode) <= Cardinality(Open)
    <3> HIDE DEF Open
    <3>1. QED
      BY <1>3, <2>1, FS_Subset
  <2>3. Cardinality(Open) \in Nat /\ Cardinality(Inode) \in Nat
    BY <1>3, FS_CardinalityType, DaemonAssumption
  <2>4. QED
    BY <1>4, <2>2, <2>3
<1>6. i # file /\ \A q \in Proc : fd[q] # i
  BY <1>5, DaemonAssumption
<1>7. QED
  BY <1>6 DEF NewFile

\* Every step keeps the types.  That nobody has a file before open is what lets
\* OpenPid find a new one.
LEMMA StepType == TypeOK /\ LockInv /\ [Next]_vars => TypeOK'
<1> SUFFICES ASSUME TypeOK, LockInv, [Next]_vars PROVE TypeOK'
  OBVIOUS
<1> USE DEF TypeOK, PCs, Stopping, GoTo, Mishap, Mishaps, Dirs, fileVars
<1>0. "null" \in Streams /\ "open" \in Streams /\ "error" \in Streams
  BY DEF Streams
<1>e. ASSUME NEW p \in Proc, NEW m \in SUBSET Mishaps, Ends(p, m),
             UNCHANGED <<dir, file, first_line>>
      PROVE  TypeOK'
  <2>1. holder' \in [Inode -> Proc \cup {Nobody}]
    BY <1>e DEF Ends, Unheld
  <2>2. QED
    BY <1>e, <2>1, <1>0 DEF Ends
<1>f. ASSUME NEW p \in Proc, NEW call, Fails(p, call), UNCHANGED <<dir, file, first_line>>
      PROVE  TypeOK'
  BY <1>f, <1>e DEF Fails
<1>s. ASSUME NEW p \in Proc, NEW d \in BOOLEAN, NEW from \in Dirs, Start(p, d, from)
      PROVE  TypeOK'
  BY <1>s DEF Start
<1>1. ASSUME NEW p \in Proc, Fork(p) PROVE TypeOK'
  BY <1>1, <1>f DEF Fork
<1>2. ASSUME NEW p \in Proc, Stat(p) PROVE TypeOK'
  BY <1>2 DEF Stat
<1>3. ASSUME NEW p \in Proc, MkDir(p) PROVE TypeOK'
  BY <1>3, <1>e, <1>f DEF MkDir
<1>4. ASSUME NEW p \in Proc, OpenPid(p) PROVE TypeOK'
  <2>1. CASE file = NoFile
    <3>1. fd[p] = NoFile
      BY <1>4 DEF OpenPid, LockInv, NoFileEarly
    <3>2. NewFile \in Inode
      BY <2>1, <3>1, NewFileIsNew
    <3>3. CASE /\ file' = NewFile
               /\ fd' = [fd EXCEPT ![p] = NewFile]
               /\ first_line' = [first_line EXCEPT ![NewFile] = Nobody]
               /\ UNCHANGED mishaps
      BY <1>4, <3>2, <3>3 DEF OpenPid
    <3>4. CASE Mishap("stopped") /\ UNCHANGED <<fd, file, first_line>>
      BY <1>4, <3>4 DEF OpenPid
    <3>5. QED
      BY <1>4, <2>1, <3>3, <3>4 DEF OpenPid
  <2>2. CASE file # NoFile
    BY <1>4, <2>2 DEF OpenPid
  <2>3. QED
    BY <2>1, <2>2
<1>5. ASSUME NEW p \in Proc, Flock(p) PROVE TypeOK'
  <2>1. CASE Ends(p, {}) /\ UNCHANGED <<dir, file, first_line>>
    BY <2>1, <1>e
  <2>2. CASE /\ holder' = [holder EXCEPT ![fd[p]] = p]
             /\ GoTo(p, "fdopen")
             /\ UNCHANGED <<daemon, cwd, fd, stream, dir, file, first_line, listener, mishaps>>
    BY <2>2
  <2>3. CASE GoTo(p, "fdopen") /\ UNCHANGED <<daemon, cwd, fd, stream, fileVars, listener, mishaps>>
    BY <2>3
  <2>4. CASE /\ GoTo(p, "fdopen") /\ Mishap("lock")
             /\ UNCHANGED <<daemon, cwd, fd, stream, fileVars, listener>>
    BY <2>4
  <2>5. QED
    BY <1>5, <2>1, <2>2, <2>3, <2>4, Zenon DEF Flock
<1>6. ASSUME NEW p \in Proc, Fdopen(p) PROVE TypeOK'
  <2>1. CASE /\ stream' = [stream EXCEPT ![p] = "open"]
             /\ GoTo(p, "write")
             /\ UNCHANGED <<daemon, cwd, fd, fileVars, listener, mishaps>>
    BY <2>1, <1>0
  <2>2. CASE Ends(p, {}) /\ UNCHANGED <<dir, file, first_line>>
    BY <2>2, <1>e
  <2>3. CASE Fails(p, "fdopen") /\ UNCHANGED <<dir, file, first_line>>
    BY <2>3, <1>f
  <2>4. QED
    BY <1>6, <2>1, <2>2, <2>3, Zenon DEF Fdopen
<1>7. ASSUME NEW p \in Proc, WritePid(p) PROVE TypeOK'
  BY <1>7, <1>0 DEF WritePid
<1>8. ASSUME NEW p \in Proc, Listen(p) PROVE TypeOK'
  BY <1>8 DEF Listen
<1>9. ASSUME NEW p \in Proc, Serve(p) PROVE TypeOK'
  BY <1>9 DEF Serve
<1>10. ASSUME NEW p \in Proc, StopServer(p) PROVE TypeOK'
  BY <1>10 DEF StopServer
<1>11. ASSUME NEW p \in Proc, Unlock(p) PROVE TypeOK'
  <2>1. holder' \in [Inode -> Proc \cup {Nobody}]
    BY <1>11 DEF Unlock, Unheld
  <2>2. QED
    BY <1>11, <2>1, <1>0 DEF Unlock
<1>12. ASSUME NEW p \in Proc, Unlink(p) PROVE TypeOK'
  BY <1>12 DEF Unlink
<1>13. ASSUME NEW p \in Proc, Exit(p) PROVE TypeOK'
  BY <1>13, <1>e DEF Exit
<1>14. ASSUME NEW p \in Proc, ClosePid(p) PROVE TypeOK'
  <2>1. holder' \in [Inode -> Proc \cup {Nobody}]
    BY <1>14 DEF ClosePid, Unheld
  <2>2. QED
    BY <1>14, <2>1 DEF ClosePid
<1>15. ASSUME NEW p \in Proc, Dies(p) PROVE TypeOK'
  BY <1>15, <1>e DEF Dies
<1>16. ASSUME NEW p \in Proc, Signal(p) PROVE TypeOK'
  BY <1>16 DEF Signal
<1>17. ASSUME NEW p \in Proc, Kill(p) PROVE TypeOK'
  BY <1>17 DEF Kill
<1>18. CASE UNCHANGED vars
  BY <1>18 DEF vars, procVars
<1>19. QED
  BY <1>s, <1>1, <1>2, <1>3, <1>4, <1>5, <1>6, <1>7, <1>8, <1>9, <1>10, <1>11,
     <1>12, <1>13, <1>14, <1>15, <1>16, <1>17, <1>18 DEF Next, Proceeds
-----------------------------------------------------------------------------
(* The lock. *)

\* Every step keeps who has which file and which lock: only flock gives a lock,
\* and what ends a process or closes its file takes it away.
LEMMA StepLock == TypeOK /\ LockInv /\ [Next]_vars => LockInv'
<1> SUFFICES ASSUME TypeOK, LockInv, [Next]_vars PROVE LockInv'
  OBVIOUS
<1> USE DaemonAssumption
    DEF TypeOK, GoTo, fileVars, LockInv, HolderHasFile, NoFileEarly, DaemonPrepares,
        DaemonHasFile, FileStays, HolderHolds, LockGood, Mishap
<1>e. ASSUME NEW p \in Proc, NEW m \in SUBSET Mishaps, Ends(p, m),
             UNCHANGED <<dir, file, first_line>>
      PROVE  LockInv'
  BY <1>e DEF Ends, Unheld
<1>f. ASSUME NEW p \in Proc, NEW call, Fails(p, call), UNCHANGED <<dir, file, first_line>>
      PROVE  LockInv'
  <2>1. Ends(p, {"stopped"}) /\ {"stopped"} \in SUBSET Mishaps
    BY <1>f DEF Fails, Mishaps
  <2>2. QED
    BY <1>f, <2>1, <1>e
<1>s. ASSUME NEW p \in Proc, NEW d \in BOOLEAN, NEW from \in Dirs, Start(p, d, from)
      PROVE  LockInv'
  BY <1>s DEF Start, Running
<1>1. ASSUME NEW p \in Proc, Fork(p) PROVE LockInv'
  BY <1>1, <1>f DEF Fork
<1>2. ASSUME NEW p \in Proc, Stat(p) PROVE LockInv'
  BY <1>2 DEF Stat
<1>3. ASSUME NEW p \in Proc, MkDir(p) PROVE LockInv'
  BY <1>3, <1>e, <1>f DEF MkDir
<1>4. ASSUME NEW p \in Proc, OpenPid(p) PROVE LockInv'
  <2>1. CASE file = NoFile
    BY <1>4, <2>1, NewFileIsNew DEF OpenPid
  <2>2. CASE file # NoFile
    BY <1>4, <2>2 DEF OpenPid
  <2>3. QED
    BY <2>1, <2>2
<1>5. ASSUME NEW p \in Proc, Flock(p) PROVE LockInv'
  <2>1. CASE Ends(p, {}) /\ UNCHANGED <<dir, file, first_line>>
    BY <2>1, <1>e
  <2>2. CASE /\ fd[p] # NoFile /\ holder[fd[p]] = Nobody
             /\ holder' = [holder EXCEPT ![fd[p]] = p]
             /\ GoTo(p, "fdopen")
             /\ UNCHANGED <<daemon, cwd, fd, stream, dir, file, first_line, listener, mishaps>>
    BY <1>5, <2>2 DEF Flock
  <2>3. CASE /\ fd[p] = NoFile
             /\ GoTo(p, "fdopen")
             /\ UNCHANGED <<daemon, cwd, fd, stream, fileVars, listener, mishaps>>
    BY <1>5, <2>3 DEF Flock
  <2>4. CASE /\ GoTo(p, "fdopen") /\ Mishap("lock")
             /\ UNCHANGED <<daemon, cwd, fd, stream, fileVars, listener>>
    BY <1>5, <2>4 DEF Flock
  <2>5. QED
    BY <1>5, <2>1, <2>2, <2>3, <2>4, Zenon DEF Flock
<1>6. ASSUME NEW p \in Proc, Fdopen(p) PROVE LockInv'
  BY <1>6, <1>e, <1>f DEF Fdopen
<1>7. ASSUME NEW p \in Proc, WritePid(p) PROVE LockInv'
  BY <1>7 DEF WritePid
<1>8. ASSUME NEW p \in Proc, Listen(p) PROVE LockInv'
  BY <1>8 DEF Listen
<1>9. ASSUME NEW p \in Proc, Serve(p) PROVE LockInv'
  BY <1>9 DEF Serve
<1>10. ASSUME NEW p \in Proc, StopServer(p) PROVE LockInv'
  BY <1>10 DEF StopServer
<1>11. ASSUME NEW p \in Proc, Unlock(p) PROVE LockInv'
  BY <1>11 DEF Unlock, Unheld
<1>12. ASSUME NEW p \in Proc, Unlink(p) PROVE LockInv'
  BY <1>12 DEF Unlink
<1>13. ASSUME NEW p \in Proc, Exit(p) PROVE LockInv'
  BY <1>13, <1>e DEF Exit
<1>14. ASSUME NEW p \in Proc, ClosePid(p) PROVE LockInv'
  BY <1>14 DEF ClosePid, Unheld
<1>15. ASSUME NEW p \in Proc, Dies(p) PROVE LockInv'
  BY <1>15, <1>e DEF Dies
<1>16. ASSUME NEW p \in Proc, Signal(p) PROVE LockInv'
  BY <1>16 DEF Signal, Running
<1>17. ASSUME NEW p \in Proc, Kill(p) PROVE LockInv'
  BY <1>17 DEF Kill
<1>18. CASE UNCHANGED vars
  BY <1>18 DEF vars, procVars
<1>19. QED
  BY <1>s, <1>1, <1>2, <1>3, <1>4, <1>5, <1>6, <1>7, <1>8, <1>9, <1>10, <1>11,
     <1>12, <1>13, <1>14, <1>15, <1>16, <1>17, <1>18 DEF Next, Proceeds
-----------------------------------------------------------------------------
(* What the PID file says, and who listens. *)

\* Only who has the lock writes into the file, and the file stays as long as
\* somebody has it.
LEMMA StepPidFile ==
  TypeOK /\ LockInv /\ PidFileNamesDaemon /\ [Next]_vars => PidFileNamesDaemon'
<1> SUFFICES ASSUME TypeOK, LockInv, PidFileNamesDaemon, [Next]_vars
             PROVE  PidFileNamesDaemon'
  OBVIOUS
<1> USE DaemonAssumption
    DEF TypeOK, GoTo, fileVars, LockInv, HolderHasFile, NoFileEarly, DaemonPrepares,
        DaemonHasFile, FileStays, HolderHolds, LockGood, Mishap, PidFileNamesDaemon, Daemonized
<1>e. ASSUME NEW p \in Proc, NEW m \in SUBSET Mishaps, Ends(p, m),
             UNCHANGED <<dir, file, first_line>>
      PROVE  PidFileNamesDaemon'
  BY <1>e DEF Ends, Unheld
<1>f. ASSUME NEW p \in Proc, NEW call, Fails(p, call), UNCHANGED <<dir, file, first_line>>
      PROVE  PidFileNamesDaemon'
  <2>1. Ends(p, {"stopped"}) /\ {"stopped"} \in SUBSET Mishaps
    BY <1>f DEF Fails, Mishaps
  <2>2. QED
    BY <1>f, <2>1, <1>e
<1>s. ASSUME NEW p \in Proc, NEW d \in BOOLEAN, NEW from \in Dirs, Start(p, d, from)
      PROVE  PidFileNamesDaemon'
  BY <1>s DEF Start, Running
<1>1. ASSUME NEW p \in Proc, Fork(p) PROVE PidFileNamesDaemon'
  BY <1>1, <1>f DEF Fork
<1>2. ASSUME NEW p \in Proc, Stat(p) PROVE PidFileNamesDaemon'
  BY <1>2 DEF Stat
<1>3. ASSUME NEW p \in Proc, MkDir(p) PROVE PidFileNamesDaemon'
  BY <1>3, <1>e, <1>f DEF MkDir
<1>4. ASSUME NEW p \in Proc, OpenPid(p) PROVE PidFileNamesDaemon'
  BY <1>4 DEF OpenPid
<1>5. ASSUME NEW p \in Proc, Flock(p) PROVE PidFileNamesDaemon'
  BY <1>5, <1>e DEF Flock
<1>6. ASSUME NEW p \in Proc, Fdopen(p) PROVE PidFileNamesDaemon'
  BY <1>6, <1>e, <1>f DEF Fdopen
<1>7. ASSUME NEW p \in Proc, WritePid(p) PROVE PidFileNamesDaemon'
  BY <1>7 DEF WritePid
<1>8. ASSUME NEW p \in Proc, Listen(p) PROVE PidFileNamesDaemon'
  BY <1>8 DEF Listen
<1>9. ASSUME NEW p \in Proc, Serve(p) PROVE PidFileNamesDaemon'
  BY <1>9 DEF Serve
<1>10. ASSUME NEW p \in Proc, StopServer(p) PROVE PidFileNamesDaemon'
  BY <1>10 DEF StopServer
<1>11. ASSUME NEW p \in Proc, Unlock(p) PROVE PidFileNamesDaemon'
  BY <1>11 DEF Unlock, Unheld
<1>12. ASSUME NEW p \in Proc, Unlink(p) PROVE PidFileNamesDaemon'
  BY <1>12 DEF Unlink
<1>13. ASSUME NEW p \in Proc, Exit(p) PROVE PidFileNamesDaemon'
  BY <1>13, <1>e DEF Exit
<1>14. ASSUME NEW p \in Proc, ClosePid(p) PROVE PidFileNamesDaemon'
  BY <1>14 DEF ClosePid, Unheld
<1>15. ASSUME NEW p \in Proc, Dies(p) PROVE PidFileNamesDaemon'
  BY <1>15, <1>e DEF Dies
<1>16. ASSUME NEW p \in Proc, Signal(p) PROVE PidFileNamesDaemon'
  BY <1>16 DEF Signal, Running
<1>17. ASSUME NEW p \in Proc, Kill(p) PROVE PidFileNamesDaemon'
  BY <1>17 DEF Kill
<1>18. CASE UNCHANGED vars
  BY <1>18 DEF vars, procVars
<1>19. QED
  BY <1>s, <1>1, <1>2, <1>3, <1>4, <1>5, <1>6, <1>7, <1>8, <1>9, <1>10, <1>11,
     <1>12, <1>13, <1>14, <1>15, <1>16, <1>17, <1>18 DEF Next, Proceeds

\* The port is taken by a process that has the lock and given back before it.
LEMMA StepListener ==
  TypeOK /\ LockInv /\ ListenerHolds /\ [Next]_vars => ListenerHolds'
<1> SUFFICES ASSUME TypeOK, LockInv, ListenerHolds, [Next]_vars
             PROVE  ListenerHolds'
  OBVIOUS
<1> USE DaemonAssumption
    DEF TypeOK, GoTo, fileVars, LockInv, HolderHasFile, NoFileEarly, DaemonPrepares,
        DaemonHasFile, FileStays, HolderHolds, LockGood, Mishap, ListenerHolds, Running
<1>e. ASSUME NEW p \in Proc, NEW m \in SUBSET Mishaps, Ends(p, m),
             UNCHANGED <<dir, file, first_line>>
      PROVE  ListenerHolds'
  BY <1>e DEF Ends, Unheld
<1>f. ASSUME NEW p \in Proc, NEW call, Fails(p, call), UNCHANGED <<dir, file, first_line>>
      PROVE  ListenerHolds'
  <2>1. Ends(p, {"stopped"}) /\ {"stopped"} \in SUBSET Mishaps
    BY <1>f DEF Fails, Mishaps
  <2>2. QED
    BY <1>f, <2>1, <1>e
<1>s. ASSUME NEW p \in Proc, NEW d \in BOOLEAN, NEW from \in Dirs, Start(p, d, from)
      PROVE  ListenerHolds'
  BY <1>s DEF Start
<1>1. ASSUME NEW p \in Proc, Fork(p) PROVE ListenerHolds'
  BY <1>1, <1>f DEF Fork
<1>2. ASSUME NEW p \in Proc, Stat(p) PROVE ListenerHolds'
  BY <1>2 DEF Stat
<1>3. ASSUME NEW p \in Proc, MkDir(p) PROVE ListenerHolds'
  BY <1>3, <1>e, <1>f DEF MkDir
<1>4. ASSUME NEW p \in Proc, OpenPid(p) PROVE ListenerHolds'
  BY <1>4 DEF OpenPid
<1>5. ASSUME NEW p \in Proc, Flock(p) PROVE ListenerHolds'
  BY <1>5, <1>e DEF Flock
<1>6. ASSUME NEW p \in Proc, Fdopen(p) PROVE ListenerHolds'
  BY <1>6, <1>e, <1>f DEF Fdopen
<1>7. ASSUME NEW p \in Proc, WritePid(p) PROVE ListenerHolds'
  BY <1>7 DEF WritePid
<1>8. ASSUME NEW p \in Proc, Listen(p) PROVE ListenerHolds'
  BY <1>8 DEF Listen
<1>9. ASSUME NEW p \in Proc, Serve(p) PROVE ListenerHolds'
  BY <1>9 DEF Serve
<1>10. ASSUME NEW p \in Proc, StopServer(p) PROVE ListenerHolds'
  BY <1>10 DEF StopServer
<1>11. ASSUME NEW p \in Proc, Unlock(p) PROVE ListenerHolds'
  BY <1>11 DEF Unlock, Unheld
<1>12. ASSUME NEW p \in Proc, Unlink(p) PROVE ListenerHolds'
  BY <1>12 DEF Unlink
<1>13. ASSUME NEW p \in Proc, Exit(p) PROVE ListenerHolds'
  BY <1>13, <1>e DEF Exit
<1>14. ASSUME NEW p \in Proc, ClosePid(p) PROVE ListenerHolds'
  BY <1>14 DEF ClosePid, Unheld
<1>15. ASSUME NEW p \in Proc, Dies(p) PROVE ListenerHolds'
  BY <1>15, <1>e DEF Dies
<1>16. ASSUME NEW p \in Proc, Signal(p) PROVE ListenerHolds'
  BY <1>16 DEF Signal, Running
<1>17. ASSUME NEW p \in Proc, Kill(p) PROVE ListenerHolds'
  BY <1>17 DEF Kill
<1>18. CASE UNCHANGED vars
  BY <1>18 DEF vars, procVars
<1>19. QED
  BY <1>s, <1>1, <1>2, <1>3, <1>4, <1>5, <1>6, <1>7, <1>8, <1>9, <1>10, <1>11,
     <1>12, <1>13, <1>14, <1>15, <1>16, <1>17, <1>18 DEF Next, Proceeds

\* So the port is free when a daemon asks for it, and stays its own.
LEMMA StepListens ==
  TypeOK /\ LockInv /\ ListenerHolds /\ DaemonListens /\ [Next]_vars => DaemonListens'
<1> SUFFICES ASSUME TypeOK, LockInv, ListenerHolds, DaemonListens, [Next]_vars
             PROVE  DaemonListens'
  OBVIOUS
<1> USE DaemonAssumption
    DEF TypeOK, GoTo, fileVars, LockInv, HolderHasFile, NoFileEarly, DaemonPrepares,
        DaemonHasFile, FileStays, HolderHolds, LockGood, Mishap, ListenerHolds, DaemonListens
<1>e. ASSUME NEW p \in Proc, NEW m \in SUBSET Mishaps, Ends(p, m),
             UNCHANGED <<dir, file, first_line>>
      PROVE  DaemonListens'
  BY <1>e DEF Ends, Unheld
<1>f. ASSUME NEW p \in Proc, NEW call, Fails(p, call), UNCHANGED <<dir, file, first_line>>
      PROVE  DaemonListens'
  <2>1. Ends(p, {"stopped"}) /\ {"stopped"} \in SUBSET Mishaps
    BY <1>f DEF Fails, Mishaps
  <2>2. QED
    BY <1>f, <2>1, <1>e
<1>s. ASSUME NEW p \in Proc, NEW d \in BOOLEAN, NEW from \in Dirs, Start(p, d, from)
      PROVE  DaemonListens'
  BY <1>s DEF Start, Running
<1>1. ASSUME NEW p \in Proc, Fork(p) PROVE DaemonListens'
  BY <1>1, <1>f DEF Fork
<1>2. ASSUME NEW p \in Proc, Stat(p) PROVE DaemonListens'
  BY <1>2 DEF Stat
<1>3. ASSUME NEW p \in Proc, MkDir(p) PROVE DaemonListens'
  BY <1>3, <1>e, <1>f DEF MkDir
<1>4. ASSUME NEW p \in Proc, OpenPid(p) PROVE DaemonListens'
  BY <1>4 DEF OpenPid
<1>5. ASSUME NEW p \in Proc, Flock(p) PROVE DaemonListens'
  BY <1>5, <1>e DEF Flock
<1>6. ASSUME NEW p \in Proc, Fdopen(p) PROVE DaemonListens'
  BY <1>6, <1>e, <1>f DEF Fdopen
<1>7. ASSUME NEW p \in Proc, WritePid(p) PROVE DaemonListens'
  BY <1>7 DEF WritePid
<1>8. ASSUME NEW p \in Proc, Listen(p) PROVE DaemonListens'
  BY <1>8 DEF Listen
<1>9. ASSUME NEW p \in Proc, Serve(p) PROVE DaemonListens'
  BY <1>9 DEF Serve
<1>10. ASSUME NEW p \in Proc, StopServer(p) PROVE DaemonListens'
  BY <1>10 DEF StopServer
<1>11. ASSUME NEW p \in Proc, Unlock(p) PROVE DaemonListens'
  BY <1>11 DEF Unlock, Unheld
<1>12. ASSUME NEW p \in Proc, Unlink(p) PROVE DaemonListens'
  BY <1>12 DEF Unlink
<1>13. ASSUME NEW p \in Proc, Exit(p) PROVE DaemonListens'
  BY <1>13, <1>e DEF Exit
<1>14. ASSUME NEW p \in Proc, ClosePid(p) PROVE DaemonListens'
  BY <1>14 DEF ClosePid, Unheld
<1>15. ASSUME NEW p \in Proc, Dies(p) PROVE DaemonListens'
  BY <1>15, <1>e DEF Dies
<1>16. ASSUME NEW p \in Proc, Signal(p) PROVE DaemonListens'
  BY <1>16 DEF Signal, Running
<1>17. ASSUME NEW p \in Proc, Kill(p) PROVE DaemonListens'
  BY <1>17 DEF Kill
<1>18. CASE UNCHANGED vars
  BY <1>18 DEF vars, procVars
<1>19. QED
  BY <1>s, <1>1, <1>2, <1>3, <1>4, <1>5, <1>6, <1>7, <1>8, <1>9, <1>10, <1>11,
     <1>12, <1>13, <1>14, <1>15, <1>16, <1>17, <1>18 DEF Next, Proceeds
-----------------------------------------------------------------------------
(* Who quits. *)

\* Daemons that are past the directory, and that have asked for the lock.
PastDir(p) ==
  /\ daemon[p]
  /\ pc[p] \in {"open", "flock", "fdopen", "write", "listen", "bound", "serving"}
PastLock(p) == PastDir(p) /\ pc[p] \notin {"open", "flock"}

\* As long as no process has been stopped, a lock is held by a daemon that goes on
\* to serve, every daemon has a file to lock, and a directory that has come up
\* behind the back of one daemon was made for the sake of another one.
QuitInv ==
  "stopped" \notin mishaps =>
    /\ \A p \in Proc : pc[p] \notin Stopping \cup {"dying"}
    /\ \A i \in Inode : holder[i] # Nobody => PastLock(holder[i])
    /\ \A p \in Proc : pc[p] \in {"flock", "fdopen"} => fd[p] # NoFile
    /\ dir => \A p \in Proc : pc[p] = "mkdir" => \E q \in Proc : PastDir(q)

\* A daemon that ends leaves another one, or something has failed.
LEMMA EndsQuit ==
  ASSUME TypeOK, LockInv, QuitInv, NEW p \in Proc, NEW m \in SUBSET Mishaps, Ends(p, m),
         UNCHANGED <<dir, file, first_line>>,
         "stopped" \in m \cup mishaps \/ \E q \in Proc \ {p} : PastDir(q)
  PROVE  QuitInv' /\ ("stopped" \notin mishaps' => \E q \in Proc : UnderWay(q)')
<1>1. CASE "stopped" \in m
  BY <1>1 DEF Ends, QuitInv
<1>2. CASE "stopped" \notin mishaps /\ \E q \in Proc \ {p} : PastDir(q)
  <2>1. PICK q \in Proc \ {p} : PastDir(q)
    BY <1>2
  <2>2. PastDir(q)'
    BY <2>1 DEF Ends, PastDir, GoTo, TypeOK
  <2>3. /\ pc' = [pc EXCEPT ![p] = "down"] /\ fd' = [fd EXCEPT ![p] = NoFile]
        /\ daemon' = [daemon EXCEPT ![p] = FALSE] /\ dir' = dir
        /\ holder' = [i \in Inode |-> IF holder[i] = p THEN Nobody ELSE holder[i]]
    BY DEF Ends, GoTo, Unheld
  <2>4. QuitInv'
    <3>1. \A u \in Proc : pc'[u] \notin Stopping \cup {"dying"}
      BY <1>2, <2>3 DEF QuitInv, TypeOK, Stopping
    <3>2. \A i \in Inode : holder'[i] # Nobody => PastLock(holder[i])'
      BY <1>2, <2>3, DaemonAssumption DEF QuitInv, TypeOK, PastLock, PastDir
    <3>3. \A u \in Proc : pc'[u] \in {"flock", "fdopen"} => fd'[u] # NoFile
      BY <1>2, <2>3 DEF QuitInv, TypeOK
    <3>4. QED
      BY <2>2, <3>1, <3>2, <3>3 DEF QuitInv
  <2>5. UnderWay(q)'
    BY <2>2 DEF PastDir, UnderWay, Running, Stopping
  <2>6. QED
    BY <2>4, <2>5
<1>3. CASE "stopped" \in mishaps
  BY <1>3 DEF Ends, QuitInv
<1>4. QED
  BY <1>1, <1>2, <1>3

\* A step that ends no process leaves everybody under way who was.
Stays == \A p \in Proc : UnderWay(p) => UnderWay(p)' \/ "stopped" \in mishaps'

\* Every step keeps this, and leaves a daemon under way if there was one.
LEMMA StepQuit ==
  TypeOK /\ LockInv /\ QuitInv /\ [Next]_vars
    => /\ QuitInv'
       /\ (\E p \in Proc : UnderWay(p)) /\ "stopped" \notin mishaps'
            => \E p \in Proc : UnderWay(p)'
<1> DEFINE Goal == /\ QuitInv'
                   /\ (\E p \in Proc : UnderWay(p)) /\ "stopped" \notin mishaps'
                        => \E p \in Proc : UnderWay(p)'
<1> SUFFICES ASSUME TypeOK, LockInv, QuitInv, [Next]_vars PROVE Goal
  OBVIOUS
<1>e. ASSUME NEW p \in Proc, NEW m \in SUBSET Mishaps, Ends(p, m),
             UNCHANGED <<dir, file, first_line>>,
             "stopped" \in m \cup mishaps \/ \E q \in Proc \ {p} : PastDir(q)
      PROVE  Goal
  BY <1>e, EndsQuit
<1>f. ASSUME NEW p \in Proc, NEW call, Fails(p, call), UNCHANGED <<dir, file, first_line>>
      PROVE  Goal
  <2>1. Ends(p, {"stopped"}) /\ {"stopped"} \in SUBSET Mishaps
    BY <1>f DEF Fails, Mishaps
  <2>2. QED
    BY <1>f, <2>1, <1>e
<1>g. ASSUME QuitInv', Stays PROVE Goal
  BY <1>g DEF Stays
<1> HIDE DEF Goal
<1> USE DaemonAssumption
    DEF TypeOK, GoTo, fileVars, LockInv, HolderHasFile, NoFileEarly, DaemonPrepares,
        Mishap, QuitInv, PastDir, PastLock, Stays, UnderWay, Running, Stopping
<1>s. ASSUME NEW p \in Proc, NEW d \in BOOLEAN, NEW from \in Dirs, Start(p, d, from)
      PROVE  Goal
  BY <1>s, <1>g DEF Start
<1>1. ASSUME NEW p \in Proc, Fork(p) PROVE Goal
  BY <1>1, <1>f, <1>g DEF Fork
<1>2. ASSUME NEW p \in Proc, Stat(p) PROVE Goal
  BY <1>2, <1>g DEF Stat
<1>3. ASSUME NEW p \in Proc, MkDir(p) PROVE Goal
  <2>1. CASE /\ pc[p] = "mkdir" /\ dir' = TRUE /\ GoTo(p, "open")
             /\ UNCHANGED <<daemon, cwd, fd, stream, file, holder, first_line, listener, mishaps>>
    <3>1. PastDir(p)'
      BY <2>1
    <3>2. Stays
      BY <2>1
    <3>3. QuitInv'
      BY <2>1, <3>1
    <3>4. QED
      BY <1>g, <3>2, <3>3
  <2>2. CASE pc[p] = "mkdir" /\ dir /\ Ends(p, {}) /\ UNCHANGED <<dir, file, first_line>>
    <3>1. "stopped" \in mishaps \/ \E q \in Proc \ {p} : PastDir(q)
      BY <2>2
    <3>2. QED
      BY <2>2, <3>1, <1>e
  <2>3. CASE Fails(p, "mkdir") /\ UNCHANGED <<dir, file, first_line>>
    BY <2>3, <1>f
  <2>4. QED
    BY <1>3, <2>1, <2>2, <2>3 DEF MkDir
<1>4. ASSUME NEW p \in Proc, OpenPid(p) PROVE Goal
  <2>1. CASE Mishap("stopped") /\ UNCHANGED <<fd, file, first_line>>
    BY <1>4, <2>1, <1>g DEF OpenPid
  <2>2. CASE /\ file # NoFile /\ fd' = [fd EXCEPT ![p] = file]
             /\ UNCHANGED <<file, first_line, mishaps>>
    BY <1>4, <2>2, <1>g DEF OpenPid
  <2>3. CASE /\ file = NoFile /\ fd' = [fd EXCEPT ![p] = NewFile] /\ UNCHANGED mishaps
    <3>1. fd[p] = NoFile
      BY <1>4 DEF OpenPid
    <3>2. NewFile \in Inode
      BY <2>3, <3>1, NewFileIsNew
    <3>3. QED
      BY <1>4, <2>3, <3>2, <1>g DEF OpenPid
  <2>4. QED
    BY <1>4, <2>1, <2>2, <2>3 DEF OpenPid
<1>5. ASSUME NEW p \in Proc, Flock(p) PROVE Goal
  <2>1. CASE /\ pc[p] = "flock" /\ fd[p] # NoFile /\ holder[fd[p]] # Nobody
             /\ Ends(p, {}) /\ UNCHANGED <<dir, file, first_line>>
    <3>1. holder[fd[p]] \in Proc
      BY <2>1
    <3>2. "stopped" \in mishaps \/ (PastDir(holder[fd[p]]) /\ holder[fd[p]] # p)
      BY <2>1, <3>1
    <3>3. QED
      BY <2>1, <3>1, <3>2, <1>e
  <2>2. CASE /\ pc[p] = "flock" /\ fd[p] # NoFile
             /\ holder' = [holder EXCEPT ![fd[p]] = p]
             /\ GoTo(p, "fdopen")
             /\ UNCHANGED <<daemon, cwd, fd, stream, dir, file, first_line, listener, mishaps>>
    BY <2>2, <1>g
  <2>3. CASE /\ pc[p] = "flock" /\ GoTo(p, "fdopen") /\ mishaps \subseteq mishaps'
             /\ UNCHANGED <<daemon, cwd, fd, stream, fileVars, listener>>
    BY <2>3, <1>g
  <2>4. QED
    BY <1>5, <2>1, <2>2, <2>3 DEF Flock
<1>6. ASSUME NEW p \in Proc, Fdopen(p) PROVE Goal
  BY <1>6, <1>e, <1>f, <1>g DEF Fdopen
<1>7. ASSUME NEW p \in Proc, WritePid(p) PROVE Goal
  BY <1>7, <1>g DEF WritePid
<1>8. ASSUME NEW p \in Proc, Listen(p) PROVE Goal
  BY <1>8, <1>g DEF Listen
<1>9. ASSUME NEW p \in Proc, Serve(p) PROVE Goal
  BY <1>9, <1>g DEF Serve
<1>10. ASSUME NEW p \in Proc, StopServer(p) PROVE Goal
  BY <1>10, <1>g DEF StopServer
<1>11. ASSUME NEW p \in Proc, Unlock(p) PROVE Goal
  BY <1>11, <1>g DEF Unlock
<1>12. ASSUME NEW p \in Proc, Unlink(p) PROVE Goal
  BY <1>12, <1>g DEF Unlink
<1>13. ASSUME NEW p \in Proc, Exit(p) PROVE Goal
  BY <1>13, <1>g DEF Exit, Ends
<1>14. ASSUME NEW p \in Proc, ClosePid(p) PROVE Goal
  BY <1>14, <1>g DEF ClosePid
<1>15. ASSUME NEW p \in Proc, Dies(p) PROVE Goal
  BY <1>15, <1>g DEF Dies, Ends
<1>16. ASSUME NEW p \in Proc, Signal(p) PROVE Goal
  BY <1>16, <1>g DEF Signal
<1>17. ASSUME NEW p \in Proc, Kill(p) PROVE Goal
  BY <1>17, <1>g DEF Kill
<1>18. CASE UNCHANGED vars
  BY <1>18, <1>g DEF vars, procVars
<1>19. QED
  BY <1>s, <1>1, <1>2, <1>3, <1>4, <1>5, <1>6, <1>7, <1>8, <1>9, <1>10, <1>11,
     <1>12, <1>13, <1>14, <1>15, <1>16, <1>17, <1>18 DEF Next, Proceeds, Goal

-----------------------------------------------------------------------------
(* Theorems. *)

IInv == /\ TypeOK /\ LockInv /\ PidFileNamesDaemon
        /\ ListenerHolds /\ DaemonListens /\ QuitInv

\* The invariant holds at the start, ...
LEMMA InitInv == Init => IInv
<1> SUFFICES ASSUME Init PROVE IInv
  OBVIOUS
<1>1. TypeOK
  BY DEF Init, TypeOK, PCs, Dirs, Mishaps, Streams
<1>2. LockInv
  BY DaemonAssumption DEF Init, LockInv, HolderHasFile, NoFileEarly, DaemonPrepares,
     DaemonHasFile, FileStays, HolderHolds
<1>3. PidFileNamesDaemon /\ DaemonListens /\ ListenerHolds
  BY DEF Init, PidFileNamesDaemon, Daemonized, DaemonListens, ListenerHolds, Running
<1>4. QuitInv
  BY DEF Init, QuitInv, Stopping
<1>5. QED
  BY <1>1, <1>2, <1>3, <1>4 DEF IInv

\* ... every step keeps it, ...
LEMMA StepInv == IInv /\ [Next]_vars => IInv'
BY StepType, StepLock, StepPidFile, StepListener, StepListens, StepQuit DEF IInv

\* ... so it holds always.
LEMMA Invariance == Spec => []IInv
BY InitInv, StepInv, PTL DEF Spec

\* Every variable of Daemon keeps its type.
THEOREM DaemonTypeCorrect == Spec => []TypeOK
<1>1. IInv => TypeOK
  BY DEF IInv
<1>2. QED
  BY <1>1, Invariance, PTL

\* At most one daemon is past daemonize as long as flock does its work and nobody
\* has removed the PID file: two of them would have locked the same file.
THEOREM OneDaemonAtMost == Spec => []AtMostOneDaemon
<1>1. IInv => AtMostOneDaemon
  <2> SUFFICES ASSUME IInv, LockGood,
                      NEW p \in Proc, NEW q \in Proc, Daemonized(p), Daemonized(q)
               PROVE  p = q
    BY DEF AtMostOneDaemon
  <2>1. fd[p] # NoFile /\ fd[q] # NoFile
    BY DEF IInv, LockInv, DaemonHasFile, Daemonized
  <2>2. holder[file] = p /\ holder[file] = q
    BY <2>1 DEF IInv, LockInv, HolderHolds, Daemonized
  <2>3. QED
    BY <2>2
<1>2. QED
  BY <1>1, Invariance, PTL

\* The PID file names the daemon that is at work, under the same condition and
\* unless writing its own PID has failed: only who has the lock writes.
THEOREM PidFileCorrect == Spec => []PidFileNamesDaemon
<1>1. IInv => PidFileNamesDaemon
  BY DEF IInv
<1>2. QED
  BY <1>1, Invariance, PTL

\* A daemon listens on its port although it does not look whether it got it, when
\* besides no mg_set_option has failed for a reason of its own and every process
\* has given back the port before the lock.
THEOREM DaemonGetsPort == Spec => []DaemonListens
<1>1. IInv => DaemonListens
  BY DEF IInv
<1>2. QED
  BY <1>1, Invariance, PTL

\* daemonize: whatever earlier daemons have left and however many are started at
\* once, the last one does not quit unless one has been stopped or a call has failed.
THEOREM LastDaemonStays == Spec => NotAllQuit
<1>1. IInv /\ [Next]_vars
        => [(\E p \in Proc : UnderWay(p)) /\ "stopped" \notin mishaps'
              => \E p \in Proc : UnderWay(p)']_vars
  BY StepQuit DEF IInv
<1>2. QED
  BY <1>1, Invariance, PTL DEF Spec, NotAllQuit
===============================================================================

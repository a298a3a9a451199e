-------------------------------- MODULE Daemon --------------------------------
(***************************************************************************)
(* Several starts of the switcher on one machine (main.c): in the          *)
(* foreground or with -d, from any directory.  A daemon takes the lock on  *)
(* the PID file before it serves; signal_handler gives it back.  Each step *)
(* is one system call that another process can see, the calls in Faults    *)
(* can fail, and a process can be signalled or killed at each of them.     *)
(* What happens to the memory of one process is in Lifecycle.              *)
(***************************************************************************)
EXTENDS Integers, FiniteSets

CONSTANTS
  Proc,    \* the processes
  Inode,   \* the files that can stand for the PID file, one after the other
  NoFile,  \* fh_pid = -1; no PID file
  Nobody,  \* no process
  Faults   \* the calls that may fail

\* "listen" is mg_set_option, "write" the fprintf and fflush of the PID.  Closing
\* a file and giving back a lock have the same effect whatever they return.
Calls == {"fork", "chdir", "stat", "mkdir", "open", "flock", "fdopen", "write",
          "listen", "unlink"}

ASSUME DaemonAssumption ==
  /\ NoFile \notin Inode
  /\ Nobody \notin Proc
  /\ Faults \subseteq Calls
  /\ IsFiniteSet(Proc) /\ IsFiniteSet(Inode)
  /\ Cardinality(Inode) >= Cardinality(Proc)

VARIABLES
  pc,          \* the next call of each process; "down": there is no such process
  daemon,      \* run_as_daemon
  cwd,         \* the working directory
  fd,          \* what fh_pid refers to
  stream,      \* stream_pid
  dir,         \* the directory PID_DIR exists
  file,        \* the file at PID_DIR/PID_FILE, or NoFile
  holder,      \* who has the lock on each file
  first_line,  \* the process that the first line of each file names
  listener,    \* the process that listens on the port
  mishaps      \* history: what has gone wrong since a process was started first

procVars == <<pc, daemon, cwd, fd, stream>>
fileVars == <<dir, file, holder, first_line>>
vars     == <<procVars, fileVars, listener, mishaps>>

\* WORK_DIR, which stands for every directory that is not PID_DIR, and PID_DIR.
Dirs == {"root", "pid_dir"}

\* What can be said of stream_pid; "error" is its error indicator.
Streams == {"null", "open", "error"}

\* "stopped": a process has been signalled or killed, or a call has failed whose
\* failure ends it.  "lock": flock has failed, or the PID file has been removed.
\* "port": mg_set_option has failed for a reason of its own, or a process may give
\* back the port later than the lock, or has no lock: one in the foreground.
Mishaps == {"stopped", "lock", "port"}

\* signal_handler's calls.
Stopping == {"stop_server", "unlock", "unlink", "exit"}

PCs == {"down", "fork", "stat", "mkdir", "open", "flock", "fdopen",
        "write", "listen", "bound", "serving", "dying"} \cup Stopping

Running(p) == pc[p] # "down"

GoTo(p, at)  == pc' = [pc EXCEPT ![p] = at]
Mishap(what) == mishaps' = mishaps \cup {what}

\* The locks as they are when p has closed its file.
Unheld(p) == [i \in Inode |-> IF holder[i] = p THEN Nobody ELSE holder[i]]

\* The process has ended: the kernel closes its files.
Ends(p, mishap) ==
  /\ GoTo(p, "down")
  /\ fd' = [fd EXCEPT ![p] = NoFile]
  /\ holder' = Unheld(p)
  /\ stream' = [stream EXCEPT ![p] = "null"]
  /\ daemon' = [daemon EXCEPT ![p] = FALSE]
  /\ cwd' = [cwd EXCEPT ![p] = "root"]
  /\ listener' = IF listener = p THEN Nobody ELSE listener
  /\ mishaps' = mishaps \cup mishap

\* A call has failed, and the program exits.
Fails(p, call) ==
  /\ call \in Faults
  /\ Ends(p, {"stopped"})

-----------------------------------------------------------------------------
(* main *)

\* The options are known and the configuration is good; when they are not, the
\* program exits and nobody notices.  A process in the foreground takes no lock.
\* When no process has been running, nothing is left of what went wrong.
Start(p, d, from) ==
  /\ pc[p] = "down"
  /\ GoTo(p, IF d THEN "fork" ELSE "listen")
  /\ daemon' = [daemon EXCEPT ![p] = d]
  /\ cwd' = [cwd EXCEPT ![p] = from]
  /\ mishaps' = (IF \E q \in Proc : Running(q) THEN mishaps ELSE {})
                  \cup (IF d THEN {} ELSE {"port"})
  /\ UNCHANGED <<fd, stream, fileVars, listener>>

\* io_init, which reports no failure, then start_http_server, which does not look
\* at what mg_set_option returns: when the port is taken, or cannot be had for
\* another reason, the server listens on none.
Listen(p) ==
  /\ pc[p] = "listen"
  /\ GoTo(p, "bound")
  /\ \/ listener' = (IF listener = Nobody THEN p ELSE listener) /\ UNCHANGED mishaps
     \/ "listen" \in Faults /\ UNCHANGED listener /\ Mishap("port")
  /\ UNCHANGED <<daemon, cwd, fd, stream, fileVars>>

\* http_server is assigned, and the polling begins.
Serve(p) ==
  /\ pc[p] = "bound"
  /\ GoTo(p, "serving")
  /\ UNCHANGED <<daemon, cwd, fd, stream, fileVars, listener, mishaps>>

-----------------------------------------------------------------------------
(* daemonize *)

\* Two forks and setsid between them, then chdir to WORK_DIR, the result of which
\* is ignored.
Fork(p) ==
  \/ /\ pc[p] = "fork"
     /\ GoTo(p, "stat")
     /\ \E at \in {"root", cwd[p]} :
          /\ at = "root" \/ "chdir" \in Faults
          /\ cwd' = [cwd EXCEPT ![p] = at]
     /\ UNCHANGED <<daemon, fd, stream, fileVars, listener, mishaps>>
  \/ /\ pc[p] = "fork"
     /\ Fails(p, "fork")
     /\ UNCHANGED <<dir, file, first_line>>

\* A stat that fails for any reason is taken to mean that there is no directory.
Stat(p) ==
  /\ pc[p] = "stat"
  /\ \/ GoTo(p, IF dir THEN "open" ELSE "mkdir") /\ UNCHANGED mishaps
     \/ "stat" \in Faults /\ GoTo(p, "mkdir") /\ Mishap("stopped")
  /\ UNCHANGED <<daemon, cwd, fd, stream, fileVars, listener>>

\* mkdir fails when another process has made the directory since stat.
MkDir(p) ==
  \/ /\ pc[p] = "mkdir" /\ ~dir
     /\ dir' = TRUE
     /\ GoTo(p, "open")
     /\ UNCHANGED <<daemon, cwd, fd, stream, file, holder, first_line, listener, mishaps>>
  \/ /\ pc[p] = "mkdir" /\ dir
     /\ Ends(p, {})
     /\ UNCHANGED <<dir, file, first_line>>
  \/ /\ pc[p] = "mkdir"
     /\ Fails(p, "mkdir")
     /\ UNCHANGED <<dir, file, first_line>>

\* A file that is neither linked nor open.  There is one as long as there are as
\* many files as processes: p itself has none open.
NewFile == CHOOSE i \in Inode : i # file /\ \A q \in Proc : fd[q] # i

\* (mutant: O_EXCL, a file that is there makes open fail)
OpenPidExclusive(p) ==
  /\ pc[p] = "open"
  /\ GoTo(p, "flock")
  /\ \/ file # NoFile /\ UNCHANGED <<fd, file, first_line>>
     \/ /\ file = NoFile
        /\ file' = NewFile
        /\ fd' = [fd EXCEPT ![p] = NewFile]
        /\ first_line' = [first_line EXCEPT ![NewFile] = Nobody]
  /\ UNCHANGED <<daemon, cwd, stream, dir, holder, listener, mishaps>>

\* A failed open goes unnoticed here: fh_pid is then -1.
OpenPid(p) ==
  /\ pc[p] = "open"
  /\ GoTo(p, "flock")
  /\ \/ /\ file # NoFile
        /\ fd' = [fd EXCEPT ![p] = file]
        /\ UNCHANGED <<file, first_line, mishaps>>
     \/ /\ file = NoFile
        /\ file' = NewFile
        /\ fd' = [fd EXCEPT ![p] = NewFile]
        /\ first_line' = [first_line EXCEPT ![NewFile] = Nobody]
        /\ UNCHANGED mishaps
     \/ /\ "open" \in Faults
        /\ Mishap("stopped")
        /\ UNCHANGED <<fd, file, first_line>>
  /\ UNCHANGED <<daemon, cwd, stream, dir, holder, listener>>

\* (mutant: flock's result is not looked at)
FlockIgnored(p) ==
  /\ pc[p] = "flock"
  /\ GoTo(p, "fdopen")
  /\ UNCHANGED <<daemon, cwd, fd, stream, fileVars, listener, mishaps>>

\* flock(LOCK_EX | LOCK_NB).  Only EWOULDBLOCK makes the program quit: after any
\* other error it goes on without the lock.
Flock(p) ==
  \/ /\ pc[p] = "flock" /\ fd[p] # NoFile
     /\ holder[fd[p]] = Nobody
     /\ holder' = [holder EXCEPT ![fd[p]] = p]
     /\ GoTo(p, "fdopen")
     /\ UNCHANGED <<daemon, cwd, fd, stream, dir, file, first_line, listener, mishaps>>
  \/ /\ pc[p] = "flock" /\ fd[p] # NoFile
     /\ holder[fd[p]] # Nobody
     /\ Ends(p, {})
     /\ UNCHANGED <<dir, file, first_line>>
  \/ /\ pc[p] = "flock" /\ fd[p] = NoFile
     /\ GoTo(p, "fdopen")
     /\ UNCHANGED <<daemon, cwd, fd, stream, fileVars, listener, mishaps>>
  \/ /\ pc[p] = "flock" /\ "flock" \in Faults
     /\ GoTo(p, "fdopen")
     /\ Mishap("lock")
     /\ UNCHANGED <<daemon, cwd, fd, stream, fileVars, listener>>

\* fdopen returns NULL for a file that could not be opened.
Fdopen(p) ==
  \/ /\ pc[p] = "fdopen" /\ fd[p] # NoFile
     /\ stream' = [stream EXCEPT ![p] = "open"]
     /\ GoTo(p, "write")
     /\ UNCHANGED <<daemon, cwd, fd, fileVars, listener, mishaps>>
  \/ /\ pc[p] = "fdopen" /\ fd[p] = NoFile
     /\ Ends(p, {})
     /\ UNCHANGED <<dir, file, first_line>>
  \/ /\ pc[p] = "fdopen"
     /\ Fails(p, "fdopen")
     /\ UNCHANGED <<dir, file, first_line>>

\* (mutant: the stream is not flushed)
WritePidBuffered(p) ==
  /\ pc[p] = "write"
  /\ GoTo(p, "listen")
  /\ UNCHANGED <<daemon, cwd, fd, stream, fileVars, listener, mishaps>>

\* The file is not truncated: what an earlier process has written is overwritten
\* from its beginning, or stays when fprintf or fflush fails, which goes unnoticed
\* (the C library drops what it could not write).
WritePid(p) ==
  /\ pc[p] = "write"
  /\ \/ first_line' = [first_line EXCEPT ![fd[p]] = p] /\ UNCHANGED stream
     \/ /\ "write" \in Faults
        /\ stream' = [stream EXCEPT ![p] = "error"]
        /\ UNCHANGED first_line
  /\ GoTo(p, "listen")
  /\ UNCHANGED <<daemon, cwd, fd, dir, file, holder, listener, mishaps>>

-----------------------------------------------------------------------------
(* signal_handler *)

\* SIGINT or SIGTERM, wherever the process is, in its handler too.  The server
\* is not known to the handler before http_server is assigned.
Signal(p) ==
  /\ Running(p) /\ pc[p] # "dying"
  /\ GoTo(p, IF pc[p] \in {"serving", "stop_server"} THEN "stop_server" ELSE "unlock")
  /\ mishaps' = mishaps \cup (IF pc[p] = "bound" THEN {"stopped", "port"} ELSE {"stopped"})
  /\ UNCHANGED <<daemon, cwd, fd, stream, fileVars, listener>>

\* (mutant: the server is left to exit)
StopServerForgotten(p) ==
  /\ pc[p] = "stop_server"
  /\ GoTo(p, "unlock")
  /\ UNCHANGED <<daemon, cwd, fd, stream, fileVars, listener, mishaps>>

StopServer(p) ==
  /\ pc[p] = "stop_server"
  /\ listener' = IF listener = p THEN Nobody ELSE listener
  /\ GoTo(p, "unlock")
  /\ UNCHANGED <<daemon, cwd, fd, stream, fileVars, mishaps>>

\* Nothing is done when stream_pid is NULL; the file is then closed by exit.
Unlock(p) ==
  /\ pc[p] = "unlock"
  /\ IF stream[p] # "null"
     THEN /\ holder' = Unheld(p)
          /\ fd' = [fd EXCEPT ![p] = NoFile]
          /\ stream' = [stream EXCEPT ![p] = "null"]
     ELSE UNCHANGED <<holder, fd, stream>>
  /\ GoTo(p, "unlink")
  /\ UNCHANGED <<daemon, cwd, dir, file, first_line, listener, mishaps>>

\* PID_FILE is taken relative to the working directory, which is not PID_DIR for
\* a daemon whose chdir has succeeded, and may be for a process started there.
Unlink(p) ==
  /\ pc[p] = "unlink"
  /\ \/ /\ cwd[p] = "pid_dir" /\ file # NoFile
        /\ file' = NoFile
        /\ Mishap("lock")
     \/ /\ cwd[p] = "pid_dir" /\ file # NoFile => "unlink" \in Faults
        /\ UNCHANGED <<file, mishaps>>
  /\ GoTo(p, "exit")
  /\ UNCHANGED <<daemon, cwd, fd, stream, dir, holder, first_line, listener>>

\* (mutant: the handler returns)
ExitReturning(p) ==
  /\ pc[p] = "exit"
  /\ GoTo(p, "returned")
  /\ UNCHANGED <<daemon, cwd, fd, stream, fileVars, listener, mishaps>>

Exit(p) ==
  /\ pc[p] = "exit"
  /\ Ends(p, {})
  /\ UNCHANGED <<dir, file, first_line>>

-----------------------------------------------------------------------------
(* SIGKILL: no handler runs, and the kernel closes the files one by one. *)

Kill(p) ==
  /\ Running(p) /\ pc[p] # "dying"
  /\ GoTo(p, "dying")
  /\ mishaps' = mishaps \cup {"stopped", "port"}
  /\ UNCHANGED <<daemon, cwd, fd, stream, fileVars, listener>>

ClosePid(p) ==
  /\ pc[p] = "dying" /\ fd[p] # NoFile
  /\ fd' = [fd EXCEPT ![p] = NoFile]
  /\ holder' = Unheld(p)
  /\ UNCHANGED <<pc, daemon, cwd, stream, dir, file, first_line, listener, mishaps>>

Dies(p) ==
  /\ pc[p] = "dying"
  /\ Ends(p, {})
  /\ UNCHANGED <<dir, file, first_line>>

-----------------------------------------------------------------------------
(* The specification. *)

Init ==
  /\ pc = [p \in Proc |-> "down"]
  /\ daemon = [p \in Proc |-> FALSE]
  /\ cwd = [p \in Proc |-> "root"]
  /\ fd = [p \in Proc |-> NoFile]
  /\ stream = [p \in Proc |-> "null"]
  /\ dir \in BOOLEAN /\ file = NoFile
  /\ holder = [i \in Inode |-> Nobody]
  /\ first_line = [i \in Inode |-> Nobody]
  /\ listener = Nobody
  /\ mishaps = {}

\* What a process does by itself once it has been started.
Proceeds(p) ==
  \/ Fork(p) \/ Stat(p) \/ MkDir(p) \/ OpenPid(p) \/ Flock(p) \/ Fdopen(p)
  \/ WritePid(p) \/ Listen(p) \/ Serve(p)
  \/ StopServer(p) \/ Unlock(p) \/ Unlink(p) \/ Exit(p)
  \/ ClosePid(p) \/ Dies(p)

Next ==
  \E p \in Proc :
    \/ \E d \in BOOLEAN, from \in Dirs : Start(p, d, from)
    \/ Proceeds(p)
    \/ Signal(p)
    \/ Kill(p)

\* No call of main, daemonize or signal_handler waits for another process.
Fairness == \A p \in Proc : WF_vars(Proceeds(p))

Spec == Init /\ [][Next]_vars /\ Fairness

-----------------------------------------------------------------------------
(* Properties. *)

TypeOK ==
  /\ pc \in [Proc -> PCs]
  /\ daemon \in [Proc -> BOOLEAN]
  /\ cwd \in [Proc -> Dirs]
  /\ fd \in [Proc -> Inode \cup {NoFile}]
  /\ stream \in [Proc -> Streams]
  /\ dir \in BOOLEAN
  /\ file \in Inode \cup {NoFile}
  /\ holder \in [Inode -> Proc \cup {Nobody}]
  /\ first_line \in [Inode -> Proc \cup {Nobody}]
  /\ listener \in Proc \cup {Nobody}
  /\ mishaps \subseteq Mishaps

\* The process is past daemonize, as a daemon.
Daemonized(p) == daemon[p] /\ pc[p] \in {"listen", "bound", "serving"}

\* The lock has been asked for and the locked file has stayed where it is.
LockGood == "lock" \notin mishaps

\* At most one daemon is at work, however many are started, stopped and killed in
\* whatever order.  What the program relies on: flock fails with EWOULDBLOCK
\* only, and nobody has unlinked the PID file by stopping a process that was
\* started in PID_DIR.
AtMostOneDaemon ==
  LockGood =>
    \A p, q \in Proc : Daemonized(p) /\ Daemonized(q) => p = q

\* The PID file names the daemon that is at work, whatever earlier ones have left
\* in it, unless the daemon's own write has failed: the program looks neither at
\* what fprintf and fflush return nor at the stream's error indicator.
PidFileNamesDaemon ==
  LockGood =>
    \A p \in Proc :
      Daemonized(p) => file # NoFile /\ (first_line[file] = p \/ stream[p] = "error")

\* A daemon finds the port free, although it does not look whether it got it,
\* because the lock is held longer than the port.  It has none when mg_set_option
\* has failed for a reason that has nothing to do with the switcher, or somebody
\* gives back the port later than the lock: a killed process gives back the two in
\* any order, and so does one that is signalled before it knows its server; a
\* process in the foreground has no lock at all.
DaemonListens ==
  LockGood /\ "port" \notin mishaps =>
    \A p \in Proc : daemon[p] /\ pc[p] \in {"bound", "serving"} => listener = p

\* A daemon has been started and has not been stopped.
UnderWay(p) == daemon[p] /\ Running(p) /\ pc[p] \notin Stopping \cup {"dying"}

\* The last daemon does not quit: mkdir and flock make a daemon quit only because
\* of another one, which is still under way although it may have quit the same
\* way; what an earlier one has left, its directory and its PID file, does not.
NotAllQuit ==
  [][(\E p \in Proc : UnderWay(p)) /\ "stopped" \notin mishaps'
       => \E p \in Proc : UnderWay(p)']_vars

\* When several daemons are started at once not all of them quit because of one
\* another: unless a call fails or a process is stopped, one goes on to serve.
OneDaemonServes ==
  (\E p \in Proc : pc[p] = "stat") ~>
    \/ \E p \in Proc : daemon[p] /\ pc[p] = "serving"
    \/ "stopped" \in mishaps
===============================================================================

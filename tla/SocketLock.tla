------------------------------ MODULE SocketLock ------------------------------
(***************************************************************************)
(* How service processes and display-socket-finders share the name of a    *)
(* Wayland socket: the lock file, the socket file, the orderly end of a    *)
(* service and its crash (src/socket.rs, display-socket-finder).           *)
(*                                                                         *)
(* A step is one system call. A lock belongs to the file that was opened,  *)
(* not to its path: unlinking the path leaves the lock with the processes  *)
(* that have the old file open, and the next create makes another file.    *)
(***************************************************************************)
EXTENDS Naturals

CONSTANTS Services, Finders, Nobody

ASSUME ProcessAssumption == Services \intersect Finders = {} /\ Nobody \notin Services

Processes == Services \union Finders

VARIABLES
  pc,        \* where each process is
  seen,      \* what a service's lock_path.exists() answered
  file,      \* the lock file each process has open, 0 for none
  lockPath,  \* the file at the path of the lock, 0 for none
  files,     \* number of lock files created so far
  socket,    \* the service that bound the file at the socket path, dead or alive
  unlinked   \* history: a service has removed the path of the lock

vars == <<pc, seen, file, lockPath, files, socket, unlinked>>

\* Where a process holds the lock of its file.
LockedPcs == {"check", "remove", "bind", "bound", "serving", "closing", "unlocking", "found"}
Locked(p) == pc[p] \in LockedPcs

Goes(p, to) == pc' = [pc EXCEPT ![p] = to]

\* The process exits, or drops the lock file: the lock is released, the paths stay.
Ends(p, how) ==
  /\ Goes(p, how)
  /\ file' = [file EXCEPT ![p] = 0]

Init ==
  /\ pc = [p \in Processes |-> IF p \in Services THEN "start" ELSE "open"]
  /\ seen = [p \in Processes |-> FALSE]
  /\ file = [p \in Processes |-> 0]
  /\ lockPath = 0 /\ files = 0
  /\ socket = Nobody
  /\ unlinked = FALSE

(* create_socket *)

LooksForLock(s) ==
  /\ pc[s] = "start"
  /\ seen' = [seen EXCEPT ![s] = lockPath # 0]
  /\ Goes(s, "open")
  /\ UNCHANGED <<file, lockPath, files, socket, unlinked>>

\* File::open when the path existed, File::create when not; a finder always creates.
\* File::create opens a file that is there by now.
OpensLock(p) ==
  /\ pc[p] = "open"
  /\ IF lockPath # 0
     THEN /\ file' = [file EXCEPT ![p] = lockPath]
          /\ Goes(p, "lock")
          /\ UNCHANGED <<lockPath, files>>
     ELSE IF seen[p]
     THEN Ends(p, "failed") /\ UNCHANGED <<lockPath, files>>
     ELSE /\ files' = files + 1
          /\ lockPath' = files + 1
          /\ file' = [file EXCEPT ![p] = files + 1]
          /\ Goes(p, "lock")
  /\ UNCHANGED <<seen, socket, unlinked>>

\* Mutant: the lock is not tried.
AlwaysLocks(p) ==
  /\ pc[p] = "lock"
  /\ Goes(p, "check")
  /\ UNCHANGED <<seen, file, lockPath, files, socket, unlinked>>

TriesLock(p) ==
  /\ pc[p] = "lock"
  /\ IF \E q \in Processes : Locked(q) /\ file[q] = file[p]
     THEN Ends(p, "failed")
     ELSE Goes(p, "check") /\ UNCHANGED file
  /\ UNCHANGED <<seen, lockPath, files, socket, unlinked>>

ChecksSocket(s) ==
  /\ pc[s] = "check" /\ s \in Services
  /\ Goes(s, IF socket = Nobody THEN "bind" ELSE "remove")
  /\ UNCHANGED <<seen, file, lockPath, files, socket, unlinked>>

\* remove_file fails when the path is gone.
RemovesSocket(s) ==
  /\ pc[s] = "remove" /\ s \in Services
  /\ IF socket = Nobody THEN Ends(s, "broken") ELSE Goes(s, "bind") /\ UNCHANGED file
  /\ socket' = Nobody
  /\ UNCHANGED <<seen, lockPath, files, unlinked>>

\* Listener::new_with_path: bind, which fails when the path exists, then listen.
Binds(s) ==
  /\ pc[s] = "bind"
  /\ IF socket # Nobody
     THEN Ends(s, "broken") /\ UNCHANGED socket
     ELSE Goes(s, "bound") /\ socket' = s /\ UNCHANGED file
  /\ UNCHANGED <<seen, lockPath, files, unlinked>>

Listens(s) ==
  /\ pc[s] = "bound"
  /\ Goes(s, "serving")
  /\ UNCHANGED <<seen, file, lockPath, files, socket, unlinked>>

(* Wayland::drop, then the drop of the lock file *)

DropsSocket(s) ==
  /\ pc[s] = "serving"
  /\ socket' = Nobody
  /\ Goes(s, "closing")
  /\ UNCHANGED <<seen, file, lockPath, files, unlinked>>

DropsLockPath(s) ==
  /\ pc[s] = "closing"
  /\ lockPath' = 0
  /\ unlinked' = TRUE
  /\ Goes(s, "unlocking")
  /\ UNCHANGED <<seen, file, files, socket>>

ClosesLock(p) ==
  /\ pc[p] \in {"unlocking", "found"}
  /\ Ends(p, "ended")
  /\ UNCHANGED <<seen, lockPath, files, socket, unlinked>>

(* socket_used of the finder, under the lock *)

\* Mutant: a socket that refuses a connection is removed before the lock is tried.
FinderNeedsNoLock(f) ==
  /\ pc[f] \in {"lock", "check"} /\ f \in Finders
  /\ IF socket = Nobody THEN Goes(f, "found") /\ UNCHANGED file
     ELSE IF pc[socket] = "serving" THEN Ends(f, "ended")
     ELSE Goes(f, "remove") /\ UNCHANGED file
  /\ UNCHANGED <<seen, lockPath, files, socket, unlinked>>

\* connect succeeds, or fails for another reason: the name is taken. It is refused
\* by a socket that nobody listens on.
FinderConnects(f) ==
  /\ pc[f] = "check" /\ f \in Finders
  /\ \/ socket = Nobody /\ Goes(f, "found") /\ UNCHANGED file
     \/ socket # Nobody /\ Ends(f, "ended")
     \/ socket # Nobody /\ pc[socket] # "serving" /\ Goes(f, "remove") /\ UNCHANGED file
  /\ UNCHANGED <<seen, lockPath, files, socket, unlinked>>

\* Mutant: the finder keeps the name by binding it itself.
FinderBinds(f) ==
  /\ pc[f] = "remove" /\ f \in Finders
  /\ socket' = f
  /\ Goes(f, "found")
  /\ UNCHANGED <<seen, file, lockPath, files, unlinked>>

\* The error of remove_file is ignored.
FinderRemoves(f) ==
  /\ pc[f] = "remove" /\ f \in Finders
  /\ socket' = Nobody
  /\ Goes(f, "found")
  /\ UNCHANGED <<seen, file, lockPath, files, unlinked>>

\* A crash, anywhere: the kernel closes the files.
Crashes(p) ==
  /\ pc[p] \notin {"ended", "failed", "broken"}
  /\ Ends(p, "ended")
  /\ UNCHANGED <<seen, lockPath, files, socket, unlinked>>

Service(s) ==
  \/ LooksForLock(s) \/ ChecksSocket(s) \/ RemovesSocket(s) \/ Binds(s) \/ Listens(s)
  \/ DropsSocket(s) \/ DropsLockPath(s)

Next ==
  \/ \E s \in Services : Service(s)
  \/ \E f \in Finders : FinderConnects(f) \/ FinderRemoves(f)
  \/ \E p \in Processes : OpensLock(p) \/ TriesLock(p) \/ ClosesLock(p) \/ Crashes(p)

Spec == Init /\ [][Next]_vars
-----------------------------------------------------------------------------
(* Properties *)

TypeOK ==
  /\ pc \in [Processes -> LockedPcs \union {"start", "open", "lock", "failed", "broken", "ended"}]
  /\ seen \in [Processes -> BOOLEAN]
  /\ files \in Nat
  /\ file \in [Processes -> Nat]
  /\ lockPath \in Nat
  /\ socket \in Services \union {Nobody}
  /\ unlinked \in BOOLEAN

\* As long as no service has ended in order, however many of them crash and wherever,
\* one process at most is past try_lock.
OneHolder ==
  ~unlinked => \A p, q \in Processes : Locked(p) /\ Locked(q) => p = q

\* Under the same condition a service that serves is the one the socket path leads
\* to: no other service and no finder removes or replaces its socket.
ServesItsSocket ==
  ~unlinked => \A s \in Services : pc[s] \in {"bound", "serving"} => socket = s

\* ... and a service that has the lock starts: what a crashed service left behind
\* makes neither remove_file nor bind fail.
LockMeansStart == ~unlinked => \A s \in Services : pc[s] # "broken"

\* socket.rs:102 says after try_lock "we know the wayland should be free since we can
\* lock the lockfile". Then no other service is serving when one removes the socket.
LockMeansFree ==
  \A s, t \in Services : s # t /\ pc[s] = "remove" => pc[t] # "serving"
=============================================================================

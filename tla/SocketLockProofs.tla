--------------------------- MODULE SocketLockProofs ---------------------------
(***************************************************************************)
(* For any number of services and finders, crashing anywhere: until a      *)
(* service ends in order, the lock does what socket.rs relies on. The      *)
(* argument is that all open lock files are then the one at the lock's     *)
(* path, so that try_lock excludes across processes, and that the socket   *)
(* path changes only under the lock.                                       *)
(***************************************************************************)
EXTENDS SocketLock, TLAPS

\* Every open lock file is the one at the path, and who tries the lock has one open.
OneFile ==
  \A p \in Processes :
    /\ file[p] # 0 => file[p] = lockPath
    /\ Locked(p) \/ pc[p] = "lock" => file[p] # 0

\* What a service has learnt of the socket path under the lock stays true.
SocketKnown ==
  \A s \in Services :
    /\ pc[s] = "bind" => socket = Nobody
    /\ pc[s] = "remove" => socket # Nobody
    /\ pc[s] # "unlocking"

Inv ==
  /\ TypeOK
  /\ ~unlinked => OneFile /\ SocketKnown
  /\ OneHolder /\ ServesItsSocket /\ LockMeansStart

LEMMA InitInv == Init => Inv
<1> SUFFICES ASSUME Init PROVE Inv
  OBVIOUS
<1>1. /\ \A p \in Processes : pc[p] \in {"start", "open"} /\ file[p] = 0
      /\ \A s \in Services : pc[s] \in {"start", "open"}
  BY DEF Init, Processes
<1>2. \A p \in Processes : ~Locked(p) /\ pc[p] # "lock"
  BY <1>1 DEF Locked, LockedPcs
<1>3. TypeOK
  <2>1. pc \in [Processes -> {"start", "open"}] /\ seen \in [Processes -> BOOLEAN]
    BY DEF Init
  <2>2. file \in [Processes -> Nat] /\ socket \in Services \union {Nobody}
        /\ files \in Nat /\ lockPath \in Nat /\ unlinked \in BOOLEAN
    BY DEF Init
  <2> QED
    BY <2>1, <2>2 DEF TypeOK
<1> QED
  BY <1>1, <1>2, <1>3 DEF Inv, OneFile, SocketKnown, OneHolder, ServesItsSocket, LockMeansStart

USE DEF Goes, Ends, Processes

LEMMA StepTypeOK == TypeOK /\ [Next]_vars => TypeOK'
<1> SUFFICES ASSUME TypeOK, Next PROVE TypeOK'
  BY DEF TypeOK, vars
<1>1. ASSUME NEW s \in Services, Service(s) PROVE TypeOK'
  <2>1. CASE LooksForLock(s)
    BY <2>1 DEF LooksForLock, TypeOK
  <2>2. CASE ChecksSocket(s) \/ Listens(s)
    BY <2>2 DEF ChecksSocket, Listens, TypeOK, LockedPcs
  <2>3. CASE RemovesSocket(s)
    BY <2>3 DEF RemovesSocket, TypeOK, LockedPcs
  <2>4. CASE Binds(s)
    BY <2>4 DEF Binds, TypeOK, LockedPcs
  <2>5. CASE DropsSocket(s)
    BY <2>5 DEF DropsSocket, TypeOK, LockedPcs
  <2>6. CASE DropsLockPath(s)
    <3>1. unlinked' \in BOOLEAN
      BY <2>6, Zenon DEF DropsLockPath
    <3>2. lockPath' \in Nat /\ UNCHANGED <<seen, file, files, socket>>
      BY <2>6 DEF DropsLockPath
    <3>3. pc' \in [Processes -> LockedPcs \union {"start", "open", "lock", "failed", "broken", "ended"}]
      BY <2>6 DEF DropsLockPath, TypeOK, LockedPcs
    <3> QED
      BY <3>1, <3>2, <3>3 DEF TypeOK
  <2> QED
    BY <1>1, <2>1, <2>2, <2>3, <2>4, <2>5, <2>6 DEF Service
<1>2. ASSUME NEW f \in Finders, FinderConnects(f) \/ FinderRemoves(f) PROVE TypeOK'
  BY <1>2 DEF FinderConnects, FinderRemoves, TypeOK, LockedPcs
<1>3. ASSUME NEW p \in Processes, OpensLock(p) PROVE TypeOK'
  BY <1>3 DEF OpensLock, TypeOK, LockedPcs
<1>4. ASSUME NEW p \in Processes, TriesLock(p) \/ ClosesLock(p) \/ Crashes(p) PROVE TypeOK'
  BY <1>4 DEF TriesLock, ClosesLock, Crashes, TypeOK, LockedPcs
<1> QED
  BY <1>1, <1>2, <1>3, <1>4 DEF Next

\* Past the lock, nobody else is.
LEMMA Alone ==
  ASSUME Inv, ~unlinked, NEW p \in Processes, Locked(p), NEW q \in Processes, q # p
  PROVE  ~Locked(q)
BY DEF Inv, OneHolder


\* A step of one process that keeps the path and takes no lock it could not have:
\* OneFile and OneHolder need only be looked at for the process that moves.
LEMMA LockSteps ==
  ASSUME Inv, Next, ~unlinked'
  PROVE  OneFile' /\ OneHolder'
<1>1. ~unlinked
  BY DEF Next, Service, LooksForLock, OpensLock, TriesLock, ChecksSocket, RemovesSocket, Binds,
     Listens, DropsSocket, DropsLockPath, ClosesLock, FinderConnects, FinderRemoves, Crashes,
     Inv, TypeOK
<1>2. OneFile /\ OneHolder /\ TypeOK
  BY <1>1 DEF Inv
<1>3. ASSUME NEW p \in Processes, OpensLock(p) PROVE OneFile' /\ OneHolder'
  <2>1. CASE lockPath # 0
    BY <2>1, <1>1, <1>2, <1>3 DEF OpensLock, OneFile, OneHolder, TypeOK, Locked, LockedPcs
  <2>2. CASE lockPath = 0
    <3>1. \A q \in Processes : file[q] = 0 /\ ~Locked(q) /\ pc[q] # "lock"
      BY <2>2, <1>2 DEF OneFile, TypeOK
    <3>2. \A q \in Processes : ~Locked(q)'
      BY <3>1, <1>2, <1>3 DEF OpensLock, TypeOK, Locked, LockedPcs
    <3> QED
      BY <3>1, <3>2, <2>2, <1>2, <1>3 DEF OpensLock, OneFile, OneHolder, TypeOK
  <2> QED
    BY <2>1, <2>2
<1>4. ASSUME NEW p \in Processes, TriesLock(p) PROVE OneFile' /\ OneHolder'
  <2>1. CASE \E q \in Processes : Locked(q) /\ file[q] = file[p]
    BY <2>1, <1>1, <1>2, <1>4 DEF TriesLock, OneFile, OneHolder, TypeOK, Locked, LockedPcs
  <2>2. CASE ~\E q \in Processes : Locked(q) /\ file[q] = file[p]
    <3>1. \A q \in Processes : ~Locked(q)
      BY <2>2, <1>2, <1>4 DEF TriesLock, OneFile
    <3> QED
      BY <3>1, <2>2, <1>1, <1>2, <1>4 DEF TriesLock, OneFile, OneHolder, TypeOK, Locked, LockedPcs
  <2> QED
    BY <2>1, <2>2
<1>5. ASSUME NEW p \in Processes, \A q \in Processes \ {p} : pc'[q] = pc[q] /\ file'[q] = file[q],
             lockPath' = lockPath, Locked(p)' => Locked(p), pc'[p] # "lock",
             file'[p] \in {0, file[p]}, file'[p] = 0 => ~Locked(p)'
      PROVE  OneFile' /\ OneHolder'
  BY <1>1, <1>2, <1>5 DEF OneFile, OneHolder, Locked
<1>6. ASSUME NEW p \in Processes, ClosesLock(p) \/ Crashes(p) PROVE OneFile' /\ OneHolder'
  BY <1>6, <1>2, <1>5 DEF ClosesLock, Crashes, TypeOK, Locked, LockedPcs
<1>7. ASSUME NEW f \in Finders, FinderConnects(f) \/ FinderRemoves(f)
      PROVE  OneFile' /\ OneHolder'
  <2>1. Locked(f)
    BY <1>7 DEF FinderConnects, FinderRemoves, Locked, LockedPcs
  <2> QED
    BY <2>1, <1>7, <1>2, <1>5 DEF FinderConnects, FinderRemoves, TypeOK, Locked, LockedPcs, OneFile
<1>8. ASSUME NEW s \in Services, Service(s) PROVE OneFile' /\ OneHolder'
  BY <1>8, <1>1, <1>2, <1>5 DEF Service, LooksForLock, ChecksSocket, RemovesSocket, Binds, Listens,
     DropsSocket, DropsLockPath, TypeOK, Locked, LockedPcs, OneFile
<1> QED
  BY <1>3, <1>4, <1>6, <1>7, <1>8 DEF Next


\* While one process holds the lock, the socket path is its own to change.
LEMMA SocketSteps ==
  ASSUME Inv, Next, ~unlinked'
  PROVE  SocketKnown' /\ ServesItsSocket' /\ LockMeansStart'
<1>1. ~unlinked
  BY DEF Next, Service, LooksForLock, OpensLock, TriesLock, ChecksSocket, RemovesSocket, Binds,
     Listens, DropsSocket, DropsLockPath, ClosesLock, FinderConnects, FinderRemoves, Crashes,
     Inv, TypeOK
<1>2. SocketKnown /\ ServesItsSocket /\ LockMeansStart /\ TypeOK
  BY <1>1 DEF Inv
<1> DEFINE Free(s) == pc[s] \notin {"bind", "remove", "bound", "serving", "unlocking", "broken"}
<1>3. ASSUME NEW p \in Processes, NEW s \in Services, s # p, Locked(p) PROVE Free(s)
  BY <1>1, <1>2, <1>3, Alone DEF Locked, LockedPcs, LockMeansStart
<1>4. ASSUME NEW p \in Processes, \A q \in Processes \ {p} : pc'[q] = pc[q], socket' = socket,
             pc'[p] \notin {"bind", "remove", "bound", "serving", "unlocking", "broken"}
      PROVE  SocketKnown' /\ ServesItsSocket' /\ LockMeansStart'
  BY <1>1, <1>2, <1>4 DEF SocketKnown, ServesItsSocket, LockMeansStart
<1>5. ASSUME NEW p \in Processes, OpensLock(p) \/ TriesLock(p) \/ ClosesLock(p) \/ Crashes(p)
      PROVE  SocketKnown' /\ ServesItsSocket' /\ LockMeansStart'
  BY <1>5, <1>2, <1>4 DEF OpensLock, TriesLock, ClosesLock, Crashes, TypeOK
<1>6. ASSUME NEW f \in Finders, FinderConnects(f) \/ FinderRemoves(f)
      PROVE  SocketKnown' /\ ServesItsSocket' /\ LockMeansStart'
  <2>1. Locked(f) /\ f \notin Services
    BY <1>6, ProcessAssumption DEF FinderConnects, FinderRemoves, Locked, LockedPcs
  <2>2. \A s \in Services : Free(s) /\ pc'[s] = pc[s]
    BY <2>1, <1>3, <1>6, <1>2 DEF FinderConnects, FinderRemoves, TypeOK
  <2> QED
    BY <2>2 DEF SocketKnown, ServesItsSocket, LockMeansStart
<1>7. ASSUME NEW s \in Services, ChecksSocket(s) \/ RemovesSocket(s) \/ Binds(s) \/ Listens(s)
                                 \/ DropsSocket(s)
      PROVE  SocketKnown' /\ ServesItsSocket' /\ LockMeansStart'
  <2>1. Locked(s)
    BY <1>7 DEF ChecksSocket, RemovesSocket, Binds, Listens, DropsSocket, Locked, LockedPcs
  <2>2. \A t \in Services \ {s} : Free(t) /\ pc'[t] = pc[t]
    <3>1. \A t \in Services \ {s} : pc'[t] = pc[t]
      BY <1>7, <1>2 DEF ChecksSocket, RemovesSocket, Binds, Listens, DropsSocket, TypeOK
    <3> QED
      BY <3>1, <2>1, <1>3
  <2>3. /\ pc'[s] = "bind" => socket' = Nobody
        /\ pc'[s] = "remove" => socket' # Nobody
        /\ pc'[s] \in {"bound", "serving"} => socket' = s
        /\ pc'[s] \notin {"unlocking", "broken"}
    <3>1. CASE ChecksSocket(s)
      BY <3>1, <1>2 DEF ChecksSocket, TypeOK
    <3>2. CASE RemovesSocket(s)
      BY <3>2, <1>2 DEF RemovesSocket, TypeOK, SocketKnown
    <3>3. CASE Binds(s)
      BY <3>3, <1>2 DEF Binds, TypeOK, SocketKnown
    <3>4. CASE Listens(s)
      BY <3>4, <1>1, <1>2 DEF Listens, TypeOK, ServesItsSocket
    <3>5. CASE DropsSocket(s)
      BY <3>5, <1>2 DEF DropsSocket, TypeOK
    <3> QED
      BY <1>7, <3>1, <3>2, <3>3, <3>4, <3>5
  <2> QED
    BY <2>2, <2>3 DEF SocketKnown, ServesItsSocket, LockMeansStart
<1>8. ASSUME NEW s \in Services, LooksForLock(s)
      PROVE  SocketKnown' /\ ServesItsSocket' /\ LockMeansStart'
  BY <1>8, <1>2, <1>4 DEF LooksForLock, TypeOK
<1>9. ASSUME NEW s \in Services, DropsLockPath(s) PROVE FALSE
  BY <1>9 DEF DropsLockPath
<1> QED
  BY <1>5, <1>6, <1>7, <1>8, <1>9 DEF Next, Service

LEMMA StepInv == Inv /\ [Next]_vars => Inv'
<1> SUFFICES ASSUME Inv, [Next]_vars PROVE Inv'
  OBVIOUS
<1>1. CASE Next
  <2>1. TypeOK'
    BY <1>1, StepTypeOK DEF Inv
  <2>2. CASE unlinked'
    BY <2>1, <2>2 DEF Inv, OneHolder, ServesItsSocket, LockMeansStart
  <2>3. CASE ~unlinked'
    BY <1>1, <2>1, <2>3, LockSteps, SocketSteps DEF Inv
  <2> QED
    BY <2>2, <2>3
<1>2. CASE UNCHANGED vars
  BY <1>2 DEF vars, Inv, TypeOK, OneFile, SocketKnown, OneHolder, ServesItsSocket,
     LockMeansStart, Locked
<1> QED
  BY <1>1, <1>2

\* The variables keep their types.
THEOREM Typing == Spec => []TypeOK
<1>1. Inv => TypeOK
  BY DEF Inv
<1> QED
  BY <1>1, InitInv, StepInv, PTL DEF Spec

\* try_lock excludes, for any number of processes and crashes, until a service ends
\* in order (create_socket, get_free_wayland_socket_path).
THEOREM Exclusion == Spec => []OneHolder
<1>1. Inv => OneHolder
  BY DEF Inv
<1> QED
  BY <1>1, InitInv, StepInv, PTL DEF Spec

\* Until then, nobody takes the socket path from the service that serves it.
THEOREM Serving == Spec => []ServesItsSocket
<1>1. Inv => ServesItsSocket
  BY DEF Inv
<1> QED
  BY <1>1, InitInv, StepInv, PTL DEF Spec

\* Until then, a service that got the lock never fails on what a crashed one left.
THEOREM Starting == Spec => []LockMeansStart
<1>1. Inv => LockMeansStart
  BY DEF Inv
<1> QED
  BY <1>1, InitInv, StepInv, PTL DEF Spec
=============================================================================

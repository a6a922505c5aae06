-------------------------- MODULE BufferReleaseProofs --------------------------
(***************************************************************************)
(* A wl_buffer that goes back to its client, for any surfaces and any      *)
(* number of commits and reapplications: once for a commit, and not while  *)
(* a shell may read it, but for what the code excuses.                     *)
(***************************************************************************)
EXTENDS BufferRelease, TLAPS

(* The parts of the inductive invariant *)

\* A point that no submission has yet is unknown to surfaces and shells.
UndrawnUnused ==
  \A r \in Points : task[r] = "none" =>
    /\ shell[r] = "none" /\ commit[r] = r /\ r \notin again
    /\ \A s \in Surfaces : current[s] # r /\ buffered[s] # r

\* The acquire point of an upload has its release point above it.
UploadsDrawn == \A a \in uploads : a + 1 \in Points /\ task[a + 1] # "none"

\* A buffered submission is on one surface and no shell has had it.
BufferedOnce ==
  \A s \in Surfaces : buffered[s] # NoSubmit =>
    /\ shell[buffered[s]] = "none"
    /\ \A t \in Surfaces : /\ current[t] # buffered[s]
                           /\ t # s => buffered[t] # buffered[s]

\* A current submission is on one surface.
CurrentOnce ==
  \A s, t \in Surfaces : s # t /\ current[s] # NoSubmit => current[s] # current[t]

\* A submission replaces earlier ones.
CommitsBefore == \A r \in Points : commit[r] <= r

Order ==
  TypeOK /\ UndrawnUnused /\ UploadsDrawn /\ BufferedOnce /\ CurrentOnce /\ CommitsBefore

Drawn(r) == task[r] # "none"

\* A surface keeps the latest submission of a commit,
LatestKept ==
  \A q, r \in Points : q \in Kept /\ Drawn(r) /\ commit[r] = commit[q] => r <= q

\* a later one of a commit has the earlier ones aborted, or was made after a release,
EarlierAborted ==
  \A q, r \in Points : q < r /\ commit[q] = commit[r] /\ Drawn(q) /\ Drawn(r) =>
    task[q] = "aborted" \/ r \in again

\* and what the history counts as such was.
AgainReturned == \A r \in again : Returned(commit[r])

Chains == LatestKept /\ EarlierAborted /\ AgainReturned /\ AbortedIsReplaced

\* A shell uses the submission or will be sent it, and nothing excuses its release.
MayBeUsed(r) == InUse(r) \/ \E s \in Surfaces : buffered[s] = r
Guarded(r) == MayBeUsed(r) /\ ~Excused(r)

\* For a patient client: what is guarded is not released,
GuardedUnreleased == \A r \in Points : Guarded(r) => task[r] = "waiting"

\* it is the latest submission,
GuardedIsLatest == \A q, r \in Points : q < r /\ Drawn(r) => ~Guarded(q)

\* no signal has passed it,
SignalsAfterUse == \A p \in signalled, q \in Points : q <= p => ~Guarded(q)

\* and every commit but the latest was released.
EarlierReturned ==
  \A q, r \in Points : Drawn(q) /\ Drawn(r) /\ commit[q] < commit[r] => Returned(commit[q])

Patience == patient =>
  GuardedUnreleased /\ GuardedIsLatest /\ SignalsAfterUse /\ EarlierReturned

Invariant == Order /\ Chains /\ Patience
-----------------------------------------------------------------------------
LEMMA InvariantMeans == Invariant => NoEarlyRelease /\ OneReleasePerCommit
<1>. SUFFICES ASSUME Invariant PROVE NoEarlyRelease /\ OneReleasePerCommit
  OBVIOUS
<1>1. ASSUME patient, NEW q \in Points, NEW r \in Points, q <= r, task[r] = "sent", InUse(q)
      PROVE  Excused(q)
  <2>. SUFFICES ASSUME Guarded(q) PROVE FALSE
    BY <1>1 DEF Guarded, MayBeUsed
  <2>1. CASE q = r
    BY <1>1, <2>1 DEF Invariant, Patience, GuardedUnreleased
  <2>2. CASE q # r
    <3>1. q < r
      BY <1>1, <2>2 DEF Points
    <3>. QED  BY <1>1, <3>1 DEF Invariant, Patience, GuardedIsLatest, Drawn
  <2>. QED  BY <2>1, <2>2
<1>2. OneReleasePerCommit
  BY DEF Invariant, Chains, EarlierAborted, OneReleasePerCommit, Released, Drawn
<1>. QED  BY <1>1, <1>2 DEF NoEarlyRelease

(* Steps that draw no submission *)

\* Surfaces let go of a submission, or send the one that they had buffered; shells go
\* on with theirs; tasks end.
CurrentRecedes == \A s \in Surfaces :
  \/ current'[s] \in {current[s], NoSubmit}
  \/ current'[s] = buffered[s] /\ buffered'[s] = NoSubmit
ShellsRecede == \A r \in Points :
  \/ shell'[r] = shell[r]
  \/ shell'[r] = "holds" /\ \E s \in Surfaces : buffered[s] = r /\ buffered'[s] = NoSubmit
  \/ InUse(r) /\ shell'[r] # "none"
TasksEnd == \A r \in Points :
  \/ task'[r] = task[r]
  \/ task[r] = "waiting" /\ (task'[r] = "failed" \/ (task'[r] = "sent" /\ Passed(r)))
Recedes ==
  /\ UNCHANGED <<next, commit, historyVars>> /\ uploads' \subseteq uploads
  /\ current' \in [Surfaces -> Points \union {NoSubmit}]
  /\ buffered' \in [Surfaces -> Points \union {NoSubmit}]
  /\ shell' \in [Points -> {"none", "holds", "reads", "done", "dropped", "lost"}]
  /\ task' \in [Points -> {"none", "waiting", "sent", "failed", "aborted"}]
  /\ \A s \in Surfaces : buffered'[s] \in {buffered[s], NoSubmit}
  /\ CurrentRecedes /\ ShellsRecede /\ TasksEnd

\* What is signalled: uploads, and submissions of no more use.
SignalsUnused ==
  \A p \in signalled' : \/ p \in signalled \union uploads
                        \/ p \in Points /\ task'[p] # "none" /\ ~MayBeUsed(p)'

LEMMA RecedesOrder ==
  ASSUME Order, Recedes, SignalsUnused
  PROVE  Order'
<1>. TypeOK
  BY DEF Order
<1>1. \A r \in Points : task'[r] = "none" <=> task[r] = "none"
  BY DEF Recedes, TasksEnd, TypeOK
<1>2. TypeOK'
  BY <1>1 DEF Recedes, SignalsUnused, TypeOK, historyVars
<1>3. UndrawnUnused'
  <2>. SUFFICES ASSUME NEW r \in Points, task[r] = "none"
                PROVE  /\ shell'[r] = "none" /\ commit'[r] = r /\ r \notin again'
                       /\ \A s \in Surfaces : current'[s] # r /\ buffered'[s] # r
    BY <1>1 DEF UndrawnUnused
  <2>1. /\ shell[r] = "none" /\ commit[r] = r /\ r # NoSubmit /\ r \notin again
        /\ \A s \in Surfaces : current[s] # r /\ buffered[s] # r
    BY PointAssumption DEF Order, UndrawnUnused, Points
  <2>. QED  BY <2>1 DEF Recedes, CurrentRecedes, ShellsRecede, InUse, historyVars
<1>4. UploadsDrawn'
  BY <1>1 DEF Order, UploadsDrawn, Recedes
<1>5. BufferedOnce'
  <2>. SUFFICES ASSUME NEW s \in Surfaces, buffered'[s] # NoSubmit
                PROVE  /\ shell'[buffered[s]] = "none"
                       /\ \A t \in Surfaces : /\ current'[t] # buffered[s]
                                              /\ t # s => buffered'[t] # buffered[s]
    BY DEF BufferedOnce, Recedes
  <2>1. /\ buffered'[s] = buffered[s] /\ buffered[s] \in Points /\ buffered[s] # NoSubmit
    BY DEF Recedes, TypeOK
  <2>2. /\ shell[buffered[s]] = "none"
        /\ \A t \in Surfaces : /\ current[t] # buffered[s]
                               /\ t # s => buffered[t] # buffered[s]
    BY <2>1 DEF Order, BufferedOnce
  <2>. QED  BY <2>1, <2>2 DEF Recedes, CurrentRecedes, ShellsRecede, InUse
<1>6. CurrentOnce'
  BY DEF Order, CurrentOnce, BufferedOnce, Recedes, CurrentRecedes
<1>7. CommitsBefore'
  BY DEF Order, CommitsBefore, Recedes
<1>. QED  BY <1>2, <1>3, <1>4, <1>5, <1>6, <1>7 DEF Order

\* Nothing comes into use.
LEMMA RecedesUse ==
  ASSUME Order, Recedes, NEW q \in Points, MayBeUsed(q)'
  PROVE  MayBeUsed(q)
BY PointAssumption DEF Recedes, ShellsRecede, MayBeUsed, InUse, Points

LEMMA RecedesGuarded ==
  ASSUME Order, Recedes, NEW q \in Points, Guarded(q)'
  PROVE  Guarded(q)
<1>1. Excused(q) => Excused(q)'
  BY DEF Excused, Recedes, TasksEnd, historyVars
<1>. QED  BY <1>1, RecedesUse DEF Guarded

LEMMA RecedesChains ==
  ASSUME Order, Chains, Recedes
  PROVE  Chains'
<1>. TypeOK
  BY DEF Order
<1>1. \A r \in Points : /\ Drawn(r)' <=> Drawn(r)
                        /\ Released(r) => Released(r)'
                        /\ task'[r] = "aborted" <=> task[r] = "aborted"
  BY DEF Recedes, TasksEnd, Drawn, Released, TypeOK
<1>2. commit' = commit /\ again' = again
  BY DEF Recedes, historyVars
<1>3. \A q \in Points : q \in Kept' => q \in Kept
  BY PointAssumption DEF Kept, Recedes, CurrentRecedes, Points
<1>4. LatestKept' /\ EarlierAborted'
  BY <1>1, <1>2, <1>3 DEF Chains, LatestKept, EarlierAborted
<1>5. AgainReturned'
  BY <1>1, <1>2 DEF Chains, AgainReturned, Returned
<1>6. AbortedIsReplaced'
  <2>. SUFFICES ASSUME NEW q \in Points, task[q] = "aborted"
                PROVE  \E r \in Points : /\ q < r /\ commit[r] = commit[q]
                                         /\ task'[r] \in {"waiting", "sent", "failed"}
    BY <1>1, <1>2 DEF AbortedIsReplaced
  <2>1. PICK r \in Points : /\ q < r /\ commit[r] = commit[q]
                            /\ task[r] \in {"waiting", "sent", "failed"}
    BY DEF Chains, AbortedIsReplaced
  <2>. QED  BY <2>1 DEF Recedes, TasksEnd
<1>. QED  BY <1>4, <1>5, <1>6 DEF Chains

LEMMA RecedesPatience ==
  ASSUME Order, Patience, Recedes, SignalsUnused
  PROVE  Patience'
<1>. SUFFICES ASSUME patient
              PROVE  (GuardedUnreleased /\ GuardedIsLatest /\ SignalsAfterUse /\ EarlierReturned)'
  BY DEF Patience, Recedes, historyVars
<1>. TypeOK /\ GuardedUnreleased /\ GuardedIsLatest /\ SignalsAfterUse /\ EarlierReturned
  BY DEF Patience, Order
<1>1. \A r \in Points : Drawn(r)' <=> Drawn(r)
  BY DEF Recedes, TasksEnd, Drawn, TypeOK
<1>2. GuardedUnreleased'
  <2>. SUFFICES ASSUME NEW r \in Points, Guarded(r)' PROVE task'[r] = "waiting"
    BY DEF GuardedUnreleased
  <2>1. Guarded(r) /\ task[r] = "waiting"
    BY RecedesGuarded DEF GuardedUnreleased
  <2>2. ~Passed(r)
    BY <2>1 DEF SignalsAfterUse, Passed, TypeOK, Points
  <2>3. task'[r] # "failed"
    BY DEF Guarded, Excused
  <2>. QED  BY <2>1, <2>2, <2>3 DEF Recedes, TasksEnd
<1>3. GuardedIsLatest'
  BY <1>1, RecedesGuarded DEF GuardedIsLatest
<1>4. SignalsAfterUse'
  <2>. SUFFICES ASSUME NEW p \in signalled', NEW q \in Points, q <= p PROVE ~Guarded(q)'
    BY DEF SignalsAfterUse
  <2>1. CASE p \in signalled
    BY <2>1, RecedesGuarded DEF SignalsAfterUse
  <2>2. CASE p \in uploads
    <3>1. p + 1 \in Points /\ Drawn(p + 1) /\ q < p + 1
      BY <2>2 DEF Order, UploadsDrawn, TypeOK, Points, Drawn
    <3>. QED  BY <3>1, RecedesGuarded DEF GuardedIsLatest
  <2>3. CASE p \in Points /\ task'[p] # "none" /\ ~MayBeUsed(p)'
    BY <2>3, <1>3 DEF GuardedIsLatest, Guarded, Drawn, Points
  <2>. QED  BY <2>1, <2>2, <2>3 DEF SignalsUnused
<1>5. EarlierReturned'
  <2>. SUFFICES ASSUME NEW q \in Points, NEW p \in Points, Drawn(q), Drawn(p),
                       commit[q] < commit[p]
                PROVE  \E u \in Points : commit[u] = commit[q] /\ Released(u)'
    BY <1>1 DEF EarlierReturned, Returned, Recedes
  <2>1. PICK u \in Points : commit[u] = commit[q] /\ Released(u)
    BY DEF EarlierReturned, Returned
  <2>. QED  BY <2>1 DEF Released, Recedes, TasksEnd
<1>. QED  BY <1>2, <1>3, <1>4, <1>5

LEMMA RecedesKeeps == Invariant /\ Recedes /\ SignalsUnused => Invariant'
BY RecedesOrder, RecedesChains, RecedesPatience DEF Invariant

\* What SignalOnDrop's drop signals is of no more use.
LEMMA Dropped ==
  ASSUME TypeOK, UndrawnUnused, NEW new \in SUBSET Points, SignalsDropped(new)
  PROVE  \A p \in signalled' : \/ p \in signalled \union new
                               \/ p \in Points /\ task[p] # "none" /\ ~MayBeUsed(p)'
<1>1. \A p \in Referenced \ {NoSubmit} : p \in Points /\ task[p] # "none"
  BY DEF Referenced, Kept, UndrawnUnused, TypeOK
<1>2. \A p \in Points : p \notin Referenced' /\ ~Consumed(p)' => ~MayBeUsed(p)'
  BY DEF Referenced, Kept, Consumed, MayBeUsed, InUse
<1>. QED  BY <1>1, <1>2 DEF SignalsDropped

LEMMA OtherStep == ASSUME Invariant, NEW s \in Surfaces, CommitOther(s) PROVE Invariant'
<1>. Order /\ TypeOK /\ UndrawnUnused
  BY DEF Invariant, Order
<1>1. Recedes
  BY DEF CommitOther, Places, Recedes, CurrentRecedes, ShellsRecede, TasksEnd, TypeOK
<1>2. SignalsUnused
  BY Dropped DEF CommitOther, SignalsUnused
<1>. QED  BY <1>1, <1>2, RecedesKeeps

LEMMA ApplyStep == ASSUME Invariant, NEW s \in Surfaces, Apply(s) PROVE Invariant'
<1>. Order /\ TypeOK /\ UndrawnUnused
  BY DEF Invariant, Order
<1>. buffered[s] \in Points /\ buffered[s] # NoSubmit
  BY DEF Apply, TypeOK
<1>1. Recedes
  BY DEF Apply, Recedes, CurrentRecedes, ShellsRecede, TasksEnd, TypeOK
<1>2. SignalsUnused
  BY Dropped DEF Apply, SignalsUnused
<1>. QED  BY <1>1, <1>2, RecedesKeeps

LEMMA DropStep == ASSUME Invariant, NEW s \in Surfaces, DropSurface(s) PROVE Invariant'
<1>. Order /\ TypeOK /\ UndrawnUnused
  BY DEF Invariant, Order
<1>1. Recedes
  BY DEF DropSurface, Recedes, CurrentRecedes, ShellsRecede, TasksEnd, TypeOK
<1>2. SignalsUnused
  BY Dropped DEF DropSurface, SignalsUnused
<1>. QED  BY <1>1, <1>2, RecedesKeeps

LEMMA UploadStep == ASSUME Invariant, NEW a \in Points, UploadEnds(a) PROVE Invariant'
<1>1. Recedes
  BY DEF Invariant, Order, UploadEnds, Recedes, CurrentRecedes, ShellsRecede, TasksEnd, TypeOK
<1>2. SignalsUnused
  BY DEF UploadEnds, SignalsUnused
<1>. QED  BY <1>1, <1>2, RecedesKeeps

LEMMA ShellStep ==
  ASSUME Invariant, NEW r \in Points, ShellConsumes(r) \/ ShellDrops(r) \/ ShellIsLost(r)
  PROVE  Invariant'
<1>. Order /\ TypeOK /\ UndrawnUnused
  BY DEF Invariant, Order
<1>1. Recedes
  BY DEF ShellConsumes, ShellDrops, ShellIsLost, Recedes, CurrentRecedes, ShellsRecede, TasksEnd,
         InUse, TypeOK
<1>2. SignalsUnused
  BY Dropped DEF ShellConsumes, ShellDrops, ShellIsLost, SignalsUnused
<1>. QED  BY <1>1, <1>2, RecedesKeeps

LEMMA FinishStep == ASSUME Invariant, NEW r \in Points, ShellFinishes(r) PROVE Invariant'
<1>. Order /\ TypeOK /\ UndrawnUnused
  BY DEF Invariant, Order
<1>1. Recedes
  BY DEF ShellFinishes, Recedes, CurrentRecedes, ShellsRecede, TasksEnd, InUse, TypeOK
<1>2. task[r] # "none" /\ \A s \in Surfaces : buffered[s] # r
  BY PointAssumption DEF ShellFinishes, UndrawnUnused, Order, BufferedOnce, Points
<1>3. ~MayBeUsed(r)'
  BY <1>2 DEF ShellFinishes, MayBeUsed, InUse, TypeOK
<1>4. SignalsUnused
  BY <1>2, <1>3 DEF ShellFinishes, SignalsUnused
<1>. QED  BY <1>1, <1>4, RecedesKeeps

LEMMA TaskStep ==
  ASSUME Invariant, NEW r \in Points, TaskReleases(r) \/ TaskFails(r)
  PROVE  Invariant'
<1>1. Recedes
  BY DEF Invariant, Order, TaskReleases, TaskFails, Recedes, CurrentRecedes, ShellsRecede,
         TasksEnd, TypeOK
<1>2. SignalsUnused
  BY DEF TaskReleases, TaskFails, SignalsUnused
<1>. QED  BY <1>1, <1>2, RecedesKeeps

(* Steps that draw a submission *)

\* Submission r is new, on surface s: with a shell, buffered, or nowhere.
Draws(s, r) ==
  /\ r \in Points /\ task[r] = "none" /\ next <= r
  /\ next' \in 0..(MaxPoint + 1) /\ r < next'
  /\ \A a \in uploads' : a \in uploads \/ (a \in Points /\ a + 1 = r)
  /\ current' \in [Surfaces -> Points \union {NoSubmit}]
  /\ buffered' \in [Surfaces -> Points \union {NoSubmit}]
  /\ \A t \in Surfaces : /\ current'[t] \in {current[t], NoSubmit, r}
                         /\ buffered'[t] \in {buffered[t], NoSubmit} \/ (t = s /\ buffered'[t] = r)
  /\ shell' \in [Points -> {"none", "holds", "reads", "done", "dropped", "lost"}]
  /\ \A q \in Points : q # r => shell'[q] = shell[q]
  /\ buffered'[s] = r => shell'[r] = "none" /\ current'[s] # r
  /\ \A t \in Surfaces : t # s => current'[t] = current[t]
  /\ task' \in [Points -> {"none", "waiting", "sent", "failed", "aborted"}]
  /\ task'[r] = "waiting"
  /\ \A q \in Points : q # r => task'[q] \in {task[q], Aborted(task[q])}
  /\ commit' \in [Points -> Points] /\ commit'[r] <= r
  /\ \A q \in Points : q # r => commit'[q] = commit[q]
  /\ patient' \in BOOLEAN /\ (patient' => patient)
  /\ again \subseteq again' /\ again' \subseteq again \union {r}

LEMMA DrawsOrder ==
  ASSUME Order, NEW s \in Surfaces, NEW r \in Points, Draws(s, r), SignalsUnused
  PROVE  Order'
<1>. TypeOK
  BY DEF Order
<1>1. \A q \in Points : task'[q] = "none" <=> task[q] = "none" /\ q # r
  BY DEF Draws, Aborted, TypeOK
<1>2. TypeOK'
  <2>1. \A q \in Points : task'[q] # "none" => q < next'
    BY <1>1 DEF Draws, TypeOK, Points
  <2>. /\ next \in Nat /\ next' \in Nat /\ r \in Nat /\ next <= r /\ r < next'
       /\ \A p \in Points : p \in Nat
    BY PointAssumption DEF Draws, TypeOK, Points
  <2>2. ASSUME NEW p \in uploads' PROVE p \in Points /\ p < next'
    <3>1. CASE p \in uploads
      <4>1. p \in Points /\ p < next
        BY <3>1 DEF TypeOK
      <4>. QED  BY <4>1
    <3>2. CASE p \in Points /\ p + 1 = r
      BY <3>2
    <3>. QED  BY <3>1, <3>2 DEF Draws
  <2>3. ASSUME NEW p \in signalled' PROVE p \in Points /\ p < next'
    <3>1. CASE p \in signalled \union uploads
      <4>1. p \in Points /\ p < next
        BY <3>1 DEF TypeOK
      <4>. QED  BY <4>1
    <3>2. CASE p \in Points /\ task'[p] # "none"
      BY <3>2, <2>1
    <3>. QED  BY <3>1, <3>2 DEF SignalsUnused
  <2>. QED  BY <2>1, <2>2, <2>3 DEF Draws, TypeOK
<1>3. UndrawnUnused'
  <2>. SUFFICES ASSUME NEW q \in Points, task[q] = "none", q # r
                PROVE  /\ shell'[q] = "none" /\ commit'[q] = q /\ q \notin again'
                       /\ \A t \in Surfaces : current'[t] # q /\ buffered'[t] # q
    BY <1>1 DEF UndrawnUnused
  <2>1. /\ shell[q] = "none" /\ commit[q] = q /\ q # NoSubmit /\ q \notin again
        /\ \A t \in Surfaces : current[t] # q /\ buffered[t] # q
    BY PointAssumption DEF Order, UndrawnUnused, Points
  <2>. QED  BY <2>1 DEF Draws
<1>4. UploadsDrawn'
  BY <1>1 DEF Order, UploadsDrawn, Draws
<1>5. BufferedOnce'
  <2>. SUFFICES ASSUME NEW t \in Surfaces, buffered'[t] # NoSubmit
                PROVE  /\ shell'[buffered'[t]] = "none"
                       /\ \A u \in Surfaces : /\ current'[u] # buffered'[t]
                                              /\ u # t => buffered'[u] # buffered'[t]
    BY DEF BufferedOnce
  <2>1. \A u \in Surfaces : current[u] # r /\ buffered[u] # r
    BY DEF Order, UndrawnUnused, Draws
  <2>2. CASE buffered'[t] = r
    <3>1. t = s /\ r # NoSubmit
      BY <2>1, <2>2, PointAssumption DEF Draws, Points
    <3>. QED  BY <2>1, <2>2, <3>1 DEF Draws
  <2>3. CASE buffered'[t] # r
    <3>1. buffered'[t] = buffered[t] /\ buffered[t] \in Points /\ buffered[t] # NoSubmit
      BY <2>3 DEF Draws, TypeOK
    <3>. QED  BY <2>3, <3>1 DEF Order, BufferedOnce, Draws
  <2>. QED  BY <2>2, <2>3
<1>6. CurrentOnce'
  <2>1. \A t \in Surfaces : current[t] # r
    BY DEF Order, UndrawnUnused, Draws
  <2>. QED  BY <2>1 DEF Order, CurrentOnce, Draws
<1>7. CommitsBefore'
  BY DEF Order, CommitsBefore, Draws
<1>. QED  BY <1>2, <1>3, <1>4, <1>5, <1>6, <1>7 DEF Order

\* Of the others none comes into use, and none loses its excuse.
LEMMA DrawsGuarded ==
  ASSUME Order, NEW s \in Surfaces, NEW r \in Points, Draws(s, r), NEW q \in Points, q # r,
         Guarded(q)'
  PROVE  Guarded(q)
<1>. TypeOK
  BY DEF Order
<1>1. InUse(q)' => InUse(q)
  <2>1. shell'[q] = shell[q]
    BY DEF Draws
  <2>. QED  BY <2>1 DEF InUse
<1>2. ASSUME NEW t \in Surfaces, buffered'[t] = q PROVE buffered[t] = q
  <2>1. q # NoSubmit
    BY PointAssumption DEF Points
  <2>2. buffered'[t] \in {buffered[t], NoSubmit, r}
    BY DEF Draws
  <2>. QED  BY <1>2, <2>1, <2>2
<1>3. \A p \in Points : Drawn(p) => Drawn(p)' /\ commit'[p] = commit[p]
  BY DEF Draws, Drawn, Aborted, TypeOK
<1>4. task[q] = "failed" => task'[q] = "failed"
  <2>1. task'[q] \in {task[q], Aborted(task[q])}
    BY DEF Draws
  <2>. QED  BY <2>1 DEF Aborted
<1>5. Excused(q) => Excused(q)'
  <2>1. commit'[q] = commit[q] /\ again \subseteq again'
    BY DEF Draws
  <2>. QED  BY <1>3, <1>4, <2>1 DEF Excused, Drawn
<1>. QED  BY <1>1, <1>2, <1>5 DEF Guarded, MayBeUsed

\* The surfaces keep none but the new one that they had not kept.
LEMMA DrawsKept ==
  ASSUME NEW s \in Surfaces, NEW r \in Points, Draws(s, r), NEW q \in Points, q # r, q \in Kept'
  PROVE  q \in Kept
<1>1. q # NoSubmit
  BY PointAssumption DEF Points
<1>2. PICK t \in Surfaces : current'[t] = q \/ buffered'[t] = q
  BY DEF Kept
<1>3. current'[t] \in {current[t], NoSubmit, r} /\ buffered'[t] \in {buffered[t], NoSubmit, r}
  BY DEF Draws
<1>4. current[t] = q \/ buffered[t] = q
  BY <1>1, <1>2, <1>3
<1>. QED  BY <1>4 DEF Kept

\* When nothing else is guarded, the new submission may be.
LEMMA DrawsPatience ==
  ASSUME Order, NEW s \in Surfaces, NEW r \in Points, Draws(s, r), SignalsUnused, Order',
         patient' => EarlierReturned' /\ \A q \in Points : q # r => ~Guarded(q)'
  PROVE  Patience'
<1>. SUFFICES ASSUME patient'
              PROVE  (GuardedUnreleased /\ GuardedIsLatest /\ SignalsAfterUse)'
  BY DEF Patience
<1>. TypeOK
  BY DEF Order
<1>1. GuardedUnreleased'
  BY DEF GuardedUnreleased, Draws
<1>2. GuardedIsLatest'
  <2>. SUFFICES ASSUME NEW q \in Points, NEW p \in Points, q < p, task'[p] # "none"
                PROVE  ~Guarded(q)'
    BY DEF GuardedIsLatest, Drawn
  <2>1. q # r
    BY DEF Draws, Aborted, TypeOK, Points
  <2>. QED  BY <2>1
<1>3. SignalsAfterUse'
  <2>. SUFFICES ASSUME NEW p \in signalled', NEW q \in Points, q <= p PROVE ~Guarded(q)'
    BY DEF SignalsAfterUse
  <2>1. CASE p \in signalled \union uploads
    <3>1. q # r
      BY <2>1 DEF Draws, TypeOK, Points
    <3>. QED  BY <3>1
  <2>2. CASE p \in Points /\ task'[p] # "none" /\ ~MayBeUsed(p)'
    BY <2>2, <1>2 DEF GuardedIsLatest, Guarded, Drawn, Points
  <2>. QED  BY <2>1, <2>2 DEF SignalsUnused
<1>. QED  BY <1>1, <1>2, <1>3

\* The new submission is the latest of its commit, and the surfaces keep no other of it.
LEMMA DrawsChains ==
  ASSUME Order, Chains, NEW s \in Surfaces, NEW r \in Points, Draws(s, r),
         \A q \in Points : q \in Kept' /\ q # r => commit[q] # commit'[r],
         \A q \in Points : q # r /\ Drawn(q) /\ commit[q] = commit'[r] =>
           task'[q] = "aborted" \/ r \in again',
         r \in again' => Returned(commit'[r]),
         AbortedIsReplaced'
  PROVE  Chains'
<1>. TypeOK
  BY DEF Order
<1>1. \A q \in Points \ {r} : /\ Drawn(q)' <=> Drawn(q)
                              /\ commit'[q] = commit[q]
                              /\ task[q] = "aborted" => task'[q] = "aborted"
                              /\ Released(q) => Released(q)'
  <2>. SUFFICES ASSUME NEW q \in Points \ {r}
                PROVE  /\ Drawn(q)' <=> Drawn(q)
                       /\ task[q] = "aborted" => task'[q] = "aborted"
                       /\ Released(q) => Released(q)'
    BY DEF Draws
  <2>1. task'[q] \in {task[q], Aborted(task[q])}
    BY DEF Draws
  <2>. QED  BY <2>1 DEF Aborted, Drawn, Released
<1>2. ~Drawn(r) /\ ~Released(r)
  BY DEF Draws, Drawn, Released
<1>3. \A q \in Points : Drawn(q)' => q <= r
  BY <1>1 DEF Drawn, Draws, TypeOK, Points
<1>4. LatestKept'
  <2>. SUFFICES ASSUME NEW q \in Points, NEW p \in Points, q \in Kept', Drawn(p)',
                       commit'[p] = commit'[q]
                PROVE  p <= q
    BY DEF LatestKept
  <2>1. CASE q = r
    BY <1>3, <2>1
  <2>2. CASE q # r
    <3>1. p # r
      BY <1>1, <2>2
    <3>2. q \in Kept
      BY <2>2, DrawsKept
    <3>. QED  BY <1>1, <2>2, <3>1, <3>2 DEF Chains, LatestKept
  <2>. QED  BY <2>1, <2>2
<1>5. EarlierAborted'
  <2>. SUFFICES ASSUME NEW q \in Points, NEW p \in Points, q < p, commit'[q] = commit'[p],
                       Drawn(q)', Drawn(p)'
                PROVE  task'[q] = "aborted" \/ p \in again'
    BY DEF EarlierAborted
  <2>1. q # r
    BY <1>3 DEF Points
  <2>2. CASE p = r
    BY <1>1, <2>1, <2>2
  <2>3. CASE p # r
    <3>1. task[q] = "aborted" \/ p \in again
      BY <1>1, <2>1, <2>3 DEF Chains, EarlierAborted
    <3>. QED  BY <1>1, <2>1, <3>1 DEF Draws
  <2>. QED  BY <2>2, <2>3
<1>6. AgainReturned'
  <2>. SUFFICES ASSUME NEW q \in again'
                PROVE  \E u \in Points : commit'[u] = commit'[q] /\ Released(u)'
    BY DEF AgainReturned, Returned
  <2>1. PICK u \in Points : commit[u] = commit'[q] /\ Released(u)
    <3>1. CASE q = r
      BY <3>1 DEF Returned
    <3>2. CASE q # r
      <4>1. q \in again /\ q \in Points /\ commit'[q] = commit[q]
        BY <1>1, <3>2 DEF Draws, TypeOK
      <4>. QED  BY <4>1 DEF Chains, AgainReturned, Returned
    <3>. QED  BY <3>1, <3>2
  <2>. QED  BY <1>1, <1>2, <2>1
<1>. QED  BY <1>4, <1>5, <1>6 DEF Chains

\* Where Places puts a submission that is new.
LEMMA Placed ==
  ASSUME Order, NEW s \in Surfaces, NEW r \in Points, task[r] = "none", Places(s, r)
  PROVE  /\ current' \in [Surfaces -> Points \union {NoSubmit}]
         /\ buffered' \in [Surfaces -> Points \union {NoSubmit}]
         /\ \A t \in Surfaces :
              /\ current'[t] \in {current[t], NoSubmit, r}
              /\ buffered'[t] \in {buffered[t], NoSubmit} \/ (t = s /\ buffered'[t] = r)
              /\ t # s => current'[t] = current[t]
         /\ shell' \in [Points -> {"none", "holds", "reads", "done", "dropped", "lost"}]
         /\ \A q \in Points : q # r => shell'[q] = shell[q]
         /\ buffered'[s] = r => shell'[r] = "none" /\ current'[s] # r
<1>. TypeOK /\ shell[r] = "none" /\ buffered[s] # r /\ r # NoSubmit
  BY PointAssumption DEF Order, UndrawnUnused, Points
<1>1. CASE current' = [current EXCEPT ![s] = r] /\ UNCHANGED buffered
  BY <1>1 DEF Places, TypeOK
<1>2. CASE /\ current' = [current EXCEPT ![s] = NoSubmit]
           /\ buffered' = [buffered EXCEPT ![s] = r]
           /\ UNCHANGED shell
  BY <1>2 DEF TypeOK
<1>. QED  BY <1>1, <1>2 DEF Places

\* A guarded submission is the last of its commit, which was not released.
LEMMA GuardedOwed ==
  ASSUME Invariant, patient, NEW q \in Points, Guarded(q)
  PROVE  ~Returned(commit[q]) /\ task[q] = "waiting"
<1>1. task[q] = "waiting"
  BY DEF Invariant, Patience, GuardedUnreleased
<1>. SUFFICES ASSUME NEW p \in Points, commit[p] = commit[q], Released(p)
              PROVE  FALSE
  BY <1>1 DEF Returned
<1>2. p # q /\ Drawn(p) /\ Drawn(q) /\ task[p] # "aborted"
  BY <1>1 DEF Released, Drawn
<1>3. CASE q < p
  BY <1>2, <1>3 DEF Guarded, Excused, Drawn
<1>4. CASE p < q
  <2>1. q \in again
    BY <1>2, <1>4 DEF Invariant, Chains, EarlierAborted
  <2>. QED  BY <2>1 DEF Guarded, Excused, Points
<1>. QED  BY <1>2, <1>3, <1>4 DEF Points

\* A client that waits has nothing guarded when it commits the buffer again.
LEMMA CommitStep == ASSUME Invariant, NEW s \in Surfaces, CommitBuffer(s) PROVE Invariant'
<1>. Order /\ TypeOK /\ UndrawnUnused /\ Chains /\ AbortedIsReplaced
  BY DEF Invariant, Order, Chains
<1>. next + 1 \in Points
  BY PointAssumption DEF CommitBuffer, Submits, TypeOK, Points
<1>. PICK r \in Points : r = next + 1
  OBVIOUS
<1>1. /\ r \in Points /\ next \in Points /\ next \in Nat /\ next' = r + 1
      /\ next' \in 0..(MaxPoint + 1)
  BY PointAssumption DEF CommitBuffer, Submits, TypeOK, Points
<1>2. task[r] = "none" /\ shell[r] = "none" /\ commit[r] = r
  BY <1>1 DEF TypeOK, UndrawnUnused, Points
<1>3. /\ task' = [task EXCEPT ![r] = "waiting"] /\ uploads' = uploads \union {next}
      /\ patient' = (patient /\ Free) /\ commit' = commit /\ again' = again
  BY DEF CommitBuffer, Submits
<1>4. Draws(s, r)
  <2>1. CASE Places(s, r)
    BY <1>1, <1>2, <1>3, <2>1, Placed DEF Draws, TypeOK, Points
  <2>2. CASE UNCHANGED <<current, buffered, shell>>
    <3>1. buffered[s] # r
      BY <1>1, <1>2 DEF UndrawnUnused
    <3>. QED  BY <1>1, <1>2, <1>3, <2>2, <3>1 DEF Draws, TypeOK, Points
  <2>. QED  BY <2>1, <2>2 DEF CommitBuffer, Submits
<1>5. SignalsUnused
  <2>1. CASE SignalsDropped({})
    BY <2>1, <1>2, <1>3, Dropped DEF SignalsUnused, TypeOK
  <2>2. CASE UNCHANGED <<current, buffered, shell>> /\ SignalsDropped({r})
    <3>1. ~MayBeUsed(r)'
      BY <1>1, <1>2, <2>2 DEF UndrawnUnused, MayBeUsed, InUse
    <3>. QED  BY <2>2, <3>1, <1>1, <1>2, <1>3, Dropped DEF SignalsUnused, TypeOK
  <2>. QED  BY <2>1, <2>2 DEF CommitBuffer, Submits
<1>6. Order'
  BY <1>1, <1>4, <1>5, DrawsOrder
<1>7. AbortedIsReplaced'
  BY <1>2, <1>3 DEF AbortedIsReplaced, TypeOK
<1>8. \A q \in Points : q # r /\ Drawn(q) => commit[q] < r
  <2>. SUFFICES ASSUME NEW q \in Points, Drawn(q) PROVE commit[q] < r
    OBVIOUS
  <2>1. q < next /\ commit[q] <= q /\ commit[q] \in Points
    BY DEF Order, CommitsBefore, TypeOK, Drawn
  <2>. QED  BY <1>1, <2>1 DEF Points
<1>9. Chains'
  <2>1. ASSUME NEW q \in Points, q \in Kept', q # r PROVE commit[q] # r
    <3>1. q \in Kept
      BY <1>4, <2>1, DrawsKept
    <3>2. Drawn(q)
      BY <3>1 DEF Kept, UndrawnUnused, Drawn
    <3>. QED  BY <1>1, <1>8, <2>1, <3>2 DEF TypeOK, Points
  <2>2. \A q \in Points : q # r /\ Drawn(q) => commit[q] # r
    BY <1>1, <1>8 DEF TypeOK, Points
  <2>3. commit'[r] = r /\ r \notin again'
    BY <1>2, <1>3 DEF UndrawnUnused
  <2>. QED  BY <1>1, <1>4, <1>7, <2>1, <2>2, <2>3, DrawsChains
<1>10. ASSUME patient' PROVE EarlierReturned' /\ \A q \in Points : q # r => ~Guarded(q)'
  <2>1. patient /\ \A q \in Points : Drawn(q) => Returned(commit[q])
    BY <1>3, <1>10 DEF Free, Drawn
  <2>2. \A q \in Points : q # r => ~Guarded(q)'
    <3>. SUFFICES ASSUME NEW q \in Points, q # r, Guarded(q)' PROVE FALSE
      OBVIOUS
    <3>1. Guarded(q)
      BY <1>4, DrawsGuarded
    <3>. QED  BY <2>1, <3>1, GuardedOwed DEF Drawn
  <2>3. ASSUME NEW q \in Points, NEW p \in Points, Drawn(q)', Drawn(p)', commit'[q] < commit'[p]
        PROVE  \E u \in Points : commit'[u] = commit'[q] /\ Released(u)'
    <3>1. \A u \in Points : u # r => /\ Drawn(u)' => Drawn(u)
                                     /\ Released(u) => Released(u)'
      BY <1>3 DEF Drawn, Released, TypeOK
    <3>2. q # r
      <4>1. p # r => commit[p] < r /\ commit[p] \in Points
        BY <1>8, <2>3, <3>1 DEF TypeOK
      <4>. QED  BY <1>1, <1>2, <1>3, <2>3, <4>1 DEF Points
    <3>3. PICK u \in Points : commit[u] = commit[q] /\ Released(u)
      BY <2>1, <2>3, <3>1, <3>2 DEF Returned
    <3>4. u # r
      BY <1>2, <3>3 DEF Released
    <3>. QED  BY <1>3, <3>1, <3>3, <3>4
  <2>. QED  BY <2>2, <2>3 DEF EarlierReturned, Returned
<1>11. Patience'
  BY <1>1, <1>4, <1>5, <1>6, <1>10, DrawsPatience
<1>. QED  BY <1>6, <1>9, <1>11 DEF Invariant

\* The new task waits in place of the old one, which is aborted.
LEMMA ReapplyStep == ASSUME Invariant, NEW s \in Surfaces, Reapply(s) PROVE Invariant'
<1>. Order /\ TypeOK /\ UndrawnUnused /\ Chains /\ AbortedIsReplaced
  BY DEF Invariant, Order, Chains
<1>. next \in Points /\ current[s] \in Points
  BY PointAssumption DEF Reapply, Resubmits, TypeOK, Points
<1>. PICK r \in Points, old \in Points : r = next /\ old = current[s]
  OBVIOUS
<1>1. /\ r \in Points /\ r \in Nat /\ next' = r + 1 /\ next' \in 0..(MaxPoint + 1)
  BY PointAssumption DEF Reapply, Resubmits, TypeOK, Points
<1>2. task[r] = "none" /\ shell[r] = "none"
  BY <1>1 DEF TypeOK, UndrawnUnused, Points
<1>3. old \in Points /\ task[old] # "none" /\ old < r /\ old # r
  BY <1>1, PointAssumption DEF Reapply, Resubmits, TypeOK, UndrawnUnused, Points
<1>4. /\ task' = [task EXCEPT ![old] = Aborted(@), ![r] = "waiting"]
      /\ uploads' = uploads /\ commit' = [commit EXCEPT ![r] = commit[old]]
      /\ again' = IF Returned(commit[old]) THEN again \union {r} ELSE again
      /\ patient' = patient
  BY DEF Reapply, Resubmits
<1>5. Draws(s, r)
  <2>1. /\ \A q \in Points : q # r => task'[q] \in {task[q], Aborted(task[q])}
        /\ task'[r] = "waiting"
    BY <1>1, <1>3, <1>4 DEF TypeOK
  <2>2. task' \in [Points -> {"none", "waiting", "sent", "failed", "aborted"}]
    BY <1>1, <1>3, <1>4 DEF TypeOK, Aborted
  <2>3. /\ commit' \in [Points -> Points] /\ commit'[r] <= r
        /\ \A q \in Points : q # r => commit'[q] = commit[q]
    BY <1>1, <1>3, <1>4 DEF Order, CommitsBefore, TypeOK, Points
  <2>4. buffered[s] # r
    BY <1>1, <1>2 DEF UndrawnUnused
  <2>5. CASE Places(s, r)
    BY <1>1, <1>2, <1>4, <2>1, <2>2, <2>3, <2>5, Placed DEF Draws, TypeOK
  <2>6. CASE current' = [current EXCEPT ![s] = NoSubmit] /\ UNCHANGED <<buffered, shell>>
    BY <1>1, <1>2, <1>4, <2>1, <2>2, <2>3, <2>4, <2>6 DEF Draws, TypeOK
  <2>. QED  BY <2>5, <2>6 DEF Reapply, Resubmits
<1>6. \A q \in Points : task[q] # "none" => task'[q] # "none"
  BY <1>2, <1>3, <1>4 DEF TypeOK, Aborted
<1>7. SignalsUnused
  <2>1. CASE SignalsDropped({})
    BY <2>1, <1>6, Dropped DEF SignalsUnused
  <2>2. CASE UNCHANGED <<buffered, shell>> /\ SignalsDropped({r})
    <3>1. ~MayBeUsed(r)' /\ task'[r] # "none"
      BY <1>1, <1>2, <1>4, <2>2 DEF UndrawnUnused, MayBeUsed, InUse, TypeOK
    <3>. QED  BY <2>2, <3>1, <1>1, <1>6, Dropped DEF SignalsUnused
  <2>. QED  BY <2>1, <2>2 DEF Reapply, Resubmits
<1>8. Order'
  BY <1>1, <1>5, <1>7, DrawsOrder
<1>9. commit'[r] = commit[old] /\ \A q \in Points : q # r => commit'[q] = commit[q]
  BY <1>1, <1>4 DEF TypeOK
<1>10. Drawn(old) /\ old \in Kept
  BY <1>3 DEF Drawn, Kept
<1>11. AbortedIsReplaced'
  <2>. SUFFICES ASSUME NEW q \in Points, task'[q] = "aborted"
                PROVE  \E p \in Points : /\ q < p /\ commit'[p] = commit'[q]
                                         /\ task'[p] \in {"waiting", "sent", "failed"}
    BY DEF AbortedIsReplaced
  <2>1. /\ task'[r] = "waiting" /\ commit'[r] = commit[old] /\ q # r
        /\ \A u \in Points : u # r => commit'[u] = commit[u]
        /\ \A u \in Points : u \notin {r, old} => task'[u] = task[u]
    BY <1>1, <1>3, <1>4 DEF TypeOK
  <2>2. CASE q = old
    BY <1>1, <1>3, <2>1, <2>2
  <2>3. CASE q # old
    <3>1. PICK p \in Points : /\ q < p /\ commit[p] = commit[q]
                              /\ task[p] \in {"waiting", "sent", "failed"}
      BY <2>1, <2>3 DEF AbortedIsReplaced
    <3>2. p # r
      BY <1>2, <3>1
    <3>3. CASE p = old
      BY <1>1, <1>3, <2>1, <3>1, <3>3 DEF Points
    <3>4. CASE p # old
      BY <2>1, <3>1, <3>2, <3>4
    <3>. QED  BY <3>3, <3>4
  <2>. QED  BY <2>2, <2>3
<1>12. Chains'
  <2>1. ASSUME NEW q \in Points, q \in Kept', q # r PROVE commit[q] # commit[old]
    <3>. SUFFICES ASSUME commit[q] = commit[old] PROVE FALSE
      OBVIOUS
    <3>1. q \in Kept
      BY <1>5, <2>1, DrawsKept
    <3>2. Drawn(q)
      BY <3>1 DEF Kept, UndrawnUnused, Drawn
    <3>3. q <= old /\ old <= q
      BY <1>10, <3>1, <3>2 DEF Chains, LatestKept
    <3>4. q = old
      BY <3>3 DEF Points
    <3>5. \A t \in Surfaces : buffered'[t] # old
      <4>1. \A t \in Surfaces : buffered[t] # old
        BY PointAssumption DEF Order, BufferedOnce, Points
      <4>2. \A t \in Surfaces : buffered'[t] \in {buffered[t], NoSubmit, r}
        BY <1>5 DEF Draws
      <4>3. old # NoSubmit
        BY PointAssumption DEF Points
      <4>. QED  BY <1>3, <4>1, <4>2, <4>3
    <3>6. \A t \in Surfaces : current'[t] # old
      <4>1. \A t \in Surfaces : t # s => current[t] # old
        BY PointAssumption DEF Order, CurrentOnce, Points
      <4>2. current'[s] # old
        BY <1>3, PointAssumption DEF Reapply, Resubmits, Places, TypeOK, Points
      <4>. QED  BY <1>5, <4>1, <4>2 DEF Draws
    <3>. QED  BY <2>1, <3>4, <3>5, <3>6 DEF Kept
  <2>2. ASSUME NEW q \in Points, q # r, Drawn(q), commit[q] = commit[old]
        PROVE  task'[q] = "aborted" \/ r \in again'
    <3>1. q <= old
      BY <1>10, <2>2 DEF Chains, LatestKept
    <3>2. CASE q = old
      <4>1. task[old] = "waiting" \/ task[old] = "aborted" \/ Released(old)
        BY <1>3 DEF Released, TypeOK
      <4>2. CASE Released(old)
        BY <1>4, <4>2 DEF Returned
      <4>3. CASE task[old] = "waiting" \/ task[old] = "aborted"
        BY <1>3, <1>4, <3>2, <4>3 DEF Aborted, TypeOK
      <4>. QED  BY <4>1, <4>2, <4>3
    <3>3. CASE q # old
      <4>1. q < old
        BY <3>1, <3>3 DEF Points
      <4>2. task[q] = "aborted" \/ old \in again
        BY <1>10, <2>2, <4>1 DEF Chains, EarlierAborted
      <4>3. CASE task[q] = "aborted"
        BY <1>4, <2>2, <3>3, <4>3 DEF TypeOK
      <4>4. CASE old \in again
        BY <1>4, <4>4 DEF Chains, AgainReturned
      <4>. QED  BY <4>2, <4>3, <4>4
    <3>. QED  BY <3>2, <3>3
  <2>3. r \in again' => Returned(commit[old])
    BY <1>2, <1>4 DEF UndrawnUnused
  <2>. QED  BY <1>1, <1>5, <1>9, <1>11, <2>1, <2>2, <2>3, DrawsChains
<1>13. \A u \in Points : Released(u) => Released(u)' /\ commit'[u] = commit[u]
  <2>. SUFFICES ASSUME NEW u \in Points, Released(u) PROVE Released(u)' /\ commit'[u] = commit[u]
    OBVIOUS
  <2>1. u # r
    BY <1>2 DEF Released
  <2>2. Released(u)'
    BY <1>3, <1>4, <2>1 DEF Released, Aborted, TypeOK
  <2>. QED  BY <1>9, <2>1, <2>2
<1>14. ASSUME patient, NEW q \in Points, q # r PROVE ~Guarded(q)'
  <2>. SUFFICES ASSUME Guarded(q)' PROVE FALSE
    OBVIOUS
  <2>1. Guarded(q) /\ ~Returned(commit[q]) /\ task[q] = "waiting"
    BY <1>5, <1>14, DrawsGuarded, GuardedOwed
  <2>2. commit[q] # commit[old]
    <3>. SUFFICES ASSUME commit[q] = commit[old] PROVE FALSE
      OBVIOUS
    <3>1. q < r /\ commit'[r] = commit'[q] /\ task'[r] # "none"
      <4>1. q < next
        BY <2>1 DEF TypeOK
      <4>. QED  BY <1>1, <1>3, <1>4, <1>9, <1>14, <4>1 DEF TypeOK
    <3>. QED  BY <3>1 DEF Guarded, Excused
  <2>3. Drawn(q) /\ EarlierReturned /\ GuardedIsLatest
    BY <1>14, <2>1 DEF Drawn, Invariant, Patience
  <2>4. commit[old] < commit[q]
    BY <1>10, <2>1, <2>2, <2>3 DEF EarlierReturned, TypeOK, Points
  <2>5. Returned(commit[old])
    BY <1>10, <2>3, <2>4 DEF EarlierReturned
  <2>6. r \in again' /\ q <= r
    <3>1. q < next
      BY <2>1 DEF TypeOK
    <3>. QED  BY <1>1, <1>4, <2>5, <3>1 DEF TypeOK, Points
  <2>. QED  BY <2>6 DEF Guarded, Excused
<1>15. ASSUME patient PROVE EarlierReturned'
  <2>. SUFFICES ASSUME NEW q \in Points, NEW p \in Points, Drawn(q)', Drawn(p)',
                       commit'[q] < commit'[p]
                PROVE  \E w \in Points : commit'[w] = commit'[q] /\ Released(w)'
    BY DEF EarlierReturned, Returned
  <2>1. \A u \in Points : u # r => (Drawn(u)' => Drawn(u))
    BY <1>3, <1>4 DEF Drawn, TypeOK, Aborted
  <2>2. PICK u \in Points, v \in Points : /\ commit[u] = commit'[q] /\ Drawn(u)
                                          /\ commit[v] = commit'[p] /\ Drawn(v)
    BY <1>9, <1>10, <2>1
  <2>3. PICK w \in Points : commit[w] = commit[u] /\ Released(w)
    BY <1>15, <2>2 DEF Invariant, Patience, EarlierReturned, Returned
  <2>. QED  BY <1>13, <2>2, <2>3
<1>16. Patience'
  BY <1>1, <1>4, <1>5, <1>7, <1>8, <1>14, <1>15, DrawsPatience
<1>. QED  BY <1>8, <1>12, <1>16 DEF Invariant
-----------------------------------------------------------------------------
(* The theorems *)

LEMMA InvariantHolds == Spec => []Invariant
<1>1. Init => Invariant
  BY PointAssumption DEF Init, Invariant, Order, TypeOK, UndrawnUnused, UploadsDrawn, BufferedOnce,
     CurrentOnce, CommitsBefore, Chains, LatestKept, EarlierAborted, AgainReturned,
     AbortedIsReplaced, Patience, GuardedUnreleased, GuardedIsLatest, SignalsAfterUse,
     EarlierReturned, Guarded, MayBeUsed, InUse, Drawn, Points
<1>2. Invariant /\ UNCHANGED vars => Invariant'
  BY DEF vars, Invariant, Order, TypeOK, UndrawnUnused, UploadsDrawn, BufferedOnce,
     CurrentOnce, CommitsBefore, Chains, LatestKept, EarlierAborted, AgainReturned,
     AbortedIsReplaced, Patience, GuardedUnreleased, GuardedIsLatest, SignalsAfterUse,
     EarlierReturned, Guarded, MayBeUsed, InUse, Drawn, Kept, Returned, Released, Excused,
     historyVars
<1>3. Invariant /\ Next => Invariant'
  BY CommitStep, OtherStep, ApplyStep, ReapplyStep, DropStep, UploadStep, ShellStep, FinishStep,
     TaskStep DEF Next
<1>. QED  BY <1>1, <1>2, <1>3, PTL DEF Spec

\* The variables have their types, and whatever has a point has one that was drawn.
THEOREM Typing == Spec => []TypeOK
<1>1. Invariant => TypeOK
  BY DEF Invariant, Order
<1>. QED  BY <1>1, InvariantHolds, PTL

\* For any surfaces and any number of commits, switches of the shell and failures: a
\* client that commits the buffer only when all its commits were released gets no
\* release while a shell may still read the buffer for that commit or an earlier one,
\* except in the three ways of Excused, which the code leaves open: a wait that fails, a
\* shell that still uses what a switch has sent to another one, and a buffer sent again
\* after its release (signal_on_drop.rs:44-50, buffer.rs:88-143).
THEOREM ReleasedUnused == Spec => []NoEarlyRelease
<1>1. Invariant => NoEarlyRelease
  BY InvariantMeans
<1>. QED  BY <1>1, InvariantHolds, PTL

\* For any client, surfaces and number of switches, the second release of one commit is
\* that of a submission which a switch made when the commit was already released
\* (buffer.rs:122): the only way to a double release, which reapply does not prevent.
THEOREM ReleasedOnce == Spec => []OneReleasePerCommit
<1>1. Invariant => OneReleasePerCommit
  BY InvariantMeans
<1>. QED  BY <1>1, InvariantHolds, PTL

\* An aborted release task has one that stands for it (buffer.rs:121-125).
THEOREM Replacement == Spec => []AbortedIsReplaced
<1>1. Invariant => AbortedIsReplaced
  BY DEF Invariant, Chains
<1>. QED  BY <1>1, InvariantHolds, PTL
-----------------------------------------------------------------------------
(* Somebody signals what a task waits for *)

FinishedSignalled == \A r \in Points : shell[r] = "done" => Passed(r)

\* Signals stay. A reference goes with a signal, or to a shell that consumed; such a
\* shell signals when it is done; what waits anew has a reference or was signalled.
Signals ==
  /\ signalled \subseteq signalled'
  /\ \A r \in Points :
       /\ task'[r] = "waiting" => task[r] = "waiting" \/ r \in Referenced' \/ r \in signalled'
       /\ r \in Referenced => r \in Referenced' \/ Consumed(r)' \/ r \in signalled'
       /\ shell[r] \in {"reads", "lost"} =>
            shell'[r] \in {"reads", "lost"} \/ r \in Referenced' \/ r \in signalled'
       /\ shell'[r] = "done" => shell[r] = "done" \/ r \in signalled'

LEMMA SignalsKeep ==
  ASSUME TypeOK, TypeOK', FinishedSignalled, SomeoneSignals, Signals
  PROVE  (FinishedSignalled /\ SomeoneSignals)'
<1>1. /\ \A r \in Points : r \in signalled' => Passed(r)'
      /\ \A r \in Points : Passed(r) => Passed(r)'
  BY DEF Passed, Signals, Points
<1>2. FinishedSignalled'
  BY <1>1 DEF FinishedSignalled, Signals
<1>3. SomeoneSignals'
  <2>. SUFFICES ASSUME NEW r \in Points, task'[r] = "waiting", r \notin Referenced',
                       shell'[r] \notin {"reads", "lost"}, ~Passed(r)'
                PROVE  FALSE
    BY DEF SomeoneSignals
  <2>1. task[r] = "waiting" /\ ~Passed(r) /\ r \notin signalled'
    BY <1>1 DEF Signals
  <2>2. r \in Referenced \/ shell[r] \in {"reads", "lost"}
    BY <2>1 DEF SomeoneSignals
  <2>3. shell'[r] # "done"
    BY <1>2 DEF FinishedSignalled
  <2>. QED  BY <2>1, <2>2, <2>3 DEF Signals, Consumed
<1>. QED  BY <1>2, <1>3

\* What SignalOnDrop's drop makes of the references that go.
LEMMA DropSignals ==
  ASSUME NEW new, SignalsDropped(new)
  PROVE  /\ signalled \subseteq signalled'
         /\ \A r \in Points :
              r \in Referenced => r \in Referenced' \/ Consumed(r)' \/ r \in signalled'
         /\ \A r \in new : r \in signalled'
BY PointAssumption DEF SignalsDropped, Points

\* The steps by which no task comes to wait and no shell is done.
LEMMA LetsGoSignals ==
  ASSUME TypeOK, NEW s \in Surfaces, CommitOther(s) \/ Apply(s) \/ DropSurface(s)
  PROVE  Signals
<1>1. SignalsDropped({})
  BY DEF CommitOther, Apply, DropSurface
<1>2. task' = task
  BY DEF CommitOther, Apply, DropSurface
<1>3. \A r \in Points : shell'[r] = shell[r] \/ shell'[r] = "holds"
  BY DEF CommitOther, Apply, DropSurface, Places, TypeOK
<1>. QED  BY <1>1, <1>2, <1>3, DropSignals DEF Signals, Referenced

LEMMA ShellSignals ==
  ASSUME TypeOK, NEW q \in Points,
         ShellConsumes(q) \/ ShellFinishes(q) \/ ShellDrops(q) \/ ShellIsLost(q)
  PROVE  Signals
<1>1. CASE ShellConsumes(q) \/ ShellDrops(q)
  <2>1. SignalsDropped({}) /\ task' = task
    BY <1>1 DEF ShellConsumes, ShellDrops
  <2>2. \A r \in Points : /\ shell[r] \in {"reads", "lost"} => shell'[r] = shell[r]
                          /\ shell'[r] = "done" => shell[r] = "done"
    BY <1>1 DEF ShellConsumes, ShellDrops, TypeOK
  <2>. QED  BY <2>1, <2>2, DropSignals DEF Signals
<1>2. CASE ShellFinishes(q)
  BY <1>2 DEF ShellFinishes, Signals, Referenced, Kept, TypeOK
<1>3. CASE ShellIsLost(q)
  BY <1>3 DEF ShellIsLost, Signals, Referenced, Kept, TypeOK
<1>. QED  BY <1>1, <1>2, <1>3

LEMMA TaskSignals ==
  ASSUME TypeOK, NEW q \in Points, UploadEnds(q) \/ TaskReleases(q) \/ TaskFails(q)
  PROVE  Signals
BY DEF UploadEnds, TaskReleases, TaskFails, Signals, Referenced, Kept, TypeOK

\* A new submission r that is placed is referenced.
LEMMA PlacedReferenced ==
  ASSUME TypeOK, NEW s \in Surfaces, NEW r \in Points, Places(s, r)
  PROVE  /\ r \in Referenced'
         /\ \A q \in Points : shell'[q] = shell[q] \/ shell'[q] = "holds"
<1>1. current'[s] = r \/ buffered'[s] = r
  BY DEF Places, TypeOK
<1>2. \A q \in Points : shell'[q] = shell[q] \/ shell'[q] = "holds"
  BY DEF Places, TypeOK
<1>. QED  BY <1>1, <1>2 DEF Referenced, Kept

\* A commit or a reapply places its submission or signals it.
LEMMA DrawSignals ==
  ASSUME TypeOK, NEW s \in Surfaces, NEW r \in Points,
         \/ Places(s, r) /\ SignalsDropped({})
         \/ UNCHANGED shell /\ SignalsDropped({r}),
         \A q \in Points : q # r => (task'[q] = "waiting" => task[q] = "waiting")
  PROVE  Signals
<1>1. CASE Places(s, r) /\ SignalsDropped({})
  BY <1>1, PlacedReferenced, DropSignals DEF Signals, Referenced
<1>2. CASE UNCHANGED shell /\ SignalsDropped({r})
  BY <1>2, DropSignals DEF Signals
<1>. QED  BY <1>1, <1>2

LEMMA CommitSignals == ASSUME TypeOK, NEW s \in Surfaces, CommitBuffer(s) PROVE Signals
<1>1. PICK r \in Points : r = next + 1
  BY PointAssumption DEF CommitBuffer, Submits, TypeOK, Points
<1>2. \/ Places(s, r) /\ SignalsDropped({})
      \/ UNCHANGED shell /\ SignalsDropped({r})
  BY <1>1 DEF CommitBuffer, Submits
<1>3. \A q \in Points : q # r => (task'[q] = "waiting" => task[q] = "waiting")
  BY <1>1 DEF CommitBuffer, Submits, TypeOK
<1>. QED  BY <1>2, <1>3, DrawSignals

LEMMA ReapplySignals == ASSUME TypeOK, NEW s \in Surfaces, Reapply(s) PROVE Signals
<1>1. PICK r \in Points : r = next
  BY PointAssumption DEF Reapply, Resubmits, TypeOK, Points
<1>2. \/ Places(s, r) /\ SignalsDropped({})
      \/ UNCHANGED shell /\ SignalsDropped({r})
  BY <1>1 DEF Reapply, Resubmits
<1>3. \A q \in Points : q # r => (task'[q] = "waiting" => task[q] = "waiting")
  BY <1>1 DEF Reapply, Aborted, TypeOK
<1>. QED  BY <1>2, <1>3, DrawSignals

\* A release task never waits for a signal that nobody is left to give, but for shells
\* that die after they consumed: the part of LetGoIsReleased that needs no fairness
\* (signal_on_drop.rs:42-52, buffer.rs:82-125).
THEOREM SignalledByWhom == Spec => []SomeoneSignals
<1>1. Init => FinishedSignalled /\ SomeoneSignals
  BY DEF Init, FinishedSignalled, SomeoneSignals
<1>2. Invariant => TypeOK
  BY DEF Invariant, Order
<1>3. /\ TypeOK /\ TypeOK' /\ FinishedSignalled /\ SomeoneSignals
      /\ [Next]_vars
      => (FinishedSignalled /\ SomeoneSignals)'
  <2>. SUFFICES ASSUME TypeOK, TypeOK', FinishedSignalled, SomeoneSignals, [Next]_vars
                PROVE  (FinishedSignalled /\ SomeoneSignals)'
    OBVIOUS
  <2>1. CASE Next
    BY <2>1, SignalsKeep, LetsGoSignals, ShellSignals, TaskSignals, CommitSignals,
       ReapplySignals DEF Next
  <2>2. CASE UNCHANGED vars
    BY <2>2 DEF vars, FinishedSignalled, SomeoneSignals, Passed, Referenced, Kept
  <2>. QED  BY <2>1, <2>2
<1>. QED  BY <1>1, <1>2, <1>3, InvariantHolds, PTL DEF Spec
=============================================================================

----------------------------- MODULE BufferRelease -----------------------------
(***************************************************************************)
(* When a wl_buffer goes back to its client: the timeline of one buffer,   *)
(* its submissions to panel shells and the tasks that send                 *)
(* wl_buffer.release (core/buffer.rs, signal_on_drop.rs, core/surface.rs,  *)
(* core/shm_buffer_backing.rs, dmabuf/buffer_backing.rs).                  *)
(*                                                                         *)
(* Every commit of the buffer draws an acquire and a release point from    *)
(* one counter. The upload signals the acquire point; the release point is *)
(* signalled by the shell, which asked for it (consume), or when the last  *)
(* reference to a SignalOnDrop goes that nobody consumed. A submission is  *)
(* named by its release point. What signals a point passes all lower ones. *)
(***************************************************************************)
EXTENDS Naturals

CONSTANTS Surfaces,  \* surfaces the client attaches the buffer to
          MaxPoint,  \* bound: the last point that is drawn
          NoSubmit

ASSUME PointAssumption == MaxPoint \in Nat /\ NoSubmit \notin Nat

Points == 0..MaxPoint

VARIABLES
  next,       \* next_acquire_point
  uploads,    \* acquire points whose upload is under way
  signalled,  \* points that were signalled
  current,    \* the buffer's submission in each surface's current_buffer_submit
  buffered,   \* ... and in its buffered_surface_update
  shell,      \* what a shell does with each submission: "none" (never sent), "holds"
              \* its release proxy, "reads" (consumed it, its work is under way),
              \* "done", "dropped" (unconsumed), "lost" (died after it had consumed)
  task,       \* release task of each submission: "none", "waiting", "sent" (its
              \* release), "failed" (to wait, and sent it at once) or "aborted"
  commit,     \* the commit that each submission goes back to
  \* history
  patient,    \* the client has committed the buffer only with every release it was owed
  again       \* submissions made by a switch when their commit was already released

historyVars == <<patient, again>>
vars == <<next, uploads, signalled, current, buffered, shell, task, commit, historyVars>>

Passed(r) == \E p \in signalled : p >= r

\* The submissions that the service keeps, and those whose SignalOnDrop has a
\* reference left.
Kept == {current[s] : s \in Surfaces} \union {buffered[s] : s \in Surfaces}
Referenced == Kept \union {r \in Points : shell[r] = "holds"}

Consumed(r) == shell[r] \in {"reads", "done", "lost"}
InUse(r) == shell[r] \in {"holds", "reads"}

\* Mutant: SignalOnDrop has no Drop.
SignalsNothing(new) == signalled' = signalled

\* Mutant: Drop does not look at consumed.
SignalsConsumed(new) ==
  signalled' = signalled \union new \union ((Referenced \ Referenced') \ {NoSubmit})

\* Mutant: a handler whose service cannot be made is lost without its drop.
ForgetsUnmade(new) ==
  signalled' = signalled \union {r \in (Referenced \ Referenced') \ {NoSubmit} : ~Consumed(r)'}

\* SignalOnDrop::drop, for those that a step leaves without a reference; new are
\* those whose service could not be made.
SignalsDropped(new) ==
  signalled' = signalled \union new \union {r \in (Referenced \ Referenced') \ {NoSubmit} :
                                             ~Consumed(r)'}

Init ==
  /\ next = 0 /\ uploads = {} /\ signalled = {}
  /\ current = [s \in Surfaces |-> NoSubmit]
  /\ buffered = [s \in Surfaces |-> NoSubmit]
  /\ shell = [r \in Points |-> "none"]
  /\ task = [r \in Points |-> "none"]
  /\ commit = [r \in Points |-> r]
  /\ patient = TRUE /\ again = {}

(* Commits *)

\* Where buffer_update puts submission r (NoSubmit: one of another buffer): with an
\* item it is sent, if the item has a shell and the call succeeds, and becomes the
\* current one; without an item it is buffered.
Places(s, r) ==
  \/ /\ current' = [current EXCEPT ![s] = r]
     /\ UNCHANGED buffered
     /\ \/ UNCHANGED shell
        \/ r # NoSubmit /\ shell' = [shell EXCEPT ![r] = "holds"]
  \/ /\ current' = [current EXCEPT ![s] = NoSubmit]
     /\ buffered' = [buffered EXCEPT ![s] = r]
     /\ UNCHANGED shell

Released(r) == task[r] \in {"sent", "failed"}

\* Commit c was released, and every commit of the buffer was.
Returned(c) == \E r \in Points : commit[r] = c /\ Released(r)
Free == \A r \in Points : task[r] # "none" => Returned(commit[r])

\* Buffer::update and buffer_update, which draw so many points. When no SignalOnDrop
\* can be made there is nothing to send.
Submits(s, drawn) ==
  LET r == next + 1
  IN  /\ r <= MaxPoint
      /\ next' = next + drawn
      /\ uploads' = uploads \union {next}
      /\ task' = [task EXCEPT ![r] = "waiting"]
      /\ patient' = (patient /\ Free)
      /\ \/ Places(s, r) /\ SignalsDropped({})
         \/ UNCHANGED <<current, buffered, shell>> /\ SignalsDropped({r})
      /\ UNCHANGED <<commit, again>>

\* Mutant: the release point is the acquire point plus one, and not drawn.
DrawsOnce(s) == Submits(s, 1)

CommitBuffer(s) == Submits(s, 2)

\* Another buffer is committed on the surface.
CommitOther(s) ==
  /\ Places(s, NoSubmit)
  /\ SignalsDropped({})
  /\ UNCHANGED <<next, uploads, task, commit, historyVars>>

\* apply_buffered_surface_update_recursive, with an item or not.
Apply(s) ==
  LET r == buffered[s]
  IN  /\ r # NoSubmit
      /\ buffered' = [buffered EXCEPT ![s] = NoSubmit]
      /\ \/ UNCHANGED <<current, shell>>
         \/ /\ current' = [current EXCEPT ![s] = r]
            /\ \/ UNCHANGED shell
               \/ shell' = [shell EXCEPT ![r] = "holds"]
      /\ SignalsDropped({})
      /\ UNCHANGED <<next, uploads, task, commit, historyVars>>

\* What reapply does, without its release tasks.
Resubmits(s) ==
  LET old == current[s]
      new == next
  IN  /\ old # NoSubmit /\ new <= MaxPoint
      /\ next' = next + 1
      /\ commit' = [commit EXCEPT ![new] = commit[old]]
      /\ again' = IF Returned(commit[old]) THEN again \union {new} ELSE again
      /\ \/ Places(s, new) /\ SignalsDropped({})
         \/ /\ current' = [current EXCEPT ![s] = NoSubmit]
            /\ UNCHANGED <<buffered, shell>>
            /\ SignalsDropped({new})
      /\ UNCHANGED <<uploads, patient>>

Aborted(state) == IF state = "waiting" THEN "aborted" ELSE state

\* Mutant: reapply spawns no release task for the new point.
ReapplyWithoutTask(s) ==
  /\ Resubmits(s)
  /\ task' = [task EXCEPT ![current[s]] = Aborted(@)]

\* Mutant: reapply leaves the old release task running.
ReapplyWithoutAbort(s) ==
  /\ Resubmits(s)
  /\ task' = [task EXCEPT ![next] = "waiting"]

\* reapply_buffer_recursive and BufferSubmit::reapply: the old task is aborted, a new
\* one waits for a new point.
Reapply(s) ==
  /\ Resubmits(s)
  /\ task' = [task EXCEPT ![current[s]] = Aborted(@), ![next] = "waiting"]

\* The surface is dropped with its submissions.
DropSurface(s) ==
  /\ current[s] # NoSubmit \/ buffered[s] # NoSubmit
  /\ current' = [current EXCEPT ![s] = NoSubmit]
  /\ buffered' = [buffered EXCEPT ![s] = NoSubmit]
  /\ UNCHANGED shell
  /\ SignalsDropped({})
  /\ UNCHANGED <<next, uploads, task, commit, historyVars>>

(* Uploads, shells and release tasks *)

\* The copy into the texture is done, or failed: the point is signalled either way.
UploadEnds(a) ==
  /\ a \in uploads
  /\ uploads' = uploads \ {a}
  /\ signalled' = signalled \union {a}
  /\ UNCHANGED <<next, current, buffered, shell, task, commit, historyVars>>

ShellConsumes(r) ==
  /\ shell[r] = "holds"
  /\ shell' = [shell EXCEPT ![r] = "reads"]
  /\ UNCHANGED <<current, buffered>>
  /\ SignalsDropped({})
  /\ UNCHANGED <<next, uploads, task, commit, historyVars>>

ShellFinishes(r) ==
  /\ shell[r] = "reads"
  /\ shell' = [shell EXCEPT ![r] = "done"]
  /\ signalled' = signalled \union {r}
  /\ UNCHANGED <<next, uploads, current, buffered, task, commit, historyVars>>

\* A shell that dies, or has no use for it, drops the proxy it never consumed.
ShellDrops(r) ==
  /\ shell[r] = "holds"
  /\ shell' = [shell EXCEPT ![r] = "dropped"]
  /\ UNCHANGED <<current, buffered>>
  /\ SignalsDropped({})
  /\ UNCHANGED <<next, uploads, task, commit, historyVars>>

ShellIsLost(r) ==
  /\ shell[r] = "reads"
  /\ shell' = [shell EXCEPT ![r] = "lost"]
  /\ UNCHANGED <<next, uploads, signalled, current, buffered, task, commit, historyVars>>

TaskReleases(r) ==
  /\ task[r] = "waiting" /\ Passed(r)
  /\ task' = [task EXCEPT ![r] = "sent"]
  /\ UNCHANGED <<next, uploads, signalled, current, buffered, shell, commit, historyVars>>

\* wait_async fails: "releasing now".
TaskFails(r) ==
  /\ task[r] = "waiting"
  /\ task' = [task EXCEPT ![r] = "failed"]
  /\ UNCHANGED <<next, uploads, signalled, current, buffered, shell, commit, historyVars>>

Next ==
  \/ \E s \in Surfaces : CommitBuffer(s) \/ CommitOther(s) \/ Apply(s) \/ Reapply(s)
                         \/ DropSurface(s)
  \/ \E p \in Points : UploadEnds(p) \/ ShellConsumes(p) \/ ShellFinishes(p)
                       \/ ShellDrops(p) \/ ShellIsLost(p) \/ TaskReleases(p) \/ TaskFails(p)

\* A task whose point is passed is woken and runs; shells owe nothing.
Fairness == \A r \in Points : WF_vars(TaskReleases(r))

Spec == Init /\ [][Next]_vars /\ Fairness

(* Properties *)

\* Every variable has its type, and whatever has a point has one that was drawn.
TypeOK ==
  /\ \A p \in uploads \union signalled : p < next
  /\ \A r \in Points : task[r] # "none" => r < next
  /\ next \in 0..(MaxPoint + 1)
  /\ uploads \subseteq Points /\ signalled \subseteq Points
  /\ current \in [Surfaces -> Points \union {NoSubmit}]
  /\ buffered \in [Surfaces -> Points \union {NoSubmit}]
  /\ shell \in [Points -> {"none", "holds", "reads", "done", "dropped", "lost"}]
  /\ task \in [Points -> {"none", "waiting", "sent", "failed", "aborted"}]
  /\ commit \in [Points -> Points]
  /\ patient \in BOOLEAN
  /\ again \subseteq Points

\* The ways a release may come while submission q is in use, although the client waits
\* for releases: q itself was released because its task could not wait; a switch has
\* replaced q, and the shell it went to before still uses it; or a switch that made q, or
\* a later submission, sent a buffer again that had been released.
Excused(q) ==
  \/ task[q] = "failed"
  \/ \E r \in Points : q < r /\ commit[r] = commit[q] /\ task[r] # "none"
  \/ \E r \in again : q <= r

\* A client that commits the buffer again only after its release (wl_buffer.release) is
\* not told so while a shell may still read the buffer for that commit or for an
\* earlier one, except in these ways: the drop of a consumed submission signals nothing
\* (signal_on_drop.rs:44-50), and no point signalled for one use passes another that
\* lasts, although the acquire and release points of all uses share a timeline.
NoEarlyRelease ==
  patient => \A q, r \in Points :
               (q <= r /\ task[r] = "sent" /\ InUse(q)) => Excused(q)

\* Whatever the client does, one commit is released twice in one way only: its release
\* was sent before a switch sent its submission again, which is then released again. As
\* long as the release task still waits, reapply aborts it for the new one
\* (buffer.rs:122), however many switches follow one another.
OneReleasePerCommit ==
  \A q, r \in Points :
    (q < r /\ commit[q] = commit[r] /\ Released(q) /\ Released(r))
      => r \in again

\* No release is lost in a reapply: a release task is aborted only when a later task
\* stands for the same commit (buffer.rs:121-125).
AbortedIsReplaced ==
  \A q \in Points : task[q] = "aborted" =>
    \E r \in Points : /\ q < r /\ commit[r] = commit[q]
                      /\ task[r] \in {"waiting", "sent", "failed"}

\* Whatever a release task waits for has somebody left to signal it: a reference to
\* its SignalOnDrop, or the shell that consumed it; else its point has been passed
\* already. Drop and consume never both leave the point to the other, and a reapply or
\* a commit whose service fails leaves no new task behind that nobody wakes
\* (signal_on_drop.rs:42-52, buffer.rs:82-125). A shell that dies after it consumed is
\* the one that nothing stands in for.
SomeoneSignals ==
  \A r \in Points : task[r] = "waiting" =>
    r \in Referenced \/ shell[r] \in {"reads", "lost"} \/ Passed(r)

\* A buffer comes back: a submission that the service has let go of is released, also
\* when no shell ever consumed it, or when none was sent it. Those excluded are with a
\* shell that holds the proxy, reads, or died after it consumed.
LetGoIsReleased ==
  \A r \in Points :
    (task[r] = "waiting" /\ r \notin Referenced /\ shell[r] \notin {"reads", "lost"})
      ~> task[r] # "waiting"
=============================================================================

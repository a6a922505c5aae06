-------------------------------- MODULE ShmPool --------------------------------
(***************************************************************************)
(* Shared-memory pools and the buffers a client cuts out of them           *)
(* (core/shm.rs, core/shm_pool.rs, core/shm_buffer_backing.rs).            *)
(*                                                                         *)
(* create_buffer checks once that a buffer fits its pool; the pool may be  *)
(* resized or destroyed by the client before a commit copies the buffer's  *)
(* rows out of it into its staging buffer, which is then uploaded.         *)
(***************************************************************************)
EXTENDS Integers

CONSTANTS Pools,    \* wl_shm_pool objects the client may create
          Buffers,  \* wl_buffer objects the client may create
          Numbers,  \* the i32 arguments of the requests
          None

\* i32 values; create_buffer computes with them in i64, which holds o + st * h for
\* all of them, so that integers without a width are faithful to it.
ASSUME NumbersAssumption == Numbers \subseteq Int
ASSUME NoneAssumption == None \notin Nat \union {"fresh", "stale"}

VARIABLES
  len,     \* length of the mapping of each pool, None before create_pool
  object,  \* the client's object map holds the pool
  shape,   \* pool, offset, stride, width and height of each buffer, or None
  drawn,   \* rows of the frame in the staging buffer of each buffer, None before one
  upload,  \* what the last update sent to the upload thread: a "fresh" frame, or a
           \* "stale" one after a failed copy; None before one
  client   \* "connected", or "gone" after an error returned to the dispatch loop

vars == <<len, object, shape, drawn, upload, client>>

BytesPerPixel == 4

Init ==
  /\ len = [p \in Pools |-> None]
  /\ object = [p \in Pools |-> FALSE]
  /\ shape = [b \in Buffers |-> None]
  /\ drawn = [b \in Buffers |-> None]
  /\ upload = [b \in Buffers |-> None]
  /\ client = "connected"

\* ShmPool::new maps the file, if only nothing of it. mmap may fail, and always refuses
\* a negative size, which the cast to usize makes larger than any mapping.
CreatePool(p, size) ==
  /\ client = "connected" /\ len[p] = None
  /\ \/ /\ size >= 0
        /\ len' = [len EXCEPT ![p] = size]
        /\ object' = [object EXCEPT ![p] = TRUE]
        /\ UNCHANGED client
     \/ client' = "gone" /\ UNCHANGED <<len, object>>
  /\ UNCHANGED <<shape, drawn, upload>>

\* Mutant: the rows are checked as if they were adjacent.
FitsTight(p, o, st, w, h) ==
  w > 0 /\ h > 0 /\ o >= 0 /\ st >= w * BytesPerPixel /\ o + w * BytesPerPixel * h <= len[p]

\* The check of create_buffer.
Fits(p, o, st, w, h) ==
  w > 0 /\ h > 0 /\ o >= 0 /\ st >= w * BytesPerPixel /\ o + st * h <= len[p]

\* Creating the texture and the staging buffer may fail too.
CreateBuffer(b, p, o, st, w, h) ==
  /\ client = "connected" /\ object[p] /\ shape[b] = None
  /\ \/ /\ Fits(p, o, st, w, h)
        /\ shape' = [shape EXCEPT ![b] = [pool |-> p, offset |-> o, stride |-> st,
                                          width |-> w, height |-> h]]
        /\ UNCHANGED client
     \/ client' = "gone" /\ UNCHANGED shape
  /\ UNCHANGED <<len, object, drawn, upload>>

\* Mutant: any size is mapped.
ResizeAnyway(p, size) ==
  /\ client = "connected" /\ object[p]
  /\ len' = [len EXCEPT ![p] = size]
  /\ UNCHANGED <<object, shape, drawn, upload, client>>

\* A shrinking resize is ignored; otherwise the mapping may move, under the pool's
\* lock, and it stays as it is when mremap fails.
Resize(p, size) ==
  /\ client = "connected" /\ object[p]
  /\ IF size < 0 \/ size < len[p] THEN UNCHANGED <<len, client>>
     ELSE \/ len' = [len EXCEPT ![p] = size] /\ UNCHANGED client
          \/ client' = "gone" /\ UNCHANGED len
  /\ UNCHANGED <<object, shape, drawn, upload>>

\* The pool's buffers keep its mapping.
DestroyPool(p) ==
  /\ client = "connected" /\ object[p]
  /\ object' = [object EXCEPT ![p] = FALSE]
  /\ UNCHANGED <<len, shape, drawn, upload, client>>

\* The source of row y lies in the mapping (slice::get answers None otherwise).
RowStart(s, y) == s.offset + y * s.stride
RowInPool(s, y) == /\ RowStart(s, y) >= 0
                   /\ RowStart(s, y) + s.width * BytesPerPixel <= len[s.pool]

\* Mutant: the last row ends at the stride, not at its last pixel.
CopiesStrides(b, n) ==
  /\ \A y \in 0..(n - 1) : RowStart(shape[b], y + 1) < len[shape[b].pool]
  /\ n < shape[b].height => ~(RowStart(shape[b], n + 1) < len[shape[b].pool])

\* The copy goes row by row, under the lock of the pool, and stops at the first row
\* that is not in the mapping.
Copies(b, n) ==
  /\ \A y \in 0..(n - 1) : RowInPool(shape[b], y)
  /\ n < shape[b].height => ~RowInPool(shape[b], n)

\* A commit copies the frame and uploads it. If the staging buffer cannot be written,
\* what it holds is uploaded all the same. The wl_buffer may be destroyed by then: the
\* surface keeps it.
Update(b) ==
  /\ client = "connected" /\ shape[b] # None
  /\ \/ /\ \E n \in 0..shape[b].height :
             Copies(b, n) /\ drawn' = [drawn EXCEPT ![b] = n]
        /\ upload' = [upload EXCEPT ![b] = "fresh"]
     \/ /\ upload' = [upload EXCEPT ![b] = "stale"]
        /\ UNCHANGED drawn
  /\ UNCHANGED <<len, object, shape, client>>

Next ==
  \/ \E p \in Pools :
       \/ \E size \in Numbers : CreatePool(p, size) \/ Resize(p, size)
       \/ DestroyPool(p)
       \/ \E b \in Buffers : \E o, st, w, h \in Numbers : CreateBuffer(b, p, o, st, w, h)
  \/ \E b \in Buffers : Update(b)

Spec == Init /\ [][Next]_vars
-----------------------------------------------------------------------------
(* Properties *)

Shapes == [pool : Pools, offset : Numbers, stride : Numbers, width : Numbers,
           height : Numbers]

TypeOK ==
  /\ len \in [Pools -> Nat \union {None}]
  /\ object \in [Pools -> BOOLEAN]
  /\ shape \in [Buffers -> Shapes \union {None}]
  /\ drawn \in [Buffers -> Nat \union {None}]
  /\ upload \in [Buffers -> {"fresh", "stale", None}]
  /\ client \in {"connected", "gone"}

\* Every byte an update reads lies in the mapping of the buffer's pool, whatever
\* the client did to the pool since create_buffer checked the buffer: it may have
\* resized or destroyed it.
RowsInPool ==
  \A b \in Buffers : shape[b] # None =>
    /\ shape[b].width > 0 /\ shape[b].height > 0
    /\ \A y \in 0..(shape[b].height - 1) : RowInPool(shape[b], y)

\* What an update leaves in the staging buffer for the upload is one whole frame: that
\* of its commit if the copy ran, since no copy stops half-way at "shm buffer reaches
\* outside its pool", and the last one that was copied, or none at all, if the staging
\* buffer could not be written (ShmBufferBacking::update).
WholeFrames ==
  \A b \in Buffers :
    /\ upload[b] = "fresh" => drawn[b] = shape[b].height
    /\ upload[b] = "stale" => drawn[b] \in {None, shape[b].height}

\* A mapping never shrinks and never goes away under the buffers cut out of it.
MappingGrows ==
  [][\A p \in Pools : len[p] # None => (len'[p] # None /\ len'[p] >= len[p])]_vars
=============================================================================

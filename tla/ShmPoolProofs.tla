----------------------------- MODULE ShmPoolProofs -----------------------------
(***************************************************************************)
(* For any pools, buffers and i32 arguments: an update reads nothing       *)
(* outside the mapping of its pool, and what it copies is a whole frame.   *)
(* The invariant is that the rows of every buffer, not only the product    *)
(* create_buffer checked, lie in a mapping that exists.                    *)
(***************************************************************************)
EXTENDS ShmPool, TLAPS

\* A pool object has a mapping, and a buffer's pool too.
Mapped ==
  /\ \A p \in Pools : object[p] => len[p] # None
  /\ \A b \in Buffers : shape[b] # None => len[shape[b].pool] # None

\* A staging buffer belongs to a buffer and holds nothing or a whole frame of it, and a
\* frame if one was copied.
Staged ==
  \A b \in Buffers :
    /\ drawn[b] # None => shape[b] # None /\ drawn[b] = shape[b].height
    /\ upload[b] = "fresh" => drawn[b] # None

Inv == TypeOK /\ Mapped /\ RowsInPool /\ Staged

\* A multiple of the stride below h strides leaves room for one more.
LEMMA Room ==
  ASSUME NEW st \in Nat, NEW y \in Nat, NEW h \in Nat, y < h
  PROVE  y * st + st <= st * h /\ y * st >= 0
<1> DEFINE k == h - y
<1>1. k \in Nat /\ k >= 1
  OBVIOUS
<1>2. h = y + k
  OBVIOUS
<1> HIDE DEF k
<1>3. st * h = y * st + st * k
  BY <1>1, <1>2
<1>4. st * k = st * (k - 1) + st /\ k - 1 \in Nat
  BY <1>1
<1>5. st * (k - 1) \in Nat /\ y * st \in Nat
  BY <1>4
<1> QED
  BY <1>3, <1>4, <1>5, <1>1

\* What create_buffer checks puts each row of the new buffer into the pool.
LEMMA FitsRows ==
  ASSUME NEW p \in Pools, NEW o \in Int, NEW st \in Int, NEW w \in Int, NEW h \in Int,
         len[p] \in Nat, Fits(p, o, st, w, h), NEW y \in 0..(h - 1)
  PROVE  o + y * st >= 0 /\ o + y * st + w * BytesPerPixel <= len[p]
<1>1. st \in Nat /\ h \in Nat /\ y \in Nat /\ y < h /\ o >= 0
  BY DEF Fits, BytesPerPixel
<1>2. y * st + st <= st * h /\ y * st >= 0
  BY <1>1, Room
<1>3. y * st \in Int /\ st * h \in Int
  BY <1>1
<1>4. st >= w * 4 /\ o + st * h <= len[p]
  BY DEF Fits, BytesPerPixel
<1> QED
  BY <1>1, <1>2, <1>3, <1>4 DEF BytesPerPixel

LEMMA InitInv == Init => Inv
BY NoneAssumption DEF Init, Inv, TypeOK, Mapped, RowsInPool, Staged


\* A step that only makes mappings larger, or adds one, keeps the rows in place.
LEMMA GrowKeepsRows ==
  ASSUME Inv, len' \in [Pools -> Nat \union {None}], shape' = shape, drawn' = drawn, upload' = upload,
         \A p \in Pools : len[p] # None => len'[p] # None /\ len'[p] >= len[p]
  PROVE  /\ RowsInPool' /\ Staged'
         /\ \A b \in Buffers : shape'[b] # None => len'[shape'[b].pool] # None
<1>1. ASSUME NEW b \in Buffers, shape[b] # None
      PROVE  /\ shape[b] \in Shapes /\ shape[b].pool \in Pools
             /\ shape[b].width \in Int /\ shape[b].height \in Int
             /\ shape[b].offset \in Int /\ shape[b].stride \in Int
             /\ len[shape[b].pool] \in Nat /\ len'[shape[b].pool] \in Nat
             /\ len'[shape[b].pool] >= len[shape[b].pool]
  <2>1. shape[b] \in Shapes
    BY <1>1 DEF Inv, TypeOK
  <2>2. len[shape[b].pool] # None /\ shape[b].pool \in Pools
    BY <1>1, <2>1 DEF Inv, Mapped, Shapes
  <2> QED
    BY <2>1, <2>2, NumbersAssumption DEF Inv, TypeOK, Shapes
<1>2. RowsInPool'
  <2> SUFFICES ASSUME NEW b \in Buffers, shape[b] # None,
                      NEW y \in 0..(shape[b].height - 1)
               PROVE  RowInPool(shape[b], y)'
    BY <1>1 DEF RowsInPool, Inv
  <2>1. RowInPool(shape[b], y)
    BY DEF RowsInPool, Inv
  <2>2. y \in Int /\ RowStart(shape[b], y) \in Int
    BY <1>1 DEF RowStart
  <2> QED
    BY <2>1, <2>2, <1>1 DEF RowInPool, RowStart, BytesPerPixel
<1>3. Staged'
  BY DEF Staged, Inv
<1> QED
  BY <1>1, <1>2, <1>3, NoneAssumption

LEMMA CreatePoolKeepsInv ==
  ASSUME Inv, NEW p \in Pools, NEW size \in Numbers, CreatePool(p, size)
  PROVE  Inv'
<1>1. /\ len' \in [Pools -> Nat \union {None}]
      /\ \A q \in Pools : len[q] # None => len'[q] # None /\ len'[q] >= len[q]
      /\ \A q \in Pools : object'[q] => len'[q] # None
  <2>1. CASE UNCHANGED <<len, object>>
    <3>1. \A q \in Pools : len[q] # None => len[q] \in Nat
      BY DEF Inv, TypeOK
    <3> QED
      BY <2>1, <3>1 DEF Inv, TypeOK, Mapped
  <2>2. CASE len' = [len EXCEPT ![p] = size] /\ size >= 0 /\ object' = [object EXCEPT ![p] = TRUE]
    BY <2>2, NoneAssumption, NumbersAssumption DEF CreatePool, Inv, TypeOK, Mapped
  <2> QED
    BY <2>1, <2>2 DEF CreatePool
<1>2. shape' = shape /\ drawn' = drawn /\ upload' = upload
  BY DEF CreatePool
<1>3. TypeOK'
  BY <1>1, <1>2 DEF CreatePool, Inv, TypeOK
<1>4. RowsInPool' /\ Staged' /\ \A b \in Buffers : shape'[b] # None => len'[shape'[b].pool] # None
  BY <1>1, <1>2, GrowKeepsRows
<1> QED
  BY <1>1, <1>2, <1>3, <1>4 DEF Inv, Mapped

LEMMA ResizeKeepsInv ==
  ASSUME Inv, NEW p \in Pools, NEW size \in Numbers, Resize(p, size)
  PROVE  Inv'
<1>1. /\ len' \in [Pools -> Nat \union {None}]
      /\ \A q \in Pools : len[q] # None => len'[q] # None /\ len'[q] >= len[q]
  <2>1. CASE len' = len
    <3>1. \A q \in Pools : len[q] # None => len[q] \in Nat
      BY DEF Inv, TypeOK
    <3> QED
      BY <2>1, <3>1 DEF Inv, TypeOK, Mapped
  <2>2. CASE len' = [len EXCEPT ![p] = size] /\ ~(size < 0 \/ size < len[p])
    <3>1. len[p] \in Nat /\ size \in Nat
      BY <2>2, NumbersAssumption DEF Resize, Inv, TypeOK, Mapped
    <3> QED
      BY <2>2, <3>1, NoneAssumption DEF Inv, TypeOK
  <2> QED
    BY <2>1, <2>2 DEF Resize
<1>2. shape' = shape /\ drawn' = drawn /\ upload' = upload /\ object' = object
  BY DEF Resize
<1>3. TypeOK'
  BY <1>1, <1>2 DEF Resize, Inv, TypeOK
<1>4. RowsInPool' /\ Staged' /\ \A b \in Buffers : shape'[b] # None => len'[shape'[b].pool] # None
  BY <1>1, <1>2, GrowKeepsRows
<1> QED
  BY <1>1, <1>2, <1>3, <1>4 DEF Inv, Mapped

LEMMA CreateBufferKeepsInv ==
  ASSUME Inv, NEW b \in Buffers, NEW p \in Pools, NEW o \in Numbers, NEW st \in Numbers,
         NEW w \in Numbers, NEW h \in Numbers, CreateBuffer(b, p, o, st, w, h)
  PROVE  Inv'
<1> DEFINE new == [pool |-> p, offset |-> o, stride |-> st, width |-> w, height |-> h]
<1>1. CASE shape' = shape
  BY <1>1 DEF CreateBuffer, Inv, TypeOK, Mapped, RowsInPool, RowInPool, RowStart, Staged
<1>2. CASE Fits(p, o, st, w, h) /\ shape' = [shape EXCEPT ![b] = new]
  <2>1. /\ len[p] \in Nat /\ shape[b] = None /\ drawn[b] = None
        /\ len' = len /\ object' = object /\ drawn' = drawn /\ upload' = upload
    BY DEF CreateBuffer, Inv, TypeOK, Mapped, Staged
  <2>2. new \in Shapes /\ shape' \in [Buffers -> Shapes \union {None}]
        /\ client' \in {"connected", "gone"}
    BY <1>2 DEF Shapes, CreateBuffer, Inv, TypeOK
  <2>3. shape'[b] = new /\ \A c \in Buffers \ {b} : shape'[c] = shape[c]
    BY <1>2 DEF Inv, TypeOK
  <2>4. TypeOK'
    BY <2>1, <2>2 DEF Inv, TypeOK
  <2>5. Mapped'
    BY <2>1, <2>3, NoneAssumption DEF Inv, Mapped
  <2>6. RowsInPool'
    <3> SUFFICES ASSUME NEW c \in Buffers, shape'[c] # None
                 PROVE  /\ shape'[c].width > 0 /\ shape'[c].height > 0
                        /\ \A y \in 0..(shape'[c].height - 1) : RowInPool(shape[c], y)'
      BY DEF RowsInPool
    <3>1. CASE c # b
      BY <2>1, <2>3, <3>1 DEF Inv, RowsInPool, RowInPool, RowStart
    <3>2. CASE c = b
      <4>1. w > 0 /\ h > 0
        BY <1>2 DEF Fits
      <4>2. ASSUME NEW y \in 0..(h - 1)
            PROVE  o + y * st >= 0 /\ o + y * st + w * BytesPerPixel <= len[p]
        BY <1>2, <2>1, <4>2, FitsRows, NumbersAssumption
      <4> QED
        BY <2>1, <2>3, <3>2, <4>1, <4>2 DEF RowInPool, RowStart
    <3> QED
      BY <3>1, <3>2
  <2>7. Staged'
    BY <2>1, <2>3 DEF Inv, Staged
  <2> QED
    BY <2>4, <2>5, <2>6, <2>7 DEF Inv
<1> QED
  BY <1>1, <1>2 DEF CreateBuffer

LEMMA UpdateKeepsInv ==
  ASSUME Inv, NEW b \in Buffers, Update(b)
  PROVE  Inv'
<1>1. shape[b] # None /\ len' = len /\ object' = object /\ shape' = shape /\ client' = client
  BY DEF Update
<1>2. Mapped' /\ RowsInPool'
  BY <1>1 DEF Inv, TypeOK, Mapped, RowsInPool, RowInPool, RowStart
<1>3. CASE drawn' = drawn /\ upload' = [upload EXCEPT ![b] = "stale"]
  BY <1>1, <1>2, <1>3 DEF Inv, TypeOK, Staged
<1>4. CASE /\ \E n \in 0..shape[b].height : Copies(b, n) /\ drawn' = [drawn EXCEPT ![b] = n]
           /\ upload' = [upload EXCEPT ![b] = "fresh"]
  <2>1. PICK n \in 0..shape[b].height : Copies(b, n) /\ drawn' = [drawn EXCEPT ![b] = n]
    BY <1>4
  <2>2. shape[b].height \in Int
    <3>1. shape[b] \in Shapes
      BY <1>1 DEF Inv, TypeOK
    <3> QED
      BY <3>1, NumbersAssumption DEF Shapes
  <2>3. n \in Nat /\ n = shape[b].height
    BY <1>1, <2>1, <2>2 DEF Inv, RowsInPool, Copies
  <2>4. TypeOK'
    BY <1>1, <1>4, <2>1, <2>3 DEF Inv, TypeOK
  <2>5. Staged'
    BY <1>1, <1>4, <2>1, <2>3, NoneAssumption DEF Inv, TypeOK, Staged
  <2> QED
    BY <1>2, <2>4, <2>5 DEF Inv
<1> QED
  BY <1>3, <1>4 DEF Update

LEMMA StepInv == Inv /\ [Next]_vars => Inv'
<1> SUFFICES ASSUME Inv, [Next]_vars PROVE Inv'
  OBVIOUS
<1>1. ASSUME NEW p \in Pools, NEW size \in Numbers, CreatePool(p, size) PROVE Inv'
  BY <1>1, CreatePoolKeepsInv
<1>2. ASSUME NEW p \in Pools, NEW size \in Numbers, Resize(p, size) PROVE Inv'
  BY <1>2, ResizeKeepsInv
<1>3. ASSUME NEW p \in Pools, DestroyPool(p) PROVE Inv'
  BY <1>3 DEF DestroyPool, Inv, TypeOK, Mapped, RowsInPool, RowInPool, RowStart, Staged
<1>4. ASSUME NEW p \in Pools, NEW b \in Buffers,
             \E o, st, w, h \in Numbers : CreateBuffer(b, p, o, st, w, h)
      PROVE  Inv'
  BY <1>4, CreateBufferKeepsInv
<1>5. ASSUME NEW b \in Buffers, Update(b) PROVE Inv'
  BY <1>5, UpdateKeepsInv
<1>6. CASE UNCHANGED vars
  BY <1>6 DEF vars, Inv, TypeOK, Mapped, RowsInPool, RowInPool, RowStart, Staged
<1> QED
  BY <1>1, <1>2, <1>3, <1>4, <1>5, <1>6 DEF Next

\* No behaviour leaves the types: mappings have a natural length, shapes are made of
\* the request's arguments.
THEOREM Typing == Spec => []TypeOK
<1>1. Inv => TypeOK
  BY DEF Inv
<1> QED
  BY <1>1, InitInv, StepInv, PTL DEF Spec

\* An update never reads outside the mapping of the buffer's pool, for pools and
\* buffers of any size: one check in create_buffer, and a resize that only grows,
\* cover every later commit (create_buffer, resize, update).
THEOREM InBounds == Spec => []RowsInPool
<1>1. Inv => RowsInPool
  BY DEF Inv
<1> QED
  BY <1>1, InitInv, StepInv, PTL DEF Spec

\* For any pools, buffers and arguments, every copy into a staging buffer is of a whole
\* frame: the row check of update never stops it half-way. An update whose staging
\* buffer could not be written uploads the frame copied last, or none, and never a part
\* of one (ShmBufferBacking::update).
THEOREM Whole == Spec => []WholeFrames
<1>1. Inv => WholeFrames
  BY DEF Inv, Staged, WholeFrames
<1> QED
  BY <1>1, InitInv, StepInv, PTL DEF Spec

\* A mapping only grows: an ignored shrink, a failed mremap and the destruction of
\* the pool leave it as it is (resize, destroy).
THEOREM Grows == Spec => MappingGrows
<1>1. Inv /\ [Next]_vars =>
        [\A p \in Pools : len[p] # None => (len'[p] # None /\ len'[p] >= len[p])]_vars
  <2> SUFFICES ASSUME Inv, Next, NEW q \in Pools, len[q] # None
               PROVE  len'[q] # None /\ len'[q] >= len[q]
    OBVIOUS
  <2>1. len \in [Pools -> Nat \union {None}] /\ len[q] \in Nat /\ len[q] >= len[q]
    BY DEF Inv, TypeOK
  <2>2. ASSUME NEW p \in Pools, NEW size \in Numbers, CreatePool(p, size)
        PROVE  len'[q] # None /\ len'[q] >= len[q]
    BY <2>1, <2>2 DEF CreatePool
  <2>3. ASSUME NEW p \in Pools, NEW size \in Numbers, Resize(p, size)
        PROVE  len'[q] # None /\ len'[q] >= len[q]
    <3>1. object[p] => len[p] \in Nat
      BY DEF Inv, TypeOK, Mapped
    <3>2. CASE len' = len
      BY <3>2, <2>1
    <3>3. CASE len' = [len EXCEPT ![p] = size] /\ ~(size < 0 \/ size < len[p])
      <4>1. size \in Nat /\ size >= len[p]
        BY <3>1, <3>3, <2>3, NumbersAssumption DEF Resize
      <4> QED
        BY <4>1, <3>3, <2>1, NoneAssumption
    <3> QED
      BY <3>2, <3>3, <2>3 DEF Resize
  <2>4. ASSUME NEW p \in Pools, DestroyPool(p) PROVE len'[q] # None /\ len'[q] >= len[q]
    BY <2>1, <2>4 DEF DestroyPool
  <2>5. ASSUME NEW p \in Pools, NEW b \in Buffers,
               \E o, st, w, h \in Numbers : CreateBuffer(b, p, o, st, w, h)
        PROVE  len'[q] # None /\ len'[q] >= len[q]
    BY <2>1, <2>5 DEF CreateBuffer
  <2>6. ASSUME NEW b \in Buffers, Update(b) PROVE len'[q] # None /\ len'[q] >= len[q]
    BY <2>1, <2>6 DEF Update
  <2> QED
    BY <2>2, <2>3, <2>4, <2>5, <2>6 DEF Next
<1> QED
  BY <1>1, InitInv, StepInv, PTL DEF Spec, MappingGrows
=============================================================================

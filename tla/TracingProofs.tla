--------------------------- MODULE TracingProofs ----------------------------
(***************************************************************************)
(* Theorems about Tracing, for every capacity of the buffer, every set of  *)
(* rates and every number of events, whatever allocation, fopen and write  *)
(* fails.                                                                  *)
(***************************************************************************)
EXTENDS Tracing, SequenceTheorems, TLAPS

MaybeBuffers == Buffers \cup {Null}
MaybeTraces == Traces \cup {Null}
MaybeFuzzers == Fuzzers \cup {Null}
MaybeFiles == Files \cup {Null}
Counts == [Kinds -> Int]
Worlds == [trace : MaybeTraces, replay : MaybeBuffers, fuzz : MaybeFuzzers,
           disk : MaybeFiles, live : Counts, events : Nat, faulty : BOOLEAN]

----------------------------------------------------------------------------
(* Sequences of halves.                                                    *)

\* What fwrite puts in the file for the i-th half of a buffer.
HalfOf(buf, i) == Half(buf[(i + 1) \div 2], IF i % 2 = 1 THEN 1 ELSE 2)

LEMMA HalvesFile ==
  ASSUME NEW buf \in Buffers
  PROVE  /\ Halves(buf) \in Files
         /\ Len(Halves(buf)) = 2 * Len(buf)
         /\ \A i \in 1 .. 2 * Len(buf) : Halves(buf)[i] = HalfOf(buf, i)
<1>1. Len(buf) \in Nat /\ \A j \in 1 .. Len(buf) : buf[j] \in Nat
  BY DEF Buffers
<1>2. ASSUME NEW i \in 1 .. 2 * Len(buf)
      PROVE  HalfOf(buf, i) \in [event : Nat, half : {1, 2}]
  <2>1. (i + 1) \div 2 \in 1 .. Len(buf)
    BY <1>1
  <2>2. buf[(i + 1) \div 2] \in Nat
    BY <1>1, <2>1
  <2> QED
    BY <2>2 DEF HalfOf, Half
<1>3. Halves(buf) = [i \in 1 .. 2 * Len(buf) |-> HalfOf(buf, i)]
  BY DEF Halves, HalfOf
<1>4. Halves(buf) \in Files
  BY <1>1, <1>2, <1>3 DEF Files
<1> QED
  BY <1>1, <1>3, <1>4 DEF Files

\* The file d with the first k halves of the buffer written after it.
Grown(d, buf, k, f) ==
  /\ f \in Files
  /\ Len(f) = Len(d) + k
  /\ \A i \in 1 .. Len(d) : f[i] = d[i]
  /\ \A i \in 1 .. k : f[Len(d) + i] = HalfOf(buf, i)

LEMMA GrownFile ==
  ASSUME NEW d \in Files, NEW buf \in Buffers, NEW k \in 0 .. 2 * Len(buf)
  PROVE  Grown(d, buf, k, d \o SubSeq(Halves(buf), 1, k))
<1> DEFINE H == Halves(buf)
           S == SubSeq(H, 1, k)
<1>1. Len(buf) \in Nat /\ Len(d) \in Nat /\ k \in Nat
  BY DEF Buffers, Files
<1>2. H \in Files /\ Len(H) = 2 * Len(buf) /\ \A i \in 1 .. 2 * Len(buf) : H[i] = HalfOf(buf, i)
  BY HalvesFile
<1>3. S \in Files /\ Len(S) = k /\ \A i \in 1 .. k : S[i] = H[i]
  <2>1. ASSUME NEW T, H \in Seq(T)
        PROVE  S \in Seq(T) /\ Len(S) = k /\ \A i \in 1 .. k : S[i] = H[i]
    <3>1. \A i \in 1 .. k : i \in 1 .. Len(H)
      BY <1>1, <1>2
    <3>2. CASE k = 0
      <4>1. S = <<>>
        BY <2>1, <3>2, SubSeqEmpty
      <4> QED
        BY <3>2, <4>1
    <3>3. CASE k # 0
      BY <1>1, <1>2, <2>1, <3>3, SubSeqProperties
    <3> QED
      BY <3>2, <3>3
  <2> QED
    BY <1>2, <2>1, Zenon DEF Files
<1>4. /\ d \o S \in Files /\ Len(d \o S) = Len(d) + k
      /\ \A i \in 1 .. Len(d) : (d \o S)[i] = d[i]
      /\ \A i \in 1 .. k : (d \o S)[Len(d) + i] = S[i]
  BY <1>1, <1>3, ConcatProperties DEF Files
<1> QED
  BY <1>1, <1>2, <1>3, <1>4 DEF Grown

----------------------------------------------------------------------------
(* What the functions on worlds do, field by field.                        *)

LEMMA WorldFields ==
  ASSUME NEW x \in Worlds
  PROVE  /\ x.trace # Null => x.trace \in Traces
         /\ x.replay # Null => x.replay \in Buffers
         /\ x.fuzz # Null => x.fuzz \in Fuzzers
         /\ x.disk # Null => x.disk \in Files
         /\ x.live \in Counts /\ x.events \in Nat /\ x.faulty \in BOOLEAN
BY DEF Worlds, MaybeTraces, MaybeBuffers, MaybeFuzzers, MaybeFiles

LEMMA TraceFields ==
  ASSUME NEW t \in Traces
  PROVE  /\ t # Null /\ t.file \in BOOLEAN /\ t.active \in BOOLEAN /\ t.event_count \in Nat
         /\ t.buffer # Null => t.buffer \in Buffers
BY NullAssumption DEF Traces

\* A world like x but for the fields given.
Like(y, x, t, d, l, e, f) ==
  /\ y \in Worlds /\ y.replay = x.replay /\ y.fuzz = x.fuzz
  /\ y.trace = t /\ y.disk = d /\ y.live = l /\ y.events = e /\ y.faulty = f

LEMMA SetTrace ==
  ASSUME NEW x \in Worlds, NEW t \in MaybeTraces
  PROVE  Like([x EXCEPT !.trace = t], x, t, x.disk, x.live, x.events, x.faulty)
BY DEF Like, Worlds

LEMMA SetLive ==
  ASSUME NEW x \in Worlds, NEW l \in Counts
  PROVE  Like([x EXCEPT !.live = l], x, x.trace, x.disk, l, x.events, x.faulty)
BY DEF Like, Worlds

LEMMA SetEvents ==
  ASSUME NEW x \in Worlds, NEW e \in Nat
  PROVE  Like([x EXCEPT !.events = e], x, x.trace, x.disk, x.live, e, x.faulty)
BY DEF Like, Worlds

LEMMA SetDisk ==
  ASSUME NEW x \in Worlds, NEW d \in MaybeFiles
  PROVE  Like([x EXCEPT !.disk = d], x, x.trace, d, x.live, x.events, x.faulty)
BY DEF Like, Worlds

LEMMA SetFaulty ==
  ASSUME NEW x \in Worlds, NEW f \in BOOLEAN
  PROVE  Like([x EXCEPT !.faulty = f], x, x.trace, x.disk, x.live, x.events, f)
BY Zenon DEF Like, Worlds

LEMMA SetFaultyTrace ==
  ASSUME NEW x \in Worlds, NEW t \in MaybeTraces, NEW f \in BOOLEAN
  PROVE  Like([x EXCEPT !.faulty = f, !.trace = t], x, t, x.disk, x.live, x.events, f)
BY Zenon DEF Like, Worlds

LEMMA AllocateFree ==
  ASSUME NEW x \in Worlds, NEW k \in Kinds
  PROVE  /\ Like(Allocate(x, k), x, x.trace, x.disk, [x.live EXCEPT ![k] = @ + 1],
                 x.events, x.faulty)
         /\ Like(Free(x, k), x, x.trace, x.disk, [x.live EXCEPT ![k] = @ - 1],
                 x.events, x.faulty)
<1>1. x.live \in Counts
  BY WorldFields
<1>2. [x.live EXCEPT ![k] = @ + 1] \in Counts /\ [x.live EXCEPT ![k] = @ - 1] \in Counts
  BY <1>1 DEF Counts
<1>3. /\ Allocate(x, k) = [x EXCEPT !.live = [x.live EXCEPT ![k] = @ + 1]]
      /\ Free(x, k) = [x EXCEPT !.live = [x.live EXCEPT ![k] = @ - 1]]
  BY Zenon DEF Allocate, Free
<1> QED
  BY <1>2, <1>3, SetLive, Zenon

\* The trace after an append and after a flush.
Appended(t, e) == [t EXCEPT !.buffer = Append(@, e), !.event_count = @ + 1]
Emptied(t) == [t EXCEPT !.buffer = <<>>]

LEMMA AppendedFields ==
  ASSUME NEW t \in Traces, t.buffer \in Buffers, NEW e \in Nat
  PROVE  /\ Appended(t, e) \in Traces
         /\ Appended(t, e).buffer = Append(t.buffer, e) /\ Appended(t, e).buffer \in Buffers
         /\ Appended(t, e).event_count = t.event_count + 1
         /\ Appended(t, e).file = t.file /\ Appended(t, e).active = t.active
         /\ Emptied(t) \in Traces
         /\ Emptied(t).buffer = <<>> /\ Emptied(t).buffer \in Buffers
         /\ Emptied(t).event_count = t.event_count
         /\ Emptied(t).file = t.file /\ Emptied(t).active = t.active
<1> DEFINE b == Append(t.buffer, e)
           n == t.event_count + 1
<1>1. b \in Buffers /\ <<>> \in Buffers
  BY DEF Buffers
<1>2. t.event_count \in Nat /\ n \in Nat
  BY TraceFields
<1>3. /\ Appended(t, e) = [t EXCEPT !.buffer = b, !.event_count = n]
      /\ Emptied(t) = [t EXCEPT !.buffer = <<>>]
  BY Zenon DEF Appended, Emptied
<1>4. /\ [t EXCEPT !.buffer = b, !.event_count = n] \in Traces
      /\ [t EXCEPT !.buffer = b, !.event_count = n].buffer = b
      /\ [t EXCEPT !.buffer = b, !.event_count = n].event_count = n
      /\ [t EXCEPT !.buffer = b, !.event_count = n].file = t.file
      /\ [t EXCEPT !.buffer = b, !.event_count = n].active = t.active
  <2> HIDE DEF b, n
  <2> QED
    BY <1>1, <1>2, Zenon DEF Traces
<1>5. /\ [t EXCEPT !.buffer = <<>>] \in Traces
      /\ [t EXCEPT !.buffer = <<>>].buffer = <<>>
      /\ [t EXCEPT !.buffer = <<>>].event_count = t.event_count
      /\ [t EXCEPT !.buffer = <<>>].file = t.file
      /\ [t EXCEPT !.buffer = <<>>].active = t.active
  BY <1>1, Zenon DEF Traces
<1> QED
  BY <1>1, <1>3, <1>4, <1>5, Zenon

\* A file that is open is there.
HasFile(x) == x.trace # Null /\ x.trace.file => x.disk # Null

FlushDue(x) == /\ x.trace \in Traces /\ x.trace.file
               /\ x.trace.buffer \in Buffers /\ x.trace.buffer # <<>>

\* k halves of the buffer have reached the file, all of them or not.
FlushAll(x, y) ==
  /\ Grown(x.disk, x.trace.buffer, 2 * Len(x.trace.buffer), y.disk)
  /\ y.faulty = x.faulty /\ y.trace = Emptied(x.trace)
FlushPart(x, y, k) ==
  /\ k < 2 * Len(x.trace.buffer)
  /\ Grown(x.disk, x.trace.buffer, k, y.disk)
  /\ y.faulty = TRUE /\ y.trace \in {x.trace, Emptied(x.trace)}

FlushEffect(x, y) ==
  \/ ~FlushDue(x) /\ y = x
  \/ /\ FlushDue(x)
     /\ Like(y, x, y.trace, y.disk, x.live, x.events, y.faulty)
     /\ FlushAll(x, y) \/ \E k \in Partial : FlushPart(x, y, k)

LEMMA FlushFields ==
  ASSUME NEW x \in Worlds, HasFile(x), NEW y \in TraceFlush(x)
  PROVE  FlushEffect(x, y) /\ y \in Worlds
<1>1. CASE ~FlushDue(x)
  <2>1. x.trace = Null \/ ~x.trace.file \/ x.trace.buffer \in {Null, <<>>}
    BY <1>1, WorldFields, TraceFields, Zenon DEF FlushDue
  <2> QED
    BY <1>1, <2>1, Zenon DEF TraceFlush, FlushEffect
<1>2. CASE FlushDue(x)
  <2> DEFINE buf == x.trace.buffer
             bytes == Halves(buf)
             new(k) == x.disk \o SubSeq(bytes, 1, k)
             written(k) == [x EXCEPT !.disk = new(k)]
             n == 2 * Len(buf)
  <2>1. /\ buf \in Buffers /\ x.trace \in Traces /\ Len(bytes) = n /\ n \in Nat
        /\ x.disk \in Files
    <3>1. x.disk \in Files
      BY <1>2, WorldFields, TraceFields, Zenon DEF FlushDue, HasFile
    <3>2. Len(buf) \in Nat
      BY <1>2 DEF FlushDue, Buffers
    <3> QED
      BY <1>2, <3>1, <3>2, HalvesFile DEF FlushDue
  <2>2. y \in BufferFlush(x)
    BY <1>2, NullAssumption, TraceFields, Zenon DEF TraceFlush, FlushDue
  <2>3. ASSUME NEW k \in 0 .. n
        PROVE  /\ Like(written(k), x, x.trace, new(k), x.live, x.events, x.faulty)
               /\ Grown(x.disk, buf, k, new(k))
    <3>1. Grown(x.disk, buf, k, new(k))
      BY <2>1, GrownFile, Zenon
    <3>2. new(k) \in MaybeFiles
      BY <3>1, Zenon DEF Grown, MaybeFiles
    <3> QED
      BY <3>1, <3>2, SetDisk, Zenon
  <2>4. Emptied(x.trace) \in MaybeTraces /\ x.trace \in MaybeTraces
    BY <2>1, AppendedFields, 0 \in Nat, Zenon DEF MaybeTraces
  <2>5. n \in 0 .. n /\ \A k \in Partial : k < n => k \in 0 .. n
    BY <2>1, TracingAssumption
  <2>6. CASE y = [written(Len(bytes)) EXCEPT !.trace.buffer = <<>>]
    <3>1. y = [written(n) EXCEPT !.trace = Emptied(written(n).trace)]
      BY <2>1, <2>6, Zenon DEF Emptied
    <3>2. /\ Like(written(n), x, x.trace, new(n), x.live, x.events, x.faulty)
          /\ Grown(x.disk, buf, n, new(n))
      BY <2>3, <2>5, Zenon
    <3>3. y = [written(n) EXCEPT !.trace = Emptied(x.trace)] /\ written(n) \in Worlds
      BY <3>1, <3>2, Zenon DEF Like
    <3>4. Like(y, written(n), Emptied(x.trace), written(n).disk, written(n).live,
               written(n).events, written(n).faulty)
      BY <2>4, <3>3, SetTrace, Zenon
    <3>5. Like(y, x, Emptied(x.trace), new(n), x.live, x.events, x.faulty)
      BY <3>2, <3>4, Zenon DEF Like
    <3> QED
      BY <1>2, <3>2, <3>5, Zenon DEF FlushEffect, FlushAll, Like
  <2>7. ASSUME NEW k \in Partial, k < Len(bytes), y = [written(k) EXCEPT !.faulty = TRUE]
        PROVE  FlushEffect(x, y) /\ y \in Worlds
    <3>1. k < n /\ k \in 0 .. n
      BY <2>1, <2>5, <2>7, Zenon
    <3>2. /\ Like(written(k), x, x.trace, new(k), x.live, x.events, x.faulty)
          /\ Grown(x.disk, buf, k, new(k))
      BY <2>3, <3>1, Zenon
    <3>3. Like(y, written(k), written(k).trace, written(k).disk, written(k).live,
               written(k).events, TRUE)
      BY <2>7, <3>2, SetFaulty, Zenon DEF Like
    <3>4. Like(y, x, x.trace, new(k), x.live, x.events, TRUE)
      BY <3>2, <3>3, Zenon DEF Like
    <3> QED
      BY <1>2, <3>1, <3>2, <3>4, Zenon DEF FlushEffect, FlushPart, Like
  <2>8. ASSUME NEW k \in Partial, k < Len(bytes),
               y = [written(k) EXCEPT !.faulty = TRUE, !.trace.buffer = <<>>]
        PROVE  FlushEffect(x, y) /\ y \in Worlds
    <3>1. k < n /\ k \in 0 .. n
      BY <2>1, <2>5, <2>8, Zenon
    <3>2. /\ Like(written(k), x, x.trace, new(k), x.live, x.events, x.faulty)
          /\ Grown(x.disk, buf, k, new(k))
      BY <2>3, <3>1, Zenon
    <3>3. written(k) \in Worlds
          /\ y = [written(k) EXCEPT !.faulty = TRUE, !.trace = Emptied(x.trace)]
      BY <2>8, <3>2, Zenon DEF Like, Emptied
    <3>4. Like(y, written(k), Emptied(x.trace), written(k).disk, written(k).live,
               written(k).events, TRUE)
      BY <2>4, <3>3, SetFaultyTrace, Zenon
    <3>5. Like(y, x, Emptied(x.trace), new(k), x.live, x.events, TRUE)
      BY <3>2, <3>4, Zenon DEF Like
    <3> QED
      BY <1>2, <3>1, <3>2, <3>5, Zenon DEF FlushEffect, FlushPart, Like
  <2> QED
    BY <2>2, <2>6, <2>7, <2>8, Zenon DEF BufferFlush
<1> QED
  BY <1>1, <1>2, Zenon

\* An open file, its buffer and the flag active go together.
Shape(x) ==
  /\ HasFile(x)
  /\ x.trace # Null => /\ x.trace.active = x.trace.file
                       /\ x.trace.file <=> x.trace.buffer # Null
                       /\ ~x.trace.file => x.trace.event_count = 0

\* x with one event more; then a flush if the buffer is full; then the append.
Counted(x, w) == Like(w, x, x.trace, x.disk, x.live, x.events + 1, x.faulty)
MakesRoom(w, z) == IF IsFull(w) THEN FlushEffect(w, z) ELSE z = w
Notes(z, y, e) ==
  IF IsFull(z) THEN y = z
  ELSE Like(y, z, Appended(z.trace, e), z.disk, z.live, z.events, z.faulty)

Notable(x) == x.trace # Null /\ mode # "REPLAY" /\ x.trace.active
RecordEffect(x, y) ==
  \/ ~Notable(x) /\ y = x
  \/ /\ Notable(x)
     /\ \E w, z \in Worlds : Counted(x, w) /\ MakesRoom(w, z) /\ Notes(z, y, x.events + 1)

LEMMA ShapeTrace ==
  ASSUME NEW x \in Worlds, Shape(x), x.trace # Null, x.trace.active \/ x.trace.file
  PROVE  /\ x.trace \in Traces /\ x.trace.buffer \in Buffers /\ x.trace.file /\ x.trace.active
         /\ x.disk \in Files
<1>1. x.trace \in Traces
  BY WorldFields
<1>2. x.trace.file /\ x.trace.active
  BY <1>1, TraceFields DEF Shape
<1> QED
  BY <1>1, <1>2, WorldFields, TraceFields, Zenon DEF Shape, HasFile

LEMMA FlushTrace ==
  ASSUME NEW w, NEW z, w.trace \in Traces, w.trace.buffer \in Buffers, FlushEffect(w, z)
  PROVE  /\ z.trace \in Traces /\ z.trace.buffer \in Buffers
         /\ z.trace = w.trace \/ z.trace = Emptied(w.trace)
<1>1. z.trace = w.trace \/ z.trace = Emptied(w.trace)
  BY Zenon DEF FlushEffect, FlushAll, FlushPart
<1> QED
  BY <1>1, AppendedFields, 0 \in Nat, Zenon

LEMMA RecordFields ==
  ASSUME NEW x \in Worlds, Shape(x), NEW y \in TraceRecord(x)
  PROVE  RecordEffect(x, y) /\ y \in Worlds
<1>1. CASE ~Notable(x)
  BY <1>1, Zenon DEF TraceRecord, Notable, RecordEffect
<1>2. CASE Notable(x)
  <2> DEFINE e == x.events + 1
             w == [x EXCEPT !.events = e]
  <2>1. /\ x.trace \in Traces /\ x.trace.buffer \in Buffers /\ x.disk \in Files
        /\ x.disk # Null
    BY <1>2, ShapeTrace, NullAssumption, Zenon DEF Notable
  <2>2. e \in Nat
    BY WorldFields
  <2>3. Counted(x, w) /\ w \in Worlds /\ w.trace = x.trace /\ w.disk = x.disk
    BY <2>2, SetEvents, Zenon DEF Counted, Like
  <2>4. HasFile(w)
    BY <2>1, <2>3, Zenon DEF HasFile
  <2>5. y \in IF ~IsFull(w) THEN {BufferAppend(w, e)}
              ELSE {IF IsFull(z) THEN z ELSE BufferAppend(z, e) : z \in TraceFlush(w)}
    BY <1>2, Zenon DEF TraceRecord, Notable
  <2>6. ASSUME NEW z \in Worlds, z.trace \in Traces, z.trace.buffer \in Buffers
        PROVE  /\ BufferAppend(z, e) \in Worlds
               /\ Like(BufferAppend(z, e), z, Appended(z.trace, e), z.disk, z.live,
                       z.events, z.faulty)
    <3>1. BufferAppend(z, e) = [z EXCEPT !.trace = Appended(z.trace, e)]
      BY Zenon DEF BufferAppend, Appended
    <3>2. Appended(z.trace, e) \in MaybeTraces
      BY <2>2, <2>6, AppendedFields, Zenon DEF MaybeTraces
    <3>3. Like(BufferAppend(z, e), z, Appended(z.trace, e), z.disk, z.live,
               z.events, z.faulty)
      BY <3>1, <3>2, SetTrace, Zenon
    <3> QED
      BY <3>3, Zenon DEF Like
  <2>7. CASE ~IsFull(w)
    <3>1. y = BufferAppend(w, e)
      BY <2>5, <2>7, Zenon
    <3>2. Notes(w, y, e) /\ MakesRoom(w, w) /\ y \in Worlds
      BY <2>1, <2>3, <2>6, <2>7, <3>1, Zenon DEF Notes, MakesRoom
    <3> HIDE DEF w
    <3> QED
      BY <1>2, <2>3, <3>2, Zenon DEF RecordEffect
  <2>8. CASE IsFull(w)
    <3>1. PICK z \in TraceFlush(w) : y = IF IsFull(z) THEN z ELSE BufferAppend(z, e)
      BY <2>5, <2>8, Zenon
    <3>2. FlushEffect(w, z) /\ z \in Worlds
      BY <2>3, <2>4, FlushFields, Zenon
    <3>3. z.trace \in Traces /\ z.trace.buffer \in Buffers
      BY <2>1, <2>3, <3>2, FlushTrace, Zenon
    <3>4. Notes(z, y, e) /\ y \in Worlds
      BY <2>6, <3>1, <3>2, <3>3, Zenon DEF Notes
    <3>5. MakesRoom(w, z)
      BY <2>8, <3>2, Zenon DEF MakesRoom
    <3> HIDE DEF w
    <3> QED
      BY <1>2, <2>3, <3>2, <3>4, <3>5, Zenon DEF RecordEffect
  <2> QED
    BY <2>7, <2>8, Zenon
<1> QED
  BY <1>1, <1>2, Zenon

\* The counts when an object of one kind is freed, if there is one.
Freed(l, kind, there) == IF there THEN [l EXCEPT ![kind] = @ - 1] ELSE l
CleanedUp(z) == Freed(Freed(Freed(z.live, "buffer", z.trace.buffer # Null),
                            "file", z.trace.file),
                      "trace", TRUE)
CleanupEffect(x, y) ==
  \/ x.trace = Null /\ y = x
  \/ /\ x.trace \in Traces
     /\ \E z \in Worlds : /\ z.trace \in Traces
                          /\ IF x.trace.active THEN FlushEffect(x, z) ELSE z = x
                          /\ Like(y, z, Null, z.disk, CleanedUp(z), z.events, z.faulty)

LEMMA FreedCounts ==
  ASSUME NEW l \in Counts, NEW k \in Kinds, NEW there \in BOOLEAN
  PROVE  Freed(l, k, there) \in Counts
BY DEF Freed, Counts

LEMMA FreedWorld ==
  ASSUME NEW z \in Worlds, NEW k \in Kinds, NEW there \in BOOLEAN
  PROVE  Like(IF there THEN Free(z, k) ELSE z, z, z.trace, z.disk,
              Freed(z.live, k, there), z.events, z.faulty)
<1>1. CASE there
  BY <1>1, AllocateFree, Zenon DEF Freed
<1>2. CASE ~there
  BY <1>2, Zenon DEF Freed, Like
<1> QED
  BY <1>1, <1>2, Zenon

LEMMA CleanupFields ==
  ASSUME NEW x \in Worlds, HasFile(x), NEW y \in TraceCleanup(x)
  PROVE  CleanupEffect(x, y) /\ y \in Worlds
<1>1. CASE x.trace = Null
  BY <1>1, Zenon DEF TraceCleanup, CleanupEffect
<1>2. CASE x.trace # Null
  <2>1. x.trace \in Traces
    BY <1>2, WorldFields, Zenon
  <2>2. PICK z \in IF x.trace.active THEN TraceFlush(x) ELSE {x} :
               y = [Free(Closed(Unbuffered(z)), "trace") EXCEPT !.trace = Null]
    BY <1>2, Zenon DEF TraceCleanup
  <2>3. z \in Worlds /\ IF x.trace.active THEN FlushEffect(x, z) ELSE z = x
    BY <2>2, FlushFields, Zenon
  <2>4. z.trace \in Traces /\ z.trace.file \in BOOLEAN
    <3>1. CASE z = x
      BY <2>1, <3>1, TraceFields, Zenon
    <3>2. CASE FlushDue(x) /\ FlushEffect(x, z)
      BY <2>1, <3>2, FlushTrace, TraceFields, Zenon DEF FlushDue
    <3> QED
      BY <2>3, <3>1, <3>2, Zenon DEF FlushEffect
  <2> DEFINE a == Unbuffered(z)
             b == Closed(a)
             c == Free(b, "trace")
             hasBuffer == z.trace.buffer # Null
  <2>5. "buffer" \in Kinds /\ "file" \in Kinds /\ "trace" \in Kinds /\ hasBuffer \in BOOLEAN
    BY Zenon DEF Kinds
  <2>6. Like(a, z, z.trace, z.disk, Freed(z.live, "buffer", hasBuffer), z.events, z.faulty)
    BY <2>3, <2>5, FreedWorld, Zenon DEF Unbuffered
  <2>7. a \in Worlds /\ a.trace = z.trace
    BY <2>6, Zenon DEF Like
  <2>8. b = IF z.trace.file THEN Free(a, "file") ELSE a
    BY <2>7, Zenon DEF Closed
  <2>9. Like(b, a, a.trace, a.disk, Freed(a.live, "file", z.trace.file), a.events, a.faulty)
    BY <2>4, <2>5, <2>7, <2>8, FreedWorld, Zenon
  <2>10. Like(c, b, b.trace, b.disk, Freed(b.live, "trace", TRUE), b.events, b.faulty)
    BY <2>5, <2>9, AllocateFree, ZenonT(40) DEF Freed, Like
  <2>11. y = [c EXCEPT !.trace = Null] /\ c \in Worlds
    BY <2>2, <2>10, Zenon DEF Like
  <2> HIDE DEF a, b, c, hasBuffer
  <2>12. Like(y, c, Null, c.disk, c.live, c.events, c.faulty)
    BY <2>11, SetTrace, Zenon DEF MaybeTraces
  <2>13. a.live = Freed(z.live, "buffer", z.trace.buffer # Null) /\ a.disk = z.disk
         /\ a.events = z.events /\ a.faulty = z.faulty /\ a.replay = z.replay /\ a.fuzz = z.fuzz
    BY <2>6, Zenon DEF Like, hasBuffer
  <2>14. b.live = Freed(a.live, "file", z.trace.file) /\ b.disk = z.disk
         /\ b.events = z.events /\ b.faulty = z.faulty /\ b.replay = z.replay /\ b.fuzz = z.fuzz
    BY <2>9, <2>13, Zenon DEF Like
  <2>15. c.live = CleanedUp(z) /\ c.disk = z.disk
         /\ c.events = z.events /\ c.faulty = z.faulty /\ c.replay = z.replay /\ c.fuzz = z.fuzz
    BY <2>10, <2>13, <2>14, Zenon DEF Like, CleanedUp
  <2>16. Like(y, z, Null, z.disk, CleanedUp(z), z.events, z.faulty) /\ y \in Worlds
    BY <2>12, <2>15, Zenon DEF Like
  <2> QED
    BY <2>1, <2>3, <2>4, <2>16, Zenon DEF CleanupEffect
<1> QED
  BY <1>1, <1>2, Zenon

\* What a start leaves behind: what was there, cleaned up; a file with part of
\* a header, or with all of it, likewise; or a recording.
Opened(t) == [t EXCEPT !.file = TRUE]
Begun(t) == [Opened(t) EXCEPT !.buffer = <<>>, !.active = TRUE]
Headers == {HeaderBytes} \cup {SubSeq(HeaderBytes, 1, k) : k \in Partial \cap {0, 1}}
MoreLive(l, kind) == [l EXCEPT ![kind] = @ + 1]
StartEffect(x, y) ==
  \/ CleanupEffect(x, y)
  \/ \E q \in Worlds : /\ \E d \in Headers : Like(q, x, x.trace, d, x.live, 0, FALSE)
                       /\ CleanupEffect(q, y)
  \/ \E q \in Worlds : /\ Like(q, x, Begun(x.trace), HeaderBytes,
                               MoreLive(MoreLive(x.live, "file"), "buffer"), 0, FALSE)
                       /\ RecordEffect(q, y)

LEMMA BegunFields ==
  ASSUME NEW t \in Traces
  PROVE  /\ Opened(t) \in Traces
         /\ Begun(t) \in Traces /\ Begun(t).file /\ Begun(t).active
         /\ Begun(t).buffer = <<>> /\ Begun(t).event_count = t.event_count
         /\ ~t.file => [Opened(t) EXCEPT !.file = FALSE] = t
<1>1. <<>> \in Buffers
  BY DEF Buffers
<1>2. Opened(t) \in Traces /\ Opened(t).event_count = t.event_count /\ Opened(t).file
  BY Zenon DEF Opened, Traces
<1>3. /\ Begun(t) \in Traces /\ Begun(t).file /\ Begun(t).active
      /\ Begun(t).buffer = <<>> /\ Begun(t).event_count = t.event_count
  BY <1>1, <1>2, Zenon DEF Begun, Traces
<1>4. ~t.file => [Opened(t) EXCEPT !.file = FALSE] = t
  BY Zenon DEF Opened, Traces
<1> QED
  BY <1>2, <1>3, <1>4, Zenon

LEMMA HeaderFiles ==
  /\ HeaderBytes \in Files /\ Len(HeaderBytes) = 2
  /\ \A i \in 1 .. 2 : HeaderBytes[i] = Half(0, i)
  /\ \A d \in Headers : /\ d \in Files
                        /\ d = HeaderBytes \/ Len(d) \in {0, 1}
                        /\ \A i \in 1 .. Len(d) : d[i] = Half(0, i)
<1>1. <<Header>> \in Buffers /\ Len(<<Header>>) = 1 /\ <<Header>>[1] = 0
  BY DEF Buffers, Header
<1>2. HeaderBytes \in Files /\ Len(HeaderBytes) = 2
  <2>1. HeaderBytes \in Files /\ Len(HeaderBytes) = 2 * Len(<<Header>>)
    BY <1>1, HalvesFile, Zenon DEF HeaderBytes
  <2> QED
    BY <1>1, <2>1
<1>3. \A i \in 1 .. 2 : HeaderBytes[i] = Half(0, i)
  <2>1. \A i \in 1 .. 2 * 1 : HeaderBytes[i] = HalfOf(<<Header>>, i)
    BY <1>1, HalvesFile, Zenon DEF HeaderBytes
  <2>2. HalfOf(<<Header>>, 1) = Half(0, 1) /\ HalfOf(<<Header>>, 2) = Half(0, 2)
    <3>1. (1 + 1) \div 2 = 1 /\ (2 + 1) \div 2 = 1 /\ 1 % 2 = 1 /\ 2 % 2 = 0
      OBVIOUS
    <3> QED
      BY <1>1, <3>1 DEF HalfOf
  <2> QED
    BY <2>1, <2>2
<1>4. ASSUME NEW k \in {0, 1}
      PROVE  /\ SubSeq(HeaderBytes, 1, k) \in Files /\ Len(SubSeq(HeaderBytes, 1, k)) = k
             /\ \A i \in 1 .. k : SubSeq(HeaderBytes, 1, k)[i] = HeaderBytes[i]
  <2>1. CASE k = 0
    <3>1. SubSeq(HeaderBytes, 1, 0) = <<>>
      BY <1>2, SubSeqEmpty DEF Files
    <3> QED
      BY <2>1, <3>1 DEF Files
  <2>2. CASE k = 1
    <3>1. ASSUME NEW T, HeaderBytes \in Seq(T)
          PROVE  /\ SubSeq(HeaderBytes, 1, 1) \in Seq(T) /\ Len(SubSeq(HeaderBytes, 1, 1)) = 1
                 /\ \A i \in 1 .. 1 : SubSeq(HeaderBytes, 1, 1)[i] = HeaderBytes[i]
      BY <1>2, <3>1, SubSeqProperties
    <3> QED
      BY <1>2, <2>2, <3>1, Zenon DEF Files
  <2> QED
    BY <2>1, <2>2
<1>5. ASSUME NEW d \in Headers
      PROVE  /\ d \in Files
             /\ d = HeaderBytes \/ Len(d) \in {0, 1}
             /\ \A i \in 1 .. Len(d) : d[i] = Half(0, i)
  <2>1. CASE d = HeaderBytes
    BY <1>2, <1>3, <2>1
  <2>2. ASSUME NEW k \in {0, 1}, d = SubSeq(HeaderBytes, 1, k)
        PROVE  /\ d \in Files
               /\ d = HeaderBytes \/ Len(d) \in {0, 1}
               /\ \A i \in 1 .. Len(d) : d[i] = Half(0, i)
    BY <1>3, <1>4, <2>2
  <2> QED
    BY <2>1, <2>2, Zenon DEF Headers
<1> QED
  BY <1>2, <1>3, <1>5, Zenon

LEMMA MoreLess ==
  ASSUME NEW l \in Counts, NEW k \in Kinds
  PROVE  /\ MoreLive(l, k) \in Counts
         /\ [MoreLive(l, k) EXCEPT ![k] = @ - 1] = l
<1>1. l[k] \in Int /\ l[k] + 1 - 1 = l[k]
  BY DEF Counts
<1>2. MoreLive(l, k) \in Counts /\ MoreLive(l, k)[k] = l[k] + 1
  BY DEF MoreLive, Counts
<1>3. MoreLive(l, k)[k] - 1 = l[k]
  BY <1>1, <1>2
<1>4. [MoreLive(l, k) EXCEPT ![k] = l[k]] = l
  BY Zenon DEF MoreLive, Counts
<1> QED
  BY <1>2, <1>3, <1>4, Zenon

LEMMA OpenFields ==
  ASSUME NEW x \in Worlds, x.trace \in Traces
  PROVE  Like(Open(x), x, Opened(x.trace), <<>>, MoreLive(x.live, "file"), 0, FALSE)
<1> DEFINE a == Allocate(x, "file")
<1>1. "file" \in Kinds /\ <<>> \in MaybeFiles
  BY DEF Kinds, MaybeFiles, Files
<1>2. Like(a, x, x.trace, x.disk, MoreLive(x.live, "file"), x.events, x.faulty)
  BY <1>1, AllocateFree, Zenon DEF MoreLive
<1>3. a \in Worlds /\ a.trace = x.trace /\ Opened(a.trace) \in MaybeTraces
  BY <1>2, BegunFields, Zenon DEF Like, MaybeTraces
<1>4. Open(x) = [a EXCEPT !.trace = Opened(a.trace), !.disk = <<>>, !.events = 0, !.faulty = FALSE]
  BY Zenon DEF Open, Opened
<1> HIDE DEF a
<1>5. Like(Open(x), a, Opened(a.trace), <<>>, a.live, 0, FALSE)
  <2> DEFINE t == Opened(a.trace)
             d == <<>>
             n == 0
             f == FALSE
  <2>1. t \in MaybeTraces /\ a \in Worlds /\ d \in MaybeFiles /\ n \in Nat /\ f \in BOOLEAN
    BY <1>1, <1>3
  <2>2. Open(x) = [a EXCEPT !.trace = t, !.disk = d, !.events = n, !.faulty = f]
    BY <1>4, Zenon
  <2> HIDE DEF t, d, n, f
  <2>3. Like(Open(x), a, t, d, a.live, n, f)
    BY <2>1, <2>2, Zenon DEF Like, Worlds
  <2> QED
    BY <2>3, Zenon DEF t, d, n, f
<1> QED
  BY <1>2, <1>5, Zenon DEF Like

\* A failed start closes the file again: only the file on disk is another.
LEMMA ReclosedFields ==
  ASSUME NEW x \in Worlds, x.trace \in Traces, ~x.trace.file, NEW d \in Files
  PROVE  Like(FileClosed([Open(x) EXCEPT !.disk = d]), x, x.trace, d, x.live, 0, FALSE)
<1> DEFINE o == Open(x)
           h == [o EXCEPT !.disk = d]
           f == Free(h, "file")
<1>0. "file" \in Kinds /\ d \in MaybeFiles /\ x.live \in Counts
  BY WorldFields, Zenon DEF Kinds, MaybeFiles
<1>1. Like(o, x, Opened(x.trace), <<>>, MoreLive(x.live, "file"), 0, FALSE) /\ o \in Worlds
  BY OpenFields, Zenon DEF Like
<1>2. Like(h, o, o.trace, d, o.live, o.events, o.faulty) /\ h \in Worlds
  BY <1>0, <1>1, SetDisk, Zenon DEF Like
<1>3. Like(f, h, h.trace, h.disk, [h.live EXCEPT !["file"] = @ - 1], h.events, h.faulty)
      /\ f \in Worlds
  BY <1>0, <1>2, AllocateFree, ZenonT(40) DEF Like
<1> HIDE DEF o
<1>4. h.trace = Opened(x.trace) /\ h.live = MoreLive(x.live, "file") /\ h.disk = d
      /\ h.events = 0 /\ h.faulty = FALSE /\ h.replay = x.replay /\ h.fuzz = x.fuzz
  BY <1>1, <1>2, Zenon DEF Like
<1> HIDE DEF h
<1>5. [h.live EXCEPT !["file"] = @ - 1] = x.live
  <2>1. [MoreLive(x.live, "file") EXCEPT !["file"] = @ - 1] = x.live
    BY <1>0, MoreLess, Zenon
  <2> QED
    BY <1>4, <2>1, Zenon
<1>6. f.trace = Opened(x.trace) /\ f.live = x.live /\ f.disk = d
      /\ f.events = 0 /\ f.faulty = FALSE /\ f.replay = x.replay /\ f.fuzz = x.fuzz
  BY <1>3, <1>4, <1>5, Zenon DEF Like
<1>7. FileClosed(h) = [f EXCEPT !.trace = [f.trace EXCEPT !.file = FALSE]]
  BY Zenon DEF FileClosed
<1> HIDE DEF f
<1>8. [f.trace EXCEPT !.file = FALSE] = x.trace /\ x.trace \in MaybeTraces
  BY <1>6, BegunFields, Zenon DEF MaybeTraces
<1>9. Like(FileClosed(h), f, x.trace, f.disk, f.live, f.events, f.faulty)
  <2>1. FileClosed(h) = [f EXCEPT !.trace = x.trace]
    BY <1>7, <1>8, Zenon
  <2> QED
    BY <1>3, <1>8, <2>1, SetTrace, ZenonT(40)
<1>10. Like(FileClosed(h), x, x.trace, d, x.live, 0, FALSE)
  BY <1>6, <1>9, Zenon DEF Like
<1> QED
  BY <1>10, Zenon DEF h, o

LEMMA BufferedFields ==
  ASSUME NEW x \in Worlds, x.trace \in Traces, NEW b,
         b = [Allocate([Open(x) EXCEPT !.disk = HeaderBytes], "buffer")
                EXCEPT !.trace.buffer = <<>>, !.trace.active = TRUE]
  PROVE  /\ b \in Worlds
         /\ Like(b, x, Begun(x.trace), HeaderBytes,
                 MoreLive(MoreLive(x.live, "file"), "buffer"), 0, FALSE)
<1> DEFINE o == Open(x)
           h == [o EXCEPT !.disk = HeaderBytes]
           a == Allocate(h, "buffer")
<1>0. "buffer" \in Kinds /\ HeaderBytes \in MaybeFiles
  BY HeaderFiles, Zenon DEF Kinds, MaybeFiles
<1>1. Like(o, x, Opened(x.trace), <<>>, MoreLive(x.live, "file"), 0, FALSE) /\ o \in Worlds
  BY OpenFields, Zenon DEF Like
<1>2. Like(h, o, o.trace, HeaderBytes, o.live, o.events, o.faulty) /\ h \in Worlds
  BY <1>0, <1>1, SetDisk, Zenon DEF Like
<1>3. Like(a, h, h.trace, h.disk, MoreLive(h.live, "buffer"), h.events, h.faulty)
      /\ a \in Worlds
  BY <1>0, <1>2, AllocateFree, ZenonT(40) DEF Like, MoreLive
<1>4. b = [a EXCEPT !.trace = [a.trace EXCEPT !.buffer = <<>>, !.active = TRUE]]
  BY Zenon
<1> HIDE DEF o
<1>5. h.trace = Opened(x.trace) /\ h.live = MoreLive(x.live, "file") /\ h.disk = HeaderBytes
      /\ h.events = 0 /\ h.faulty = FALSE /\ h.replay = x.replay /\ h.fuzz = x.fuzz
  BY <1>1, <1>2, Zenon DEF Like
<1> HIDE DEF h
<1>6. a.trace = Opened(x.trace) /\ a.live = MoreLive(MoreLive(x.live, "file"), "buffer")
      /\ a.disk = HeaderBytes /\ a.events = 0 /\ a.faulty = FALSE
      /\ a.replay = x.replay /\ a.fuzz = x.fuzz
  BY <1>3, <1>5, Zenon DEF Like
<1> HIDE DEF a
<1>7. b = [a EXCEPT !.trace = Begun(x.trace)] /\ Begun(x.trace) \in MaybeTraces
  BY <1>4, <1>6, BegunFields, Zenon DEF Begun, MaybeTraces
<1>8. Like(b, a, Begun(x.trace), a.disk, a.live, a.events, a.faulty)
  BY <1>3, <1>7, SetTrace, Zenon
<1> QED
  BY <1>6, <1>8, Zenon DEF Like

LEMMA StartFields ==
  ASSUME NEW x \in Worlds, x.trace \in Traces, ~x.trace.file, NEW r \in StartOutcomes(x)
  PROVE  StartEffect(x, r[2]) /\ r[2] \in Worlds
<1> DEFINE y == r[2]
           opened == Open(x)
           headed == [opened EXCEPT !.disk = HeaderBytes]
           buffered == [Allocate(headed, "buffer") EXCEPT !.trace.buffer = <<>>,
                                                          !.trace.active = TRUE]
           torn(k) == [opened EXCEPT !.disk = SubSeq(HeaderBytes, 1, k)]
<1>1. \/ y \in TraceCleanup(x)
      \/ \E k \in Partial \cap {0, 1} : y \in TraceCleanup(FileClosed(torn(k)))
      \/ y \in TraceCleanup(FileClosed(headed))
      \/ y \in TraceRecord(buffered)
  <2>1. \/ \E v \in TraceCleanup(x) : r = <<"EINTERNAL", v>>
        \/ \E v \in UNION {TraceCleanup(FileClosed(torn(k))) : k \in Partial \cap {0, 1}} :
             r = <<"EINTERNAL", v>>
        \/ \E v \in TraceCleanup(FileClosed(headed)) : r = <<"ENOMEM", v>>
        \/ \E v \in TraceRecord(buffered) : r = <<"OK", v>>
    BY Zenon DEF StartOutcomes
  <2>2. \A s, v : r = <<s, v>> => y = v
    OBVIOUS
  <2> QED
    BY <2>1, <2>2, Zenon
<1>2. CASE y \in TraceCleanup(x)
  BY <1>2, CleanupFields, Zenon DEF StartEffect, HasFile
<1>3. ASSUME NEW d \in Headers, y \in TraceCleanup(FileClosed([opened EXCEPT !.disk = d]))
      PROVE  StartEffect(x, y) /\ y \in Worlds
  <2> DEFINE q == FileClosed([opened EXCEPT !.disk = d])
  <2>1. d \in Files
    BY HeaderFiles, Zenon
  <2>2. Like(q, x, x.trace, d, x.live, 0, FALSE)
    BY <2>1, ReclosedFields, Zenon
  <2> HIDE DEF q
  <2>3. q \in Worlds /\ HasFile(q)
    BY <2>2, Zenon DEF Like, HasFile
  <2>4. CleanupEffect(q, y) /\ y \in Worlds
    BY <1>3, <2>3, CleanupFields, Zenon DEF q
  <2> HIDE DEF y
  <2> QED
    BY <2>2, <2>3, <2>4, Zenon DEF StartEffect
<1>4. CASE y \in TraceRecord(buffered)
  <2>1. /\ buffered \in Worlds
        /\ Like(buffered, x, Begun(x.trace), HeaderBytes,
                MoreLive(MoreLive(x.live, "file"), "buffer"), 0, FALSE)
    BY BufferedFields, Zenon
  <2> DEFINE q == buffered
  <2>2. y \in TraceRecord(q)
    BY <1>4, Zenon
  <2> HIDE DEF q, y
  <2>3. Shape(q)
    <3>1. q.trace = Begun(x.trace) /\ q.disk \in Files
      BY <2>1, HeaderFiles, Zenon DEF Like, q
    <3>2. <<>> \in Buffers
      BY DEF Buffers
    <3> QED
      BY <3>1, <3>2, BegunFields, TraceFields, NullAssumption DEF Shape, HasFile
  <2>4. /\ q \in Worlds
        /\ Like(q, x, Begun(x.trace), HeaderBytes,
                MoreLive(MoreLive(x.live, "file"), "buffer"), 0, FALSE)
    BY <2>1, Zenon DEF q
  <2>5. RecordEffect(q, y) /\ y \in Worlds
    BY <2>2, <2>3, <2>4, RecordFields, Zenon
  <2> QED
    BY <2>4, <2>5, Zenon DEF StartEffect, y
<1>5. HeaderBytes \in Headers /\ \A k \in Partial \cap {0, 1} : SubSeq(HeaderBytes, 1, k) \in Headers
  BY Zenon DEF Headers
<1> QED
  BY <1>1, <1>2, <1>3, <1>4, <1>5, Zenon

----------------------------------------------------------------------------
(* The invariants of a world.                                              *)

\* The halves of the record at place i of a file, counted from 0.
First(d, i) == d[2 * i + 1]
Second(d, i) == d[2 * i + 2]

\* The file holds the header and the events 1 .. n.
Stored(d, n) ==
  /\ n \in Nat /\ Len(d) = 2 * n + 2
  /\ \A i \in 0 .. n : First(d, i) = Half(i, 1) /\ Second(d, i) = Half(i, 2)

\* The buffer holds the events after n, up to n + its length.
Continues(buf, n) == \A j \in 1 .. Len(buf) : buf[j] = n + j

IsOpen(x) == x.trace # Null /\ x.trace.file
StoredSoFar(x) ==
  LET n == x.events - Len(x.trace.buffer)
  IN  Stored(x.disk, n) /\ Continues(x.trace.buffer, n) /\ x.trace.event_count = x.events
NothingLost(x) ==
  ~x.faulty /\ x.disk # Null =>
    IF IsOpen(x) THEN StoredSoFar(x)
    ELSE Stored(x.disk, x.events) \/ (x.events = 0 /\ Len(x.disk) < 2)

LEMMA HalfOfRecord ==
  ASSUME NEW buf, NEW j \in Nat \ {0}
  PROVE  HalfOf(buf, 2 * j - 1) = Half(buf[j], 1) /\ HalfOf(buf, 2 * j) = Half(buf[j], 2)
<1>1. (2 * j - 1 + 1) \div 2 = j /\ (2 * j + 1) \div 2 = j /\ (2 * j - 1) % 2 = 1 /\ (2 * j) % 2 = 0
  OBVIOUS
<1> QED
  BY <1>1 DEF HalfOf

LEMMA StoredGrows ==
  ASSUME NEW d \in Files, NEW buf \in Buffers, NEW f, NEW n, Stored(d, n), Continues(buf, n),
         Grown(d, buf, 2 * Len(buf), f)
  PROVE  Stored(f, n + Len(buf))
<1>1. /\ n \in Nat /\ Len(buf) \in Nat /\ Len(d) = 2 * n + 2 /\ Len(f) = Len(d) + 2 * Len(buf)
  BY DEF Stored, Grown, Buffers
<1>2. Len(f) = 2 * (n + Len(buf)) + 2
  BY <1>1
<1>3. ASSUME NEW i \in 0 .. n + Len(buf)
      PROVE  First(f, i) = Half(i, 1) /\ Second(f, i) = Half(i, 2)
  <2>1. CASE i <= n
    <3>1. i \in 0 .. n /\ 2 * i + 1 \in 1 .. Len(d) /\ 2 * i + 2 \in 1 .. Len(d)
      BY <1>1, <2>1
    <3>2. f[2 * i + 1] = d[2 * i + 1] /\ f[2 * i + 2] = d[2 * i + 2]
      BY <3>1 DEF Grown
    <3> QED
      BY <3>1, <3>2, Zenon DEF Stored, First, Second
  <2>2. CASE i > n
    <3> DEFINE j == i - n
    <3>1. /\ j \in 1 .. Len(buf) /\ j \in Nat \ {0} /\ n + j = i
          /\ 2 * j - 1 \in 1 .. 2 * Len(buf) /\ 2 * j \in 1 .. 2 * Len(buf)
          /\ 2 * i + 1 = Len(d) + (2 * j - 1) /\ 2 * i + 2 = Len(d) + 2 * j
      BY <1>1, <2>2
    <3> HIDE DEF j
    <3>2. /\ f[Len(d) + (2 * j - 1)] = HalfOf(buf, 2 * j - 1)
          /\ f[Len(d) + 2 * j] = HalfOf(buf, 2 * j)
      BY <3>1, Zenon DEF Grown
    <3>3. buf[j] = i
      BY <3>1, Zenon DEF Continues
    <3> QED
      BY <3>1, <3>2, <3>3, HalfOfRecord, Zenon DEF First, Second
  <2> QED
    BY <1>1, <2>1, <2>2
<1> QED
  BY <1>1, <1>2, <1>3 DEF Stored

\* The record at place i has a matching checksum.
Sound(d, i) == First(d, i).event = Second(d, i).event /\ First(d, i).half < Second(d, i).half

\* Some checksum is wrong, and stays wrong whatever is written after it.
Broken(d) == \E i \in Nat : 2 * i + 2 <= Len(d) /\ ~Sound(d, i)

\* None is, the events increase and none is after m; part of a record at the
\* end is its first half.
Orderly(d, m) ==
  /\ \A i \in Nat : 2 * i + 2 <= Len(d) => Sound(d, i) /\ First(d, i).event <= m
  /\ \A i, j \in Nat : i < j /\ 2 * j + 2 <= Len(d) => First(d, i).event < First(d, j).event
  /\ \A i \in Nat : Len(d) = 2 * i + 1 => First(d, i).half = 1

\* The events of the buffer increase too, from those of the file to m.
Ahead(d, buf, m) ==
  /\ \A j \in 1 .. Len(buf) : buf[j] <= m
  /\ \A j, k \in 1 .. Len(buf) : j < k => buf[j] < buf[k]
  /\ \A i \in Nat, j \in 1 .. Len(buf) : 2 * i + 2 <= Len(d) => First(d, i).event < buf[j]

InOrder(x) ==
  x.disk # Null => \/ Broken(x.disk)
                   \/ /\ Orderly(x.disk, x.events)
                      /\ IsOpen(x) => Ahead(x.disk, x.trace.buffer, x.events)

LEMMA GrownKeeps ==
  ASSUME NEW d \in Files, NEW buf, NEW k \in Nat, NEW f, Grown(d, buf, k, f),
         NEW i \in Nat, 2 * i + 2 <= Len(d)
  PROVE  First(f, i) = First(d, i) /\ Second(f, i) = Second(d, i) /\ 2 * i + 2 <= Len(f)
<1>1. Len(d) \in Nat
  BY DEF Files
<1>2. 2 * i + 1 \in 1 .. Len(d) /\ 2 * i + 2 \in 1 .. Len(d)
  BY <1>1
<1> QED
  BY <1>1, <1>2 DEF Grown, First, Second

LEMMA BrokenGrows ==
  ASSUME NEW d \in Files, NEW buf, NEW k \in Nat, NEW f, Grown(d, buf, k, f), Broken(d)
  PROVE  Broken(f)
<1>1. PICK i \in Nat : 2 * i + 2 <= Len(d) /\ ~Sound(d, i)
  BY DEF Broken
<1>2. First(f, i) = First(d, i) /\ Second(f, i) = Second(d, i) /\ 2 * i + 2 <= Len(f)
  BY <1>1, GrownKeeps
<1> QED
  BY <1>1, <1>2, Zenon DEF Broken, Sound

\* Whatever follows part of a record breaks it.
LEMMA OddBreaks ==
  ASSUME NEW d \in Files, NEW buf, NEW k \in Nat \ {0}, NEW f, Grown(d, buf, k, f),
         NEW m, Orderly(d, m), NEW n \in Nat, Len(d) = 2 * n + 1
  PROVE  Broken(f)
<1>1. 2 * n + 1 \in 1 .. Len(d) /\ 1 \in 1 .. k /\ 2 * n + 2 = Len(d) + 1 /\ 2 * n + 2 <= Len(f)
  BY DEF Grown
<1>2. First(f, n) = First(d, n) /\ First(d, n).half = 1
  BY <1>1, Zenon DEF Grown, First, Orderly
<1>3. Second(f, n) = HalfOf(buf, 1)
  BY <1>1, Zenon DEF Grown, Second
<1>4. HalfOf(buf, 1).half = 1
  <2>1. HalfOf(buf, 2 * 1 - 1) = Half(buf[1], 1)
    BY HalfOfRecord
  <2> QED
    BY <2>1 DEF Half
<1>5. ~Sound(f, n)
  BY <1>2, <1>3, <1>4 DEF Sound
<1> QED
  BY <1>1, <1>5 DEF Broken

\* No new record: nothing was written, or half a record after a whole one.
LEMMA OrderlyStays ==
  ASSUME NEW d \in Files, NEW buf \in Buffers, NEW k \in {0, 1}, NEW f, Grown(d, buf, k, f),
         NEW m, Orderly(d, m), Ahead(d, buf, m), k = 1 => \A n \in Nat : Len(d) # 2 * n + 1
  PROVE  Orderly(f, m) /\ Ahead(f, buf, m)
<1>1. Len(d) \in Nat /\ k \in Nat /\ Len(f) = Len(d) + k
  BY DEF Files, Grown
<1>2. ASSUME NEW i \in Nat, 2 * i + 2 <= Len(f)
      PROVE  2 * i + 2 <= Len(d) /\ First(f, i) = First(d, i) /\ Second(f, i) = Second(d, i)
  <2>1. 2 * i + 2 <= Len(d)
    BY <1>1, <1>2
  <2> QED
    BY <1>1, <2>1, GrownKeeps
<1>3. ASSUME NEW i \in Nat, Len(f) = 2 * i + 1
      PROVE  First(f, i).half = 1
  <2>1. CASE k = 0
    <3>1. 2 * i + 1 \in 1 .. Len(d) /\ Len(d) = 2 * i + 1
      BY <1>1, <1>3, <2>1
    <3>2. First(f, i) = First(d, i)
      BY <3>1, Zenon DEF Grown, First
    <3>3. First(d, i).half = 1
      BY <3>1, Zenon DEF Orderly
    <3> QED
      BY <3>2, <3>3
  <2>2. CASE k = 1
    <3>1. 1 \in 1 .. k /\ 2 * i + 1 = Len(d) + 1
      BY <1>1, <1>3, <2>2
    <3>2. First(f, i) = HalfOf(buf, 1)
      BY <3>1, Zenon DEF Grown, First
    <3>3. HalfOf(buf, 2 * 1 - 1) = Half(buf[1], 1)
      BY HalfOfRecord
    <3> QED
      BY <3>2, <3>3 DEF Half
  <2> QED
    BY <2>1, <2>2
<1>4. Orderly(f, m)
  <2>1. ASSUME NEW i \in Nat, 2 * i + 2 <= Len(f)
        PROVE  Sound(f, i) /\ First(f, i).event <= m
    BY <1>2, <2>1, Zenon DEF Orderly, Sound
  <2>2. ASSUME NEW i \in Nat, NEW j \in Nat, i < j, 2 * j + 2 <= Len(f)
        PROVE  First(f, i).event < First(f, j).event
    <3>1. 2 * i + 2 <= Len(f)
      BY <1>1, <2>2
    <3> QED
      BY <1>2, <2>2, <3>1, Zenon DEF Orderly
  <2> QED
    BY <1>3, <2>1, <2>2, Zenon DEF Orderly
<1>5. Ahead(f, buf, m)
  BY <1>2, Zenon DEF Ahead
<1> QED
  BY <1>4, <1>5

\* Whole records after whole records.
LEMMA OrderlyGrows ==
  ASSUME NEW d \in Files, NEW buf \in Buffers, NEW f, Grown(d, buf, 2 * Len(buf), f),
         NEW m, Orderly(d, m), Ahead(d, buf, m), NEW n \in Nat, Len(d) = 2 * n
  PROVE  Orderly(f, m)
<1> DEFINE L == Len(buf)
<1>1. L \in Nat /\ 2 * L \in Nat /\ Len(f) = 2 * n + 2 * L
  BY DEF Buffers, Grown
<1>2. ASSUME NEW i \in Nat, i < n
      PROVE  /\ 2 * i + 2 <= Len(d)
             /\ First(f, i) = First(d, i) /\ Second(f, i) = Second(d, i)
  <2>1. 2 * i + 2 <= Len(d)
    BY <1>2
  <2> QED
    BY <1>1, <2>1, GrownKeeps, SMTT(30)
<1>3. ASSUME NEW i \in Nat, i >= n, 2 * i + 2 <= Len(f)
      PROVE  /\ i - n + 1 \in 1 .. L
             /\ First(f, i) = Half(buf[i - n + 1], 1) /\ Second(f, i) = Half(buf[i - n + 1], 2)
  <2> DEFINE j == i - n + 1
  <2>1. /\ j \in 1 .. L /\ j \in Nat \ {0}
        /\ 2 * j - 1 \in 1 .. 2 * L /\ 2 * j \in 1 .. 2 * L
        /\ 2 * i + 1 = Len(d) + (2 * j - 1) /\ 2 * i + 2 = Len(d) + 2 * j
    BY <1>1, <1>3
  <2> HIDE DEF j
  <2>2. /\ f[Len(d) + (2 * j - 1)] = HalfOf(buf, 2 * j - 1)
        /\ f[Len(d) + 2 * j] = HalfOf(buf, 2 * j)
    BY <2>1, Zenon DEF Grown
  <2>3. j \in 1 .. L /\ First(f, i) = Half(buf[j], 1) /\ Second(f, i) = Half(buf[j], 2)
    BY <2>1, <2>2, HalfOfRecord, Zenon DEF First, Second
  <2> QED
    BY <2>3, Zenon DEF j
<1>4. ASSUME NEW i \in Nat, 2 * i + 2 <= Len(f)
      PROVE  Sound(f, i) /\ First(f, i).event <= m
  <2>1. CASE i < n
    BY <1>2, <2>1, Zenon DEF Sound, Orderly
  <2>2. CASE i >= n
    <3>1. Sound(f, i) /\ First(f, i).event = buf[i - n + 1] /\ i - n + 1 \in 1 .. L
      BY <1>3, <1>4, <2>2 DEF Sound, Half
    <3> QED
      BY <3>1, Zenon DEF Ahead
  <2> QED
    BY <2>1, <2>2
<1>5. ASSUME NEW i \in Nat, NEW j \in Nat, i < j, 2 * j + 2 <= Len(f)
      PROVE  First(f, i).event < First(f, j).event
  <2>0. 2 * i + 2 <= Len(f)
    BY <1>1, <1>5
  <2>1. CASE j < n
    <3>1. i < n
      BY <1>5, <2>1
    <3> QED
      BY <1>2, <1>5, <2>1, <3>1, Zenon DEF Orderly
  <2>2. CASE j >= n
    <3>1. First(f, j).event = buf[j - n + 1] /\ j - n + 1 \in 1 .. L
      BY <1>3, <1>5, <2>2 DEF Half
    <3>2. CASE i < n
      BY <1>2, <3>1, <3>2, Zenon DEF Ahead
    <3>3. CASE i >= n
      <4>1. First(f, i).event = buf[i - n + 1] /\ i - n + 1 \in 1 .. L
        BY <1>3, <2>0, <3>3 DEF Half
      <4>2. i - n + 1 < j - n + 1
        BY <1>5
      <4> QED
        BY <3>1, <4>1, <4>2, Zenon DEF Ahead
    <3> QED
      BY <3>2, <3>3
  <2> QED
    BY <2>1, <2>2
<1>6. \A i \in Nat : Len(f) # 2 * i + 1
  BY <1>1
<1> QED
  BY <1>4, <1>5, <1>6, Zenon DEF Orderly

LEMMA EmptyBuffer ==
  /\ \A j : j \notin 1 .. Len(<<>>)
  /\ \A n \in Nat : n - Len(<<>>) = n
<1>1. \A j : j \notin 1 .. Len(<<>>)
  OBVIOUS
<1>2. ASSUME NEW n \in Nat
      PROVE  n - Len(<<>>) = n
  OBVIOUS
<1> QED
  BY <1>1, <1>2, Zenon

LEMMA EmptyAhead ==
  ASSUME NEW d, NEW m
  PROVE  Ahead(d, <<>>, m)
BY EmptyBuffer, Zenon DEF Ahead

----------------------------------------------------------------------------
(* A flush keeps them.                                                     *)

LEMMA FlushShape ==
  ASSUME NEW x \in Worlds, Shape(x), NEW y, FlushEffect(x, y)
  PROVE  y \in Worlds /\ Shape(y) /\ (IsOpen(y) <=> IsOpen(x))
<1>1. CASE y = x
  BY <1>1, Zenon
<1>2. CASE FlushDue(x) /\ FlushEffect(x, y)
  <2>1. /\ x.trace \in Traces /\ x.trace.file /\ x.trace.active /\ x.trace.buffer \in Buffers
        /\ x.trace # Null
    BY <1>2, ShapeTrace, TraceFields, Zenon DEF FlushDue
  <2>2. y.trace \in Traces /\ y.trace.buffer \in Buffers /\ y.trace \in {x.trace, Emptied(x.trace)}
    BY <1>2, <2>1, FlushTrace, Zenon
  <2>3. y.trace.file /\ y.trace.active /\ y.trace.buffer # Null /\ y.trace # Null
        /\ y.trace.buffer \in {x.trace.buffer, <<>>}
    BY <2>1, <2>2, AppendedFields, NullAssumption, 0 \in Nat, ZenonT(40)
  <2>4. y \in Worlds /\ y.disk \in Files
    BY <1>2, Zenon DEF FlushEffect, Like, FlushAll, FlushPart, Grown
  <2>5. y.disk # Null
    BY <2>4, NullAssumption, Zenon
  <2> QED
    BY <2>1, <2>3, <2>4, <2>5 DEF Shape, HasFile, IsOpen
<1> QED
  BY <1>1, <1>2, Zenon DEF FlushEffect

\* Once flushed, an open trace has nothing left to write, if no write failed.
Saved(x) == IsOpen(x) => x.faulty \/ x.trace.buffer = <<>>

LEMMA FlushSaves ==
  ASSUME NEW x \in Worlds, Shape(x), NEW y, FlushEffect(x, y)
  PROVE  Saved(y)
<1>1. CASE ~FlushDue(x) /\ y = x
  <2>1. IsOpen(x) => x.trace \in Traces /\ x.trace.file /\ x.trace.buffer \in Buffers
    BY ShapeTrace, Zenon DEF IsOpen
  <2> QED
    BY <1>1, <2>1, Zenon DEF FlushDue, Saved
<1>2. CASE FlushDue(x) /\ FlushAll(x, y)
  <2>1. y.trace.buffer = <<>>
    BY <1>2, AppendedFields, 0 \in Nat, Zenon DEF FlushAll, FlushDue
  <2> QED
    BY <2>1, Zenon DEF Saved
<1>3. ASSUME NEW k \in Partial, FlushPart(x, y, k)
      PROVE  Saved(y)
  BY <1>3, Zenon DEF FlushPart, Saved
<1> QED
  BY <1>1, <1>2, <1>3, Zenon DEF FlushEffect

LEMMA FlushLosesNothing ==
  ASSUME NEW x \in Worlds, Shape(x), NothingLost(x), NEW y, FlushEffect(x, y)
  PROVE  NothingLost(y)
<1>1. CASE y = x
  BY <1>1, Zenon
<1>2. ASSUME NEW k \in Partial, FlushPart(x, y, k)
      PROVE  NothingLost(y)
  BY <1>2, Zenon DEF FlushPart, NothingLost
<1>3. CASE FlushDue(x) /\ FlushEffect(x, y) /\ FlushAll(x, y)
  <2>1. SUFFICES ASSUME ~y.faulty
                 PROVE  StoredSoFar(y)
    <3>1. IsOpen(y)
      BY <1>3, FlushShape, TraceFields, Zenon DEF IsOpen, FlushDue
    <3> QED
      BY <2>1, <3>1, Zenon DEF NothingLost
  <2>2. /\ x.trace \in Traces /\ x.trace.buffer \in Buffers /\ x.disk \in Files
        /\ x.disk # Null /\ IsOpen(x)
    BY <1>3, ShapeTrace, TraceFields, NullAssumption, Zenon DEF FlushDue, IsOpen
  <2>3. ~x.faulty
    BY <1>3, <2>1, Zenon DEF FlushAll
  <2> DEFINE n == x.events - Len(x.trace.buffer)
  <2>4. Stored(x.disk, n) /\ Continues(x.trace.buffer, n) /\ x.trace.event_count = x.events
    BY <2>2, <2>3, Zenon DEF NothingLost, StoredSoFar
  <2>5. Stored(y.disk, n + Len(x.trace.buffer))
    BY <1>3, <2>2, <2>4, StoredGrows, Zenon DEF FlushAll
  <2>6. y.trace = Emptied(x.trace) /\ y.events = x.events
    BY <1>3, Zenon DEF FlushAll, FlushEffect, Like
  <2>7. y.trace.buffer = <<>> /\ y.trace.event_count = x.trace.event_count
    BY <2>2, <2>6, AppendedFields, 0 \in Nat, Zenon
  <2>8. n + Len(x.trace.buffer) = x.events /\ x.events \in Nat /\ Len(<<>>) = 0
        /\ y.events - Len(y.trace.buffer) = x.events
    <3>1. x.events \in Nat /\ Len(x.trace.buffer) \in Nat
      BY <2>2, WorldFields DEF Buffers
    <3> QED
      BY <2>6, <2>7, <3>1
  <2>9. Continues(<<>>, x.events)
    BY EmptyBuffer, Zenon DEF Continues
  <2> QED
    BY <2>4, <2>5, <2>6, <2>7, <2>8, <2>9, Zenon DEF StoredSoFar
<1> QED
  BY <1>1, <1>2, <1>3, Zenon DEF FlushEffect

\* A write that fails leaves less than a record, so that what a retry writes
\* after it never matches.
LEMMA FlushInOrder ==
  ASSUME NEW x \in Worlds, Shape(x), InOrder(x), Partial \subseteq {0, 1},
         NEW y, FlushEffect(x, y)
  PROVE  InOrder(y)
<1>1. CASE y = x
  BY <1>1, Zenon
<1>2. CASE FlushDue(x) /\ FlushEffect(x, y) /\ y # x
  <2> DEFINE buf == x.trace.buffer
             m == x.events
  <2>1. /\ x.trace \in Traces /\ buf \in Buffers /\ x.disk \in Files
        /\ x.disk # Null /\ IsOpen(x) /\ buf # <<>>
    BY <1>2, ShapeTrace, TraceFields, NullAssumption, Zenon DEF FlushDue, IsOpen
  <2>2. y.events = m
    BY <1>2, Zenon DEF FlushEffect, Like
  <2>3. PICK k \in {0, 1, 2 * Len(buf)} :
          /\ Grown(x.disk, buf, k, y.disk)
          /\ \/ k = 2 * Len(buf) /\ y.trace = Emptied(x.trace)
             \/ k \in {0, 1} /\ y.trace \in {x.trace, Emptied(x.trace)}
    BY <1>2, Zenon DEF FlushEffect, FlushAll, FlushPart
  <2>4. Len(buf) \in Nat \ {0} /\ k \in Nat /\ Len(x.disk) \in Nat
    <3>1. Len(buf) \in Nat \ {0} /\ Len(x.disk) \in Nat
      BY <2>1 DEF Buffers, Files
    <3> QED
      BY <2>3, <3>1
  <2>5. y.trace.buffer \in {buf, <<>>}
    BY <2>1, <2>3, AppendedFields, 0 \in Nat, Zenon
  <2>6. CASE Broken(x.disk)
    <3>1. Broken(y.disk)
      BY <2>1, <2>3, <2>4, <2>6, BrokenGrows, Zenon
    <3> QED
      BY <3>1, Zenon DEF InOrder
  <2>7. CASE Orderly(x.disk, m) /\ Ahead(x.disk, buf, m)
    <3>1. ASSUME NEW n \in Nat, Len(x.disk) = 2 * n + 1, k # 0
          PROVE  InOrder(y)
      <4>1. k \in Nat \ {0}
        BY <2>4, <3>1
      <4>2. Broken(y.disk)
        BY <2>1, <2>3, <2>7, <3>1, <4>1, OddBreaks, Zenon
      <4> QED
        BY <4>2, Zenon DEF InOrder
    <3>2. ASSUME k = 2 * Len(buf), NEW n \in Nat, Len(x.disk) = 2 * n
          PROVE  InOrder(y)
      <4>1. k \notin {0, 1}
        BY <2>4, <3>2
      <4>2. y.trace.buffer = <<>>
        BY <2>1, <2>3, <4>1, AppendedFields, 0 \in Nat, Zenon
      <4>3. Orderly(y.disk, m)
        BY <2>1, <2>3, <2>7, <3>2, OrderlyGrows, Zenon
      <4> QED
        BY <2>2, <4>2, <4>3, EmptyAhead, Zenon DEF InOrder
    <3>3. ASSUME k \in {0, 1}, k = 1 => \A n \in Nat : Len(x.disk) # 2 * n + 1
          PROVE  InOrder(y)
      <4>0. Grown(x.disk, buf, k, y.disk)
        BY <2>3, Zenon
      <4> HIDE DEF buf, m
      <4>1. Orderly(y.disk, m) /\ Ahead(y.disk, buf, m)
        BY <2>1, <2>7, <3>3, <4>0, OrderlyStays, ZenonT(40)
      <4>2. Ahead(y.disk, y.trace.buffer, m)
        BY <2>5, <4>1, EmptyAhead, Zenon
      <4> QED
        BY <2>2, <4>1, <4>2, Zenon DEF InOrder
    <3>4. \E n \in Nat : Len(x.disk) = 2 * n \/ Len(x.disk) = 2 * n + 1
      <4> DEFINE l == Len(x.disk)
                 h == l \div 2
      <4>1. l \in Nat
        BY <2>4
      <4>2. h \in Nat /\ (l = 2 * h \/ l = 2 * h + 1)
        <5> HIDE DEF l
        <5> QED
          BY <4>1
      <4> HIDE DEF h
      <4> QED
        BY <4>2, Zenon
    <3>5. CASE \E n \in Nat : Len(x.disk) = 2 * n + 1
      BY <3>1, <3>3, <3>5
    <3>6. CASE \E n \in Nat : Len(x.disk) = 2 * n
      <4>0. PICK p \in Nat : Len(x.disk) = 2 * p
        BY <3>6
      <4>1. \A n \in Nat : Len(x.disk) # 2 * n + 1
        <5>1. \A n \in Nat : 2 * p # 2 * n + 1
          OBVIOUS
        <5> QED
          BY <4>0, <5>1, Zenon
      <4> QED
        BY <2>3, <3>2, <3>3, <3>6, <4>1, Zenon
    <3> QED
      BY <3>4, <3>5, <3>6, Zenon
  <2> QED
    BY <2>1, <2>6, <2>7, Zenon DEF InOrder
<1> QED
  BY <1>1, <1>2, Zenon DEF FlushEffect

----------------------------------------------------------------------------
(* So does recording an event.                                             *)

\* A record is a flush or none, then an append; or the event is dropped, and
\* then a write has failed.
Noted(v, y) ==
  \/ v.faulty /\ Like(y, v, v.trace, v.disk, v.live, v.events + 1, v.faulty)
  \/ Like(y, v, Appended(v.trace, v.events + 1), v.disk, v.live, v.events + 1, v.faulty)

LEMMA RecordSteps ==
  ASSUME NEW x \in Worlds, Shape(x), NEW y, RecordEffect(x, y)
  PROVE  \/ y = x
         \/ /\ IsOpen(x)
            /\ \E v \in Worlds : (v = x \/ FlushEffect(x, v)) /\ Noted(v, y)
<1>1. CASE Notable(x) /\ RecordEffect(x, y)
  <2>0. IsOpen(x) /\ x.trace \in Traces /\ x.trace.buffer \in Buffers
    BY <1>1, ShapeTrace, TraceFields, Zenon DEF Notable, IsOpen
  <2>1. PICK w \in Worlds, z \in Worlds :
          Counted(x, w) /\ MakesRoom(w, z) /\ Notes(z, y, x.events + 1)
    BY <1>1, Zenon DEF RecordEffect
  <2>2. /\ w.trace = x.trace /\ w.disk = x.disk /\ w.live = x.live /\ w.faulty = x.faulty
        /\ w.events = x.events + 1 /\ w.replay = x.replay /\ w.fuzz = x.fuzz
    BY <2>1, Zenon DEF Counted, Like
  <2>3. CASE ~IsFull(w)
    <3>1. Like(y, w, Appended(w.trace, x.events + 1), w.disk, w.live, w.events, w.faulty)
      BY <2>1, <2>3, Zenon DEF MakesRoom, Notes
    <3>2. Noted(x, y)
      BY <2>2, <3>1, Zenon DEF Like, Noted
    <3> QED
      BY <2>0, <3>2, Zenon
  <2>4. CASE IsFull(w)
    <3>0. FlushEffect(w, z)
      BY <2>1, <2>4, Zenon DEF MakesRoom
    <3>1. FlushDue(w)
      <4>1. Len(x.trace.buffer) >= Capacity
        BY <2>2, <2>4, Zenon DEF IsFull
      <4>2. x.trace.buffer # <<>>
        BY <4>1, TracingAssumption
      <4> QED
        BY <2>0, <2>2, <4>2, Zenon DEF FlushDue, IsOpen
    <3>2. /\ FlushDue(x) /\ Like(z, w, z.trace, z.disk, w.live, w.events, z.faulty)
          /\ FlushAll(w, z) \/ \E k \in Partial : FlushPart(w, z, k)
      BY <2>2, <3>0, <3>1, Zenon DEF FlushEffect, FlushDue
    <3> DEFINE v == [z EXCEPT !.events = x.events]
    <3>3. Like(v, z, z.trace, z.disk, z.live, x.events, z.faulty)
      <4>1. x.events \in Nat
        BY WorldFields, Zenon
      <4> QED
        BY <4>1, SetEvents, Zenon
    <3> HIDE DEF v
    <3>4. Like(v, x, v.trace, v.disk, x.live, x.events, v.faulty) /\ v \in Worlds
          /\ v.trace = z.trace /\ v.disk = z.disk /\ v.faulty = z.faulty
      BY <2>2, <3>2, <3>3, Zenon DEF Like
    <3>5. FlushAll(x, v) \/ \E k \in Partial : FlushPart(x, v, k)
      BY <2>2, <3>2, <3>4, Zenon DEF FlushAll, FlushPart
    <3>6. FlushEffect(x, v)
      BY <3>2, <3>4, <3>5, Zenon DEF FlushEffect
    <3>7. CASE IsFull(z)
      <4>1. z.trace # Emptied(x.trace)
        <5>1. Len(z.trace.buffer) >= Capacity
          BY <3>7, Zenon DEF IsFull
        <5>2. z.trace.buffer # <<>>
          BY <5>1, TracingAssumption
        <5> QED
          BY <2>0, <5>2, AppendedFields, 0 \in Nat, ZenonT(40)
      <4>2. v.faulty = TRUE
        BY <3>4, <3>5, <4>1, Zenon DEF FlushAll, FlushPart
      <4>3. y = z
        BY <2>1, <3>7, Zenon DEF Notes
      <4>4. Like(y, v, v.trace, v.disk, v.live, v.events + 1, v.faulty)
        BY <2>2, <3>2, <3>3, <3>4, <4>3, Zenon DEF Like
      <4> QED
        BY <2>0, <3>4, <3>6, <4>2, <4>4, Zenon DEF Noted
    <3>8. CASE ~IsFull(z)
      <4>1. Like(y, z, Appended(z.trace, x.events + 1), z.disk, z.live, z.events, z.faulty)
        BY <2>1, <3>8, Zenon DEF Notes
      <4>2. z.events = v.events + 1 /\ z.live = v.live /\ v.events = x.events
            /\ z.replay = v.replay /\ z.fuzz = v.fuzz
        BY <2>2, <3>2, <3>3, Zenon DEF Like
      <4>3. Like(y, v, Appended(v.trace, v.events + 1), v.disk, v.live, v.events + 1, v.faulty)
        BY <3>4, <4>1, <4>2, Zenon DEF Like
      <4> QED
        BY <2>0, <3>4, <3>6, <4>3, Zenon DEF Noted
    <3> QED
      BY <3>7, <3>8, Zenon
  <2> QED
    BY <2>3, <2>4, Zenon
<1> QED
  BY <1>1, Zenon DEF RecordEffect

LiveExact(x) ==
  /\ x.live["file"] = (IF IsOpen(x) THEN 1 ELSE 0)
  /\ x.live["trace"] = Points(x.trace)
  /\ x.live["buffer"] = (IF x.trace # Null THEN Points(x.trace.buffer) ELSE 0)
  /\ x.live["replay"] = Points(x.replay)
  /\ x.live["fuzz"] = Points(x.fuzz)

WorldInv(x) ==
  /\ x \in Worlds /\ Shape(x) /\ LiveExact(x) /\ NothingLost(x)
  /\ Partial \subseteq {0, 1} => InOrder(x)

\* Nothing was allocated, freed, opened or closed.
LEMMA LiveSame ==
  ASSUME NEW x, NEW y, Shape(x), Shape(y), LiveExact(x),
         (IsOpen(y) <=> IsOpen(x)), x.trace = Null <=> y.trace = Null,
         y.live = x.live, y.replay = x.replay, y.fuzz = x.fuzz
  PROVE  LiveExact(y)
<1>1. ASSUME NEW z, Shape(z)
      PROVE  (IF z.trace # Null THEN Points(z.trace.buffer) ELSE 0) = IF IsOpen(z) THEN 1 ELSE 0
  BY <1>1, Zenon DEF Shape, IsOpen, Points
<1>2. Points(y.trace) = Points(x.trace)
  BY Zenon DEF Points
<1> QED
  BY <1>1, <1>2, Zenon DEF LiveExact

LEMMA FlushInv ==
  ASSUME NEW x, WorldInv(x), NEW y, FlushEffect(x, y)
  PROVE  WorldInv(y) /\ Saved(y) /\ (IsOpen(y) <=> IsOpen(x)) /\ (x.trace = Null <=> y.trace = Null)
<1>1. x \in Worlds /\ Shape(x) /\ LiveExact(x) /\ NothingLost(x)
      /\ (Partial \subseteq {0, 1} => InOrder(x))
  BY Zenon DEF WorldInv
<1>2. y \in Worlds /\ Shape(y) /\ Saved(y) /\ NothingLost(y) /\ (IsOpen(y) <=> IsOpen(x))
  BY <1>1, FlushShape, FlushSaves, FlushLosesNothing, Zenon
<1>3. Partial \subseteq {0, 1} => InOrder(y)
  BY <1>1, FlushInOrder, Zenon
<1>4. x.trace = Null <=> y.trace = Null
  <2>1. CASE y = x
    BY <2>1
  <2>2. CASE FlushDue(x)
    <3>1. IsOpen(x)
      BY <2>2, TraceFields, Zenon DEF FlushDue, IsOpen
    <3> QED
      BY <1>2, <3>1, Zenon DEF IsOpen
  <2> QED
    BY <2>1, <2>2, Zenon DEF FlushEffect
<1>5. y.live = x.live /\ y.replay = x.replay /\ y.fuzz = x.fuzz
  BY Zenon DEF FlushEffect, Like
<1>6. LiveExact(y)
  BY <1>1, <1>2, <1>4, <1>5, LiveSame, Zenon
<1> QED
  BY <1>2, <1>3, <1>4, <1>6, Zenon DEF WorldInv

LEMMA AheadAppend ==
  ASSUME NEW d \in Files, NEW buf \in Buffers, NEW m \in Nat, Orderly(d, m), Ahead(d, buf, m)
  PROVE  Ahead(d, Append(buf, m + 1), m + 1)
<1> DEFINE b == Append(buf, m + 1)
<1>1. /\ Len(buf) \in Nat /\ Len(b) = Len(buf) + 1 /\ b[Len(b)] = m + 1
      /\ \A j \in 1 .. Len(buf) : b[j] = buf[j] /\ buf[j] \in Nat
  BY DEF Buffers
<1>2. ASSUME NEW i \in Nat, 2 * i + 2 <= Len(d)
      PROVE  First(d, i).event \in Nat /\ First(d, i).event <= m
  <2>0. Len(d) \in Nat
    BY DEF Files
  <2>1. 2 * i + 1 \in 1 .. Len(d)
    BY <1>2, <2>0
  <2>2. d[2 * i + 1] \in [event : Nat, half : {1, 2}]
    BY <2>1, ElementOfSeq, Zenon DEF Files
  <2>3. First(d, i).event \in Nat
    BY <2>2 DEF First
  <2> QED
    BY <1>2, <2>3, Zenon DEF Orderly
<1> HIDE DEF b
<1>3. ASSUME NEW j \in 1 .. Len(b)
      PROVE  /\ b[j] \in Nat
             /\ \/ j \in 1 .. Len(buf) /\ b[j] = buf[j] /\ b[j] <= m
                \/ j = Len(b) /\ b[j] = m + 1
  BY <1>1 DEF Ahead
<1>4. \A j \in 1 .. Len(b) : b[j] <= m + 1
  BY <1>3
<1>5. ASSUME NEW j \in 1 .. Len(b), NEW k \in 1 .. Len(b), j < k
      PROVE  b[j] < b[k]
  <2>1. j \in 1 .. Len(buf)
    BY <1>1, <1>5
  <2>2. CASE k \in 1 .. Len(buf)
    BY <1>1, <1>5, <2>1, <2>2, Zenon DEF Ahead
  <2>3. CASE k = Len(b)
    <3>1. b[j] = buf[j] /\ buf[j] <= m /\ buf[j] \in Nat
      BY <1>1, <2>1, Zenon DEF Ahead
    <3> QED
      BY <1>1, <2>3, <3>1
  <2> QED
    BY <1>3, <2>2, <2>3
<1>6. ASSUME NEW i \in Nat, NEW j \in 1 .. Len(b), 2 * i + 2 <= Len(d)
      PROVE  First(d, i).event < b[j]
  <2>1. CASE j \in 1 .. Len(buf)
    BY <1>1, <1>6, <2>1, Zenon DEF Ahead
  <2>2. CASE j = Len(b)
    <3>1. First(d, i).event \in Nat /\ First(d, i).event <= m
      BY <1>2, <1>6, Zenon
    <3> QED
      BY <1>1, <2>2, <3>1
  <2> QED
    BY <1>3, <2>1, <2>2
<1>7. Ahead(d, b, m + 1)
  BY <1>4, <1>5, <1>6, Zenon DEF Ahead
<1> QED
  BY <1>7, Zenon DEF b

LEMMA OrderlyLater ==
  ASSUME NEW d \in Files, NEW m \in Nat, Orderly(d, m)
  PROVE  Orderly(d, m + 1)
<1>1. ASSUME NEW i \in Nat, 2 * i + 2 <= Len(d)
      PROVE  First(d, i).event <= m + 1
  <2>0. Len(d) \in Nat
    BY DEF Files
  <2>1. 2 * i + 1 \in 1 .. Len(d)
    BY <1>1, <2>0
  <2>2. d[2 * i + 1] \in [event : Nat, half : {1, 2}]
    BY <2>1, ElementOfSeq, Zenon DEF Files
  <2>3. First(d, i).event \in Nat
    BY <2>2 DEF First
  <2>4. First(d, i).event <= m
    BY <1>1, Zenon DEF Orderly
  <2> QED
    BY <2>3, <2>4
<1> QED
  BY <1>1, Zenon DEF Orderly

LEMMA StoredAppend ==
  ASSUME NEW buf \in Buffers, NEW m \in Nat, Continues(buf, m - Len(buf)),
         NEW b, b = Append(buf, m + 1), NEW e, e = m + 1
  PROVE  e - Len(b) = m - Len(buf) /\ Continues(b, m - Len(buf))
<1>1. /\ Len(buf) \in Nat /\ Len(b) = Len(buf) + 1 /\ b[Len(b)] = m + 1
      /\ \A j \in 1 .. Len(buf) : b[j] = buf[j]
  BY DEF Buffers
<1>2. ASSUME NEW j \in 1 .. Len(b)
      PROVE  b[j] = (m - Len(buf)) + j
  <2>1. CASE j \in 1 .. Len(buf)
    BY <1>1, <2>1, Zenon DEF Continues
  <2>2. CASE j = Len(b)
    BY <1>1, <2>2
  <2> QED
    BY <1>1, <2>1, <2>2
<1>3. e - Len(b) = m - Len(buf)
  BY <1>1
<1> QED
  BY <1>2, <1>3, Zenon DEF Continues

LEMMA NotedInv ==
  ASSUME NEW v, WorldInv(v), IsOpen(v), NEW y, Noted(v, y)
  PROVE  WorldInv(y) /\ IsOpen(y)
<1>0. /\ v \in Worlds /\ Shape(v) /\ LiveExact(v) /\ NothingLost(v)
      /\ Partial \subseteq {0, 1} => InOrder(v)
  BY Zenon DEF WorldInv
<1>1. /\ v.trace \in Traces /\ v.trace.buffer \in Buffers /\ v.trace.file /\ v.trace.active
      /\ v.disk \in Files /\ v.disk # Null /\ v.events \in Nat /\ v.trace # Null
  BY <1>0, ShapeTrace, WorldFields, NullAssumption, Zenon DEF IsOpen
<1>2. v.events + 1 \in Nat
  BY <1>1
<1>3. /\ y \in Worlds /\ y.disk = v.disk /\ y.live = v.live /\ y.events = v.events + 1
      /\ y.faulty = v.faulty /\ y.replay = v.replay /\ y.fuzz = v.fuzz
  BY Zenon DEF Noted, Like
<1>4. /\ y.trace \in Traces /\ y.trace.buffer \in Buffers /\ y.trace.file /\ y.trace.active
  <2>1. y.trace = v.trace \/ y.trace = Appended(v.trace, v.events + 1)
    BY Zenon DEF Noted, Like
  <2> DEFINE a == Appended(v.trace, v.events + 1)
  <2>2. a \in Traces /\ a.buffer \in Buffers /\ a.file = v.trace.file /\ a.active = v.trace.active
    BY <1>1, <1>2, AppendedFields, Zenon
  <2> HIDE DEF a
  <2> QED
    BY <1>1, <2>1, <2>2, Zenon DEF a
<1>5. IsOpen(y) /\ Shape(y) /\ y.trace # Null
  BY <1>1, <1>3, <1>4, TraceFields, NullAssumption DEF IsOpen, Shape, HasFile
<1>6. LiveExact(y)
  BY <1>0, <1>1, <1>3, <1>5, LiveSame, Zenon
<1>7. CASE v.faulty /\ y.trace = v.trace
  <2>1. NothingLost(y)
    BY <1>3, <1>7, Zenon DEF NothingLost
  <2>2. ASSUME InOrder(v)
        PROVE  InOrder(y)
    <3>1. CASE Broken(v.disk)
      BY <1>3, <3>1, Zenon DEF InOrder
    <3>2. CASE Orderly(v.disk, v.events) /\ Ahead(v.disk, v.trace.buffer, v.events)
      <4>1. Orderly(v.disk, v.events + 1)
        BY <1>1, <3>2, OrderlyLater, Zenon
      <4>2. Ahead(v.disk, v.trace.buffer, v.events + 1)
        <5>1. \A j \in 1 .. Len(v.trace.buffer) : v.trace.buffer[j] \in Nat
          BY <1>1, ElementOfSeq, Zenon DEF Buffers
        <5>2. \A j \in 1 .. Len(v.trace.buffer) : v.trace.buffer[j] <= v.events
          BY <3>2, Zenon DEF Ahead
        <5>3. \A j \in 1 .. Len(v.trace.buffer) : v.trace.buffer[j] <= v.events + 1
          BY <1>1, <5>1, <5>2, SMTT(30)
        <5> QED
          BY <3>2, <5>3, Zenon DEF Ahead
      <4> QED
        BY <1>3, <1>7, <4>1, <4>2, Zenon DEF InOrder
    <3> QED
      BY <1>1, <2>2, <3>1, <3>2, Zenon DEF InOrder
  <2> QED
    BY <1>0, <1>3, <1>5, <1>6, <2>1, <2>2, Zenon DEF WorldInv
<1>8. CASE y.trace = Appended(v.trace, v.events + 1)
  <2>0. /\ y.trace.buffer = Append(v.trace.buffer, v.events + 1)
        /\ y.trace.event_count = v.trace.event_count + 1
    <3> DEFINE a == Appended(v.trace, v.events + 1)
    <3>1. /\ a.buffer = Append(v.trace.buffer, v.events + 1)
          /\ a.event_count = v.trace.event_count + 1
      BY <1>1, <1>2, AppendedFields, ZenonT(40)
    <3> QED
      BY <1>8, <3>1
  <2>1. NothingLost(y)
    <3>1. SUFFICES ASSUME ~v.faulty
                   PROVE  StoredSoFar(y)
      BY <1>3, <1>5, <3>1, Zenon DEF NothingLost
    <3> DEFINE n == v.events - Len(v.trace.buffer)
    <3>2. Stored(v.disk, n) /\ Continues(v.trace.buffer, n) /\ v.trace.event_count = v.events
      BY <1>0, <1>1, <3>1, Zenon DEF NothingLost, StoredSoFar
    <3>3. y.events - Len(y.trace.buffer) = n /\ Continues(y.trace.buffer, n)
      BY <1>1, <1>3, <2>0, <3>2, StoredAppend, ZenonT(40)
    <3> HIDE DEF n
    <3> QED
      BY <1>3, <2>0, <3>2, <3>3, Zenon DEF StoredSoFar
  <2>2. ASSUME InOrder(v)
        PROVE  InOrder(y)
    <3>1. CASE Broken(v.disk)
      BY <1>3, <3>1, Zenon DEF InOrder
    <3>2. CASE Orderly(v.disk, v.events) /\ Ahead(v.disk, v.trace.buffer, v.events)
      <4>1. /\ Orderly(v.disk, v.events + 1)
            /\ Ahead(v.disk, Append(v.trace.buffer, v.events + 1), v.events + 1)
        BY <1>1, <3>2, OrderlyLater, AheadAppend, Zenon
      <4> QED
        BY <1>3, <2>0, <4>1, Zenon DEF InOrder
    <3> QED
      BY <1>1, <2>2, <3>1, <3>2, Zenon DEF InOrder
  <2> QED
    BY <1>0, <1>3, <1>5, <1>6, <2>1, <2>2, Zenon DEF WorldInv
<1> QED
  BY <1>7, <1>8, Zenon DEF Noted, Like

LEMMA RecordInv ==
  ASSUME NEW x, WorldInv(x), NEW y, RecordEffect(x, y)
  PROVE  WorldInv(y) /\ (IsOpen(y) <=> IsOpen(x))
<1>1. x \in Worlds /\ Shape(x)
  BY Zenon DEF WorldInv
<1>2. CASE y = x
  BY <1>2, Zenon
<1>3. ASSUME IsOpen(x), NEW v \in Worlds, v = x \/ FlushEffect(x, v), Noted(v, y)
      PROVE  WorldInv(y) /\ IsOpen(y)
  <2>1. WorldInv(v) /\ IsOpen(v)
    BY <1>3, FlushInv, Zenon
  <2> QED
    BY <1>3, <2>1, NotedInv, Zenon
<1> QED
  BY <1>1, <1>2, <1>3, RecordSteps, Zenon

----------------------------------------------------------------------------
(* Clean-up, start and stop.                                               *)

\* The worlds agree on the trace file.
SameFile(x, y) == y.disk = x.disk /\ y.events = x.events /\ y.faulty = x.faulty

\* A trace that is given up with nothing left to write.
LEMMA EndInv ==
  ASSUME NEW z, WorldInv(z), Saved(z), NEW y \in Worlds, y.trace = Null, SameFile(z, y),
         LiveExact(y)
  PROVE  WorldInv(y)
<1>1. z \in Worlds /\ Shape(z) /\ NothingLost(z) /\ (Partial \subseteq {0, 1} => InOrder(z))
  BY Zenon DEF WorldInv
<1>2. ~IsOpen(y) /\ Shape(y)
  BY Zenon DEF IsOpen, Shape, HasFile
<1>3. NothingLost(y)
  <2>1. SUFFICES ASSUME ~z.faulty, z.disk # Null
                 PROVE  Stored(z.disk, z.events) \/ (z.events = 0 /\ Len(z.disk) < 2)
    BY <1>2, <2>1, Zenon DEF NothingLost, SameFile
  <2>2. CASE IsOpen(z)
    <3>1. z.trace.buffer = <<>>
      BY <2>1, <2>2, Zenon DEF Saved
    <3>2. Stored(z.disk, z.events - Len(z.trace.buffer))
      BY <1>1, <2>1, <2>2, Zenon DEF NothingLost, StoredSoFar
    <3>3. z.events - Len(<<>>) = z.events
      BY <1>1, WorldFields, EmptyBuffer, Zenon
    <3> QED
      BY <3>1, <3>2, <3>3, Zenon
  <2>3. CASE ~IsOpen(z)
    BY <1>1, <2>1, <2>3, Zenon DEF NothingLost
  <2> QED
    BY <2>2, <2>3, Zenon
<1>4. InOrder(z) => InOrder(y)
  BY <1>2, Zenon DEF InOrder, SameFile
<1> QED
  BY <1>1, <1>2, <1>3, <1>4, Zenon DEF WorldInv

LEMMA FreedValue ==
  ASSUME NEW l \in Counts, NEW k \in Kinds, NEW there \in BOOLEAN
  PROVE  \A i \in Kinds : Freed(l, k, there)[i] = IF there /\ i = k THEN l[i] - 1 ELSE l[i]
BY DEF Freed, Counts

LEMMA CleanedUpExact ==
  ASSUME NEW z \in Worlds, z.trace \in Traces, LiveExact(z)
  PROVE  /\ CleanedUp(z)["file"] = 0 /\ CleanedUp(z)["trace"] = 0
         /\ CleanedUp(z)["buffer"] = 0
         /\ CleanedUp(z)["replay"] = z.live["replay"]
         /\ CleanedUp(z)["fuzz"] = z.live["fuzz"]
<1> DEFINE buffered == z.trace.buffer # Null
           a == Freed(z.live, "buffer", buffered)
           b == Freed(a, "file", z.trace.file)
<1>0. /\ z.live \in Counts /\ z.trace.file \in BOOLEAN /\ (z.trace.buffer # Null) \in BOOLEAN
      /\ z.trace # Null
  BY WorldFields, TraceFields, Zenon
<1>1. "file" \in Kinds /\ "trace" \in Kinds /\ "buffer" \in Kinds /\ "replay" \in Kinds
      /\ "fuzz" \in Kinds
  BY DEF Kinds
<1>2. a \in Counts /\ b \in Counts
  BY <1>0, <1>1, FreedCounts, Zenon
<1>3. /\ z.live["file"] = (IF z.trace.file THEN 1 ELSE 0) /\ z.live["trace"] = 1
      /\ z.live["buffer"] = (IF z.trace.buffer # Null THEN 1 ELSE 0)
  BY <1>0, Zenon DEF LiveExact, IsOpen, Points
<1>4. /\ a["buffer"] = 0 /\ a["file"] = z.live["file"] /\ a["trace"] = 1
      /\ a["replay"] = z.live["replay"] /\ a["fuzz"] = z.live["fuzz"]
  <2>0. buffered \in BOOLEAN
    OBVIOUS
  <2> HIDE DEF buffered
  <2>1. \A i \in Kinds : a[i] = IF buffered /\ i = "buffer" THEN z.live[i] - 1 ELSE z.live[i]
    BY <1>0, <1>1, <2>0, FreedValue, SMTT(30)
  <2> HIDE DEF a
  <2> QED
    BY <1>1, <1>3, <2>1 DEF buffered
<1>5. /\ b["buffer"] = 0 /\ b["file"] = 0 /\ b["trace"] = 1
      /\ b["replay"] = z.live["replay"] /\ b["fuzz"] = z.live["fuzz"]
  <2>1. \A i \in Kinds : b[i] = IF z.trace.file /\ i = "file" THEN a[i] - 1 ELSE a[i]
    BY <1>0, <1>1, <1>2, FreedValue, SMTT(30)
  <2> HIDE DEF a, b
  <2> QED
    BY <1>0, <1>1, <1>3, <1>4, <2>1
<1>6. \A i \in Kinds : CleanedUp(z)[i] = IF i = "trace" THEN b[i] - 1 ELSE b[i]
  <2>1. \A i \in Kinds : Freed(b, "trace", TRUE)[i] = IF TRUE /\ i = "trace" THEN b[i] - 1 ELSE b[i]
    BY <1>1, <1>2, FreedValue, ZenonT(40)
  <2> QED
    BY <2>1, Zenon DEF CleanedUp
<1> HIDE DEF buffered, a, b
<1> QED
  BY <1>1, <1>5, <1>6

LEMMA CleanupInv ==
  ASSUME NEW x, WorldInv(x), NEW y, CleanupEffect(x, y)
  PROVE  WorldInv(y) /\ y.trace = Null
<1>1. CASE x.trace = Null /\ y = x
  BY <1>1, Zenon
<1>2. ASSUME x.trace \in Traces, NEW z \in Worlds, z.trace \in Traces,
             IF x.trace.active THEN FlushEffect(x, z) ELSE z = x,
             Like(y, z, Null, z.disk, CleanedUp(z), z.events, z.faulty)
      PROVE  WorldInv(y) /\ y.trace = Null
  <2>1. WorldInv(z) /\ Saved(z)
    <3>1. CASE x.trace.active
      BY <1>2, <3>1, FlushInv, Zenon
    <3>2. CASE ~x.trace.active
      <4>1. ~x.trace.file
        BY <1>2, <3>2, TraceFields DEF WorldInv, Shape
      <4> QED
        BY <1>2, <3>2, <4>1, Zenon DEF Saved, IsOpen
    <3> QED
      BY <3>1, <3>2, Zenon
  <2>2. y \in Worlds /\ y.trace = Null /\ SameFile(z, y) /\ y.live = CleanedUp(z)
        /\ y.replay = z.replay /\ y.fuzz = z.fuzz
    BY <1>2, Zenon DEF Like, SameFile
  <2>3. LiveExact(z)
    BY <2>1, Zenon DEF WorldInv
  <2>4. LiveExact(y)
    BY <1>2, <2>2, <2>3, CleanedUpExact, Zenon DEF LiveExact, IsOpen, Points
  <2> QED
    BY <2>1, <2>2, <2>4, EndInv, Zenon
<1> QED
  BY <1>1, <1>2, Zenon DEF CleanupEffect

\* The trace that gth_trace_init allocates.
NewTrace == [file |-> FALSE, buffer |-> Null, event_count |-> 0, active |-> FALSE]

LEMMA NewTraceFields ==
  /\ NewTrace \in Traces /\ NewTrace.file = FALSE /\ NewTrace.active = FALSE /\ NewTrace.buffer = Null
  /\ NewTrace.event_count = 0
BY DEF NewTrace, Traces

LEMMA MoreValue ==
  ASSUME NEW l \in Counts, NEW k \in Kinds
  PROVE  \A i \in Kinds : MoreLive(l, k)[i] = IF i = k THEN l[i] + 1 ELSE l[i]
BY DEF MoreLive, Counts

LEMMA KindNames ==
  "file" \in Kinds /\ "trace" \in Kinds /\ "buffer" \in Kinds /\ "replay" \in Kinds
  /\ "fuzz" \in Kinds
BY DEF Kinds

LEMMA InitInv ==
  ASSUME NEW x, WorldInv(x), NEW r \in TraceInit(x)
  PROVE  /\ WorldInv(r[2])
         /\ r[2].replay = x.replay /\ r[2].fuzz = x.fuzz
         /\ r[1] = "ENOMEM" => r[2] = x
         /\ r[1] # "ENOMEM" => r[2].trace \in Traces
<1>0. /\ x \in Worlds /\ Shape(x) /\ LiveExact(x) /\ NothingLost(x)
      /\ Partial \subseteq {0, 1} => InOrder(x)
  BY Zenon DEF WorldInv
<1>1. CASE r = <<"ESTATE", x>> /\ x.trace # Null
  BY <1>0, <1>1, WorldFields
<1>2. CASE r = <<"ENOMEM", x>>
  BY <1>2
<1>3. CASE r = <<"OK", [Allocate(x, "trace") EXCEPT !.trace = NewTrace]>> /\ x.trace = Null
  <2> DEFINE a == Allocate(x, "trace")
             y == [a EXCEPT !.trace = NewTrace]
  <2>1. Like(a, x, x.trace, x.disk, MoreLive(x.live, "trace"), x.events, x.faulty)
    BY <1>0, KindNames, AllocateFree, Zenon DEF MoreLive
  <2>2. a \in Worlds
    BY <2>1, Zenon DEF Like
  <2>3. Like(y, a, NewTrace, a.disk, a.live, a.events, a.faulty)
    BY <2>2, NewTraceFields, SetTrace, Zenon DEF MaybeTraces
  <2>4. r[1] = "OK" /\ r[2] = y
    BY <1>3
  <2> HIDE DEF y, a
  <2>5. /\ y \in Worlds /\ SameFile(x, y) /\ y.replay = x.replay /\ y.fuzz = x.fuzz
        /\ y.trace = NewTrace /\ y.live = MoreLive(x.live, "trace")
    BY <2>1, <2>3, Zenon DEF Like, SameFile
  <2>6. y.trace \in Traces /\ y.trace # Null /\ ~IsOpen(y) /\ ~IsOpen(x)
    BY <1>3, <2>5, NewTraceFields, TraceFields, Zenon DEF IsOpen
  <2>7. Shape(y)
    BY <2>5, NewTraceFields, Zenon DEF Shape, HasFile
  <2>8. NothingLost(y) /\ (InOrder(x) => InOrder(y))
    BY <1>0, <2>5, <2>6, Zenon DEF NothingLost, InOrder, SameFile
  <2>9. LiveExact(y)
    <3>1. x.live \in Counts
      BY <1>0, WorldFields, Zenon
    <3>2. /\ y.live["file"] = x.live["file"] /\ y.live["trace"] = x.live["trace"] + 1
          /\ y.live["buffer"] = x.live["buffer"] /\ y.live["replay"] = x.live["replay"]
          /\ y.live["fuzz"] = x.live["fuzz"]
      BY <2>5, <3>1, KindNames, MoreValue
    <3>3. y.live["trace"] = 1
      BY <1>0, <1>3, <3>2 DEF LiveExact, Points
    <3> QED
      BY <1>0, <1>3, <2>5, <2>6, <3>2, <3>3, NewTraceFields, Zenon DEF LiveExact, Points, IsOpen
  <2> QED
    BY <1>0, <2>4, <2>5, <2>6, <2>7, <2>8, <2>9, Zenon DEF WorldInv
<1> QED
  BY <1>1, <1>2, <1>3, Zenon DEF TraceInit, NewTrace

LEMMA HeaderInv ==
  /\ Stored(HeaderBytes, 0)
  /\ \A d \in Headers : /\ Orderly(d, 0)
                        /\ Stored(d, 0) \/ Len(d) < 2
<1>1. Stored(HeaderBytes, 0)
  BY HeaderFiles DEF Stored, First, Second
<1>2. ASSUME NEW d \in Headers
      PROVE  Orderly(d, 0) /\ (Stored(d, 0) \/ Len(d) < 2)
  <2>1. /\ d = HeaderBytes \/ Len(d) \in {0, 1}
        /\ \A i \in 1 .. Len(d) : d[i] = Half(0, i)
    BY HeaderFiles, Zenon
  <2>2. Stored(d, 0) \/ Len(d) < 2
    BY <1>1, <2>1
  <2>3. Len(d) \in {0, 1, 2}
    BY <2>1, HeaderFiles
  <2>4. ASSUME NEW i \in Nat, 2 * i + 2 <= Len(d)
        PROVE  i = 0 /\ First(d, i) = Half(0, 1) /\ Second(d, i) = Half(0, 2)
    <3>1. /\ i = 0 /\ 2 * i + 1 = 1 /\ 2 * i + 2 = 2
          /\ 1 \in 1 .. Len(d) /\ 2 \in 1 .. Len(d)
      <4> DEFINE l == Len(d)
      <4>1. l \in {0, 1, 2} /\ 2 * i + 2 <= l
        BY <2>3, <2>4
      <4> HIDE DEF l
      <4>2. i = 0 /\ 2 * i + 1 = 1 /\ 2 * i + 2 = 2 /\ 1 \in 1 .. l /\ 2 \in 1 .. l
        BY <4>1
      <4> QED
        BY <4>2 DEF l
    <3> QED
      BY <2>1, <3>1, Zenon DEF First, Second
  <2>5. ASSUME NEW i \in Nat, Len(d) = 2 * i + 1
        PROVE  First(d, i) = Half(0, 1)
    <3>1. 2 * i + 1 = 1 /\ 1 \in 1 .. Len(d)
      BY <2>3, <2>5
    <3> QED
      BY <2>1, <3>1, Zenon DEF First
  <2>6. Half(0, 1).event = 0 /\ Half(0, 2).event = 0 /\ Half(0, 1).half = 1 /\ Half(0, 2).half = 2
    BY DEF Half
  <2>7. Orderly(d, 0)
    <3>1. ASSUME NEW i \in Nat, 2 * i + 2 <= Len(d)
          PROVE  Sound(d, i) /\ First(d, i).event <= 0
      <4>1. 0 <= 0 /\ 1 < 2
        OBVIOUS
      <4> QED
        BY <2>4, <2>6, <3>1, <4>1, Zenon DEF Sound
    <3>2. ASSUME NEW i \in Nat, NEW j \in Nat, i < j, 2 * j + 2 <= Len(d)
          PROVE  First(d, i).event < First(d, j).event
      BY <2>3, <3>2, SMTT(30)
    <3> QED
      BY <2>5, <2>6, <3>1, <3>2 DEF Orderly
  <2> QED
    BY <2>2, <2>7
<1> QED
  BY <1>1, <1>2, Zenon

LEMMA StartInv ==
  ASSUME NEW x, WorldInv(x), x.trace \in Traces, ~x.trace.file, NEW y, StartEffect(x, y)
  PROVE  WorldInv(y)
<1>0. /\ x \in Worlds /\ Shape(x) /\ LiveExact(x) /\ x.live \in Counts /\ ~IsOpen(x)
      /\ x.trace # Null /\ x.trace.buffer = Null /\ x.trace.event_count = 0
  <2>1. x \in Worlds /\ Shape(x) /\ LiveExact(x)
    BY Zenon DEF WorldInv
  <2>2. x.trace # Null /\ x.live \in Counts
    BY <2>1, TraceFields, WorldFields, Zenon
  <2> QED
    BY <2>1, <2>2, Zenon DEF Shape, IsOpen
<1>1. CASE CleanupEffect(x, y)
  BY <1>1, CleanupInv, Zenon
<1>2. ASSUME NEW q \in Worlds, NEW d \in Headers, Like(q, x, x.trace, d, x.live, 0, FALSE),
             CleanupEffect(q, y)
      PROVE  WorldInv(y)
  <2>1. /\ q.trace = x.trace /\ q.disk = d /\ q.live = x.live /\ q.events = 0
        /\ q.replay = x.replay /\ q.fuzz = x.fuzz
    BY <1>2, Zenon DEF Like
  <2>2. ~IsOpen(q) /\ Shape(q)
    BY <1>0, <2>1, Zenon DEF IsOpen, Shape, HasFile
  <2>3. LiveExact(q)
    BY <1>0, <2>1, <2>2, LiveSame, Zenon
  <2>4. NothingLost(q) /\ InOrder(q)
    BY <2>1, <2>2, HeaderInv, Zenon DEF NothingLost, InOrder
  <2>5. WorldInv(q)
    BY <2>2, <2>3, <2>4, Zenon DEF WorldInv
  <2> QED
    BY <1>2, <2>5, CleanupInv, Zenon
<1>3. ASSUME NEW q \in Worlds,
             Like(q, x, Begun(x.trace), HeaderBytes,
                  MoreLive(MoreLive(x.live, "file"), "buffer"), 0, FALSE),
             RecordEffect(q, y)
      PROVE  WorldInv(y)
  <2>1. /\ q.trace = Begun(x.trace) /\ q.disk = HeaderBytes /\ q.events = 0
        /\ q.live = MoreLive(MoreLive(x.live, "file"), "buffer")
        /\ q.replay = x.replay /\ q.fuzz = x.fuzz
    BY <1>3, Zenon DEF Like
  <2>2. /\ q.trace \in Traces /\ q.trace.file /\ q.trace.active /\ q.trace.buffer = <<>>
        /\ q.trace.event_count = 0
    <3> DEFINE b == Begun(x.trace)
    <3>1. b \in Traces /\ b.file /\ b.active /\ b.buffer = <<>> /\ b.event_count = x.trace.event_count
      BY BegunFields, Zenon
    <3> HIDE DEF b
    <3> QED
      BY <1>0, <2>1, <3>1, Zenon DEF b
  <2>3. q.trace # Null /\ q.trace.buffer # Null /\ q.disk # Null
    <3>1. <<>> \in Buffers
      BY DEF Buffers
    <3> QED
      BY <2>1, <2>2, <3>1, NullAssumption, HeaderFiles, Zenon
  <2>4. IsOpen(q) /\ Shape(q)
    <3>1. q.trace.active = q.trace.file
      BY <2>2, TraceFields
    <3> QED
      BY <2>2, <2>3, <3>1, Zenon DEF IsOpen, Shape, HasFile
  <2>5. LiveExact(q)
    <3> DEFINE l == MoreLive(x.live, "file")
               r == MoreLive(l, "buffer")
    <3>1. l \in Counts
      BY <1>0, KindNames, MoreLess, Zenon
    <3>2. \A i \in Kinds : r[i] = IF i = "buffer" THEN l[i] + 1 ELSE l[i]
      BY <3>1, KindNames, MoreValue, Zenon
    <3>3. \A i \in Kinds : l[i] = IF i = "file" THEN x.live[i] + 1 ELSE x.live[i]
      BY <1>0, KindNames, MoreValue, Zenon
    <3>4. /\ x.live["file"] = 0 /\ x.live["trace"] = 1 /\ x.live["buffer"] = 0
          /\ x.live["replay"] = Points(x.replay) /\ x.live["fuzz"] = Points(x.fuzz)
      BY <1>0, Zenon DEF LiveExact, Points
    <3>5. q.live = r
      BY <2>1, Zenon
    <3> HIDE DEF l, r
    <3>6. /\ r["file"] = 1 /\ r["trace"] = 1 /\ r["buffer"] = 1
          /\ r["replay"] = Points(x.replay) /\ r["fuzz"] = Points(x.fuzz)
      BY <3>2, <3>3, <3>4, KindNames
    <3> QED
      BY <2>1, <2>3, <2>4, <3>5, <3>6, Zenon DEF LiveExact, Points
  <2>6. NothingLost(q)
    <3>1. q.events - Len(q.trace.buffer) = 0
      <4>1. 0 \in Nat
        OBVIOUS
      <4> QED
        BY <2>1, <2>2, <4>1, EmptyBuffer, Zenon
    <3>2. Continues(<<>>, 0)
      BY EmptyBuffer, Zenon DEF Continues
    <3>3. StoredSoFar(q)
      BY <2>1, <2>2, <3>1, <3>2, HeaderInv, Zenon DEF StoredSoFar
    <3> QED
      BY <2>4, <3>3, Zenon DEF NothingLost
  <2>7. InOrder(q)
    <3>1. HeaderBytes \in Headers
      BY Zenon DEF Headers
    <3> QED
      BY <2>1, <2>2, <3>1, HeaderInv, EmptyAhead, Zenon DEF InOrder
  <2>8. WorldInv(q)
    BY <2>4, <2>5, <2>6, <2>7, Zenon DEF WorldInv
  <2> QED
    BY <1>3, <2>8, RecordInv, Zenon
<1> QED
  BY <1>1, <1>2, <1>3, Zenon DEF StartEffect

\* gth_trace_stop closes the file and marks the trace, and then cleans up.
StopClosed(y) == [FileClosed(y) EXCEPT !.trace.active = FALSE]

LEMMA StopInv ==
  ASSUME NEW y, WorldInv(y), Saved(y), IsOpen(y), NEW z \in TraceCleanup(StopClosed(y))
  PROVE  WorldInv(z) /\ z.replay = y.replay /\ z.fuzz = y.fuzz
<1> DEFINE f == Free(y, "file")
           g == FileClosed(y)
           t == [y.trace EXCEPT !.file = FALSE]
           u == [t EXCEPT !.active = FALSE]
           c == StopClosed(y)
<1>0. /\ y \in Worlds /\ Shape(y) /\ LiveExact(y) /\ y.trace \in Traces
      /\ y.trace.buffer \in Buffers /\ y.live \in Counts
  BY ShapeTrace, WorldFields, Zenon DEF WorldInv, IsOpen
<1>1. Like(f, y, y.trace, y.disk, [y.live EXCEPT !["file"] = @ - 1], y.events, y.faulty)
  BY <1>0, KindNames, AllocateFree, Zenon
<1>2. f \in Worlds /\ f.trace = y.trace
  BY <1>1, Zenon DEF Like
<1>3. /\ t \in Traces /\ u \in Traces /\ u.file = FALSE /\ u.active = FALSE
      /\ u.buffer = y.trace.buffer
  BY <1>0, Zenon DEF Traces
<1>4. g = [f EXCEPT !.trace = t]
  BY <1>2, Zenon DEF FileClosed
<1>5. c = [g EXCEPT !.trace = [g.trace EXCEPT !.active = FALSE]]
  BY Zenon DEF StopClosed
<1> HIDE DEF f, g, c, t
<1>6. Like(g, f, t, f.disk, f.live, f.events, f.faulty)
  BY <1>2, <1>3, <1>4, SetTrace, Zenon DEF MaybeTraces
<1>7. g \in Worlds /\ g.trace = t
  BY <1>6, Zenon DEF Like
<1>8. c = [g EXCEPT !.trace = u]
  BY <1>5, <1>7, Zenon
<1> HIDE DEF u
<1>9. Like(c, g, u, g.disk, g.live, g.events, g.faulty)
  BY <1>3, <1>7, <1>8, SetTrace, Zenon DEF MaybeTraces
<1>10. /\ c \in Worlds /\ c.trace = u /\ SameFile(y, c)
       /\ c.live = [y.live EXCEPT !["file"] = @ - 1]
       /\ c.replay = y.replay /\ c.fuzz = y.fuzz
  BY <1>1, <1>6, <1>9, Zenon DEF Like, SameFile
<1>11. c.trace # Null /\ ~IsOpen(c)
  BY <1>3, <1>10, TraceFields, Zenon DEF IsOpen
<1>12. LiveExact(c)
  <2>1. /\ y.live["file"] = 1 /\ y.live["trace"] = 1 /\ y.live["buffer"] = 1
        /\ y.live["replay"] = Points(y.replay) /\ y.live["fuzz"] = Points(y.fuzz)
    BY <1>0, NullAssumption, Zenon DEF LiveExact, Points, IsOpen
  <2>2. /\ c.live["file"] = y.live["file"] - 1 /\ c.live["trace"] = y.live["trace"]
        /\ c.live["buffer"] = y.live["buffer"] /\ c.live["replay"] = y.live["replay"]
        /\ c.live["fuzz"] = y.live["fuzz"]
    BY <1>0, <1>10, KindNames DEF Counts
  <2>3. c.live["file"] = 0
    BY <2>1, <2>2
  <2> QED
    BY <1>0, <1>3, <1>10, <1>11, <2>1, <2>2, <2>3, NullAssumption, ZenonT(40) DEF LiveExact, Points
<1>13. CleanupEffect(c, z)
  BY <1>10, <1>11, CleanupFields, Zenon DEF HasFile, IsOpen, c
<1>14. Like(z, c, Null, c.disk, CleanedUp(c), c.events, c.faulty)
  BY <1>3, <1>10, <1>11, <1>13, Zenon DEF CleanupEffect
<1>15. z \in Worlds /\ z.trace = Null /\ SameFile(y, z) /\ z.live = CleanedUp(c)
       /\ z.replay = y.replay /\ z.fuzz = y.fuzz
  BY <1>10, <1>14, Zenon DEF Like, SameFile
<1>16. LiveExact(z)
  <2>1. /\ z.live["file"] = 0 /\ z.live["trace"] = 0 /\ z.live["buffer"] = 0
        /\ z.live["replay"] = c.live["replay"] /\ z.live["fuzz"] = c.live["fuzz"]
    BY <1>3, <1>10, <1>12, <1>15, CleanedUpExact, Zenon
  <2>2. c.live["replay"] = Points(z.replay) /\ c.live["fuzz"] = Points(z.fuzz)
    BY <1>10, <1>12, <1>15, Zenon DEF LiveExact
  <2> QED
    BY <1>15, <2>1, <2>2, Zenon DEF LiveExact, IsOpen, Points
<1> QED
  BY <1>15, <1>16, EndInv, Zenon

----------------------------------------------------------------------------
(* Replay and fuzzer.                                                      *)

SameSides(x, y) == y.replay = x.replay /\ y.fuzz = x.fuzz

LEMMA SidesKept ==
  ASSUME NEW x, NEW y
  PROVE  /\ FlushEffect(x, y) => SameSides(x, y)
         /\ RecordEffect(x, y) => SameSides(x, y)
         /\ CleanupEffect(x, y) => SameSides(x, y)
         /\ StartEffect(x, y) => SameSides(x, y)
<1>1. ASSUME NEW v, NEW w, FlushEffect(v, w)
      PROVE  SameSides(v, w)
  BY <1>1, Zenon DEF FlushEffect, Like, SameSides
<1>2. ASSUME NEW v, NEW w, RecordEffect(v, w)
      PROVE  SameSides(v, w)
  <2>1. CASE w = v
    BY <2>1, Zenon DEF SameSides
  <2>2. ASSUME NEW a, NEW b, Counted(v, a), MakesRoom(a, b), NEW e, Notes(b, w, e)
        PROVE  SameSides(v, w)
    <3>1. SameSides(v, a) /\ SameSides(a, b)
      BY <1>1, <2>2, Zenon DEF Counted, MakesRoom, Like, SameSides
    <3>2. SameSides(b, w)
      BY <2>2, Zenon DEF Notes, Like, SameSides
    <3> QED
      BY <3>1, <3>2, Zenon DEF SameSides
  <2> QED
    BY <1>2, <2>1, <2>2, Zenon DEF RecordEffect
<1>3. ASSUME NEW v, NEW w, CleanupEffect(v, w)
      PROVE  SameSides(v, w)
  <2>1. CASE w = v
    BY <2>1, Zenon DEF SameSides
  <2>2. ASSUME NEW z, IF v.trace.active THEN FlushEffect(v, z) ELSE z = v,
               Like(w, z, Null, z.disk, CleanedUp(z), z.events, z.faulty)
        PROVE  SameSides(v, w)
    <3>1. SameSides(v, z)
      BY <1>1, <2>2, Zenon DEF SameSides
    <3> QED
      BY <2>2, <3>1, Zenon DEF SameSides, Like
  <2> QED
    BY <1>3, <2>1, <2>2, Zenon DEF CleanupEffect
<1>4. ASSUME StartEffect(x, y)
      PROVE  SameSides(x, y)
  <2>1. ASSUME NEW q, NEW t, NEW d, NEW l, NEW e, NEW f, Like(q, x, t, d, l, e, f), SameSides(q, y)
        PROVE  SameSides(x, y)
    BY <2>1, Zenon DEF Like, SameSides
  <2> QED
    BY <1>2, <1>3, <1>4, <2>1, Zenon DEF StartEffect
<1> QED
  BY <1>1, <1>2, <1>3, <1>4, Zenon

\* A step that leaves trace and file alone.
LEMMA SideInv ==
  ASSUME NEW x, WorldInv(x), NEW y \in Worlds, y.trace = x.trace, SameFile(x, y), LiveExact(y)
  PROVE  WorldInv(y)
<1>1. Shape(x) /\ NothingLost(x) /\ (Partial \subseteq {0, 1} => InOrder(x))
  BY Zenon DEF WorldInv
<1>2. IsOpen(y) <=> IsOpen(x)
  BY Zenon DEF IsOpen
<1>3. Shape(y)
  BY <1>1, Zenon DEF Shape, HasFile, SameFile
<1>4. NothingLost(y) /\ (InOrder(x) => InOrder(y))
  BY <1>1, <1>2, Zenon DEF NothingLost, StoredSoFar, InOrder, SameFile
<1> QED
  BY <1>1, <1>3, <1>4, Zenon DEF WorldInv

LEMMA ReplayCleanupInv ==
  ASSUME NEW x, WorldInv(x)
  PROVE  /\ WorldInv(ReplayCleanup(x))
         /\ ReplayCleanup(x).replay = Null
         /\ ReplayCleanup(x).fuzz = x.fuzz /\ ReplayCleanup(x).trace = x.trace
<1>1. CASE x.replay = Null
  BY <1>1, Zenon DEF ReplayCleanup
<1>2. CASE x.replay # Null
  <2> DEFINE f == Free(x, "replay")
             y == [f EXCEPT !.replay = Null]
  <2>0. x \in Worlds /\ LiveExact(x) /\ x.live \in Counts
    BY WorldFields, Zenon DEF WorldInv
  <2>1. Like(f, x, x.trace, x.disk, [x.live EXCEPT !["replay"] = @ - 1], x.events, x.faulty)
    BY <2>0, KindNames, AllocateFree, Zenon
  <2>2. f \in Worlds
    BY <2>1, Zenon DEF Like
  <2>3. ReplayCleanup(x) = y
    BY <1>2, Zenon DEF ReplayCleanup
  <2> HIDE DEF f
  <2>4. /\ y \in Worlds /\ y.replay = Null /\ y.fuzz = f.fuzz /\ y.trace = f.trace
        /\ SameFile(f, y) /\ y.live = f.live
    BY <2>2, Zenon DEF Worlds, MaybeBuffers, SameFile
  <2> HIDE DEF y
  <2>5. /\ y.fuzz = x.fuzz /\ y.trace = x.trace /\ SameFile(x, y)
        /\ y.live = [x.live EXCEPT !["replay"] = @ - 1]
    BY <2>1, <2>4, Zenon DEF Like, SameFile
  <2>6. LiveExact(y)
    <3>1. /\ y.live["file"] = x.live["file"] /\ y.live["trace"] = x.live["trace"]
          /\ y.live["buffer"] = x.live["buffer"] /\ y.live["replay"] = x.live["replay"] - 1
          /\ y.live["fuzz"] = x.live["fuzz"]
      BY <2>0, <2>5, KindNames DEF Counts
    <3>2. y.live["replay"] = 0
      BY <1>2, <2>0, <3>1 DEF LiveExact, Points
    <3> QED
      BY <2>0, <2>4, <2>5, <3>1, <3>2, ZenonT(40) DEF LiveExact, Points, IsOpen
  <2> QED
    BY <2>3, <2>4, <2>5, <2>6, SideInv, Zenon
<1> QED
  BY <1>1, <1>2, Zenon

LEMMA FuzzCleanupInv ==
  ASSUME NEW x, WorldInv(x)
  PROVE  /\ WorldInv(FuzzCleanup(x))
         /\ FuzzCleanup(x).fuzz = Null
         /\ FuzzCleanup(x).replay = x.replay /\ FuzzCleanup(x).trace = x.trace
<1>1. CASE x.fuzz = Null
  BY <1>1, Zenon DEF FuzzCleanup
<1>2. CASE x.fuzz # Null
  <2> DEFINE f == Free(x, "fuzz")
             y == [f EXCEPT !.fuzz = Null]
  <2>0. x \in Worlds /\ LiveExact(x) /\ x.live \in Counts
    BY WorldFields, Zenon DEF WorldInv
  <2>1. Like(f, x, x.trace, x.disk, [x.live EXCEPT !["fuzz"] = @ - 1], x.events, x.faulty)
    BY <2>0, KindNames, AllocateFree, Zenon
  <2>2. f \in Worlds
    BY <2>1, Zenon DEF Like
  <2>3. FuzzCleanup(x) = y
    BY <1>2, Zenon DEF FuzzCleanup
  <2> HIDE DEF f
  <2>4. /\ y \in Worlds /\ y.fuzz = Null /\ y.replay = f.replay /\ y.trace = f.trace
        /\ SameFile(f, y) /\ y.live = f.live
    BY <2>2, Zenon DEF Worlds, MaybeFuzzers, SameFile
  <2> HIDE DEF y
  <2>5. /\ y.replay = x.replay /\ y.trace = x.trace /\ SameFile(x, y)
        /\ y.live = [x.live EXCEPT !["fuzz"] = @ - 1]
    BY <2>1, <2>4, Zenon DEF Like, SameFile
  <2>6. LiveExact(y)
    <3>1. /\ y.live["file"] = x.live["file"] /\ y.live["trace"] = x.live["trace"]
          /\ y.live["buffer"] = x.live["buffer"] /\ y.live["replay"] = x.live["replay"]
          /\ y.live["fuzz"] = x.live["fuzz"] - 1
      BY <2>0, <2>5, KindNames DEF Counts
    <3>2. y.live["fuzz"] = 0
      BY <1>2, <2>0, <3>1 DEF LiveExact, Points
    <3> QED
      BY <2>0, <2>4, <2>5, <3>1, <3>2, ZenonT(40) DEF LiveExact, Points, IsOpen
  <2> QED
    BY <2>3, <2>4, <2>5, <2>6, SideInv, ZenonT(40)
<1> QED
  BY <1>1, <1>2, Zenon

\* The fuzzer that gth_fuzz_init allocates.
NewFuzzer == [perturbation_rate |-> 10]

LEMMA FuzzInitInv ==
  ASSUME NEW x, WorldInv(x), NEW r \in FuzzInit(x)
  PROVE  /\ WorldInv(r[2])
         /\ r[2].replay = x.replay
         /\ r[1] = "OK" \/ r[2] = x
<1>1. CASE r \in {<<"ESTATE", x>>, <<"ENOMEM", x>>}
  BY <1>1
<1>2. CASE r = <<"OK", [Allocate(x, "fuzz") EXCEPT !.fuzz = NewFuzzer]>> /\ x.fuzz = Null
  <2> DEFINE a == Allocate(x, "fuzz")
             y == [a EXCEPT !.fuzz = NewFuzzer]
  <2>0. x \in Worlds /\ LiveExact(x) /\ x.live \in Counts
    BY WorldFields, Zenon DEF WorldInv
  <2>1. Like(a, x, x.trace, x.disk, [x.live EXCEPT !["fuzz"] = @ + 1], x.events, x.faulty)
    BY <2>0, KindNames, AllocateFree, Zenon
  <2>2. a \in Worlds
    BY <2>1, Zenon DEF Like
  <2>3. r[1] = "OK" /\ r[2] = y
    BY <1>2
  <2>4. NewFuzzer \in Fuzzers
    BY DEF NewFuzzer, Fuzzers
  <2> HIDE DEF a
  <2>5. /\ y \in Worlds /\ y.fuzz = NewFuzzer /\ y.replay = a.replay /\ y.trace = a.trace
        /\ SameFile(a, y) /\ y.live = a.live
    BY <2>2, <2>4, Zenon DEF Worlds, MaybeFuzzers, SameFile
  <2> HIDE DEF y
  <2>6. /\ y.replay = x.replay /\ y.trace = x.trace /\ SameFile(x, y)
        /\ y.live = [x.live EXCEPT !["fuzz"] = @ + 1]
    BY <2>1, <2>5, Zenon DEF Like, SameFile
  <2>7. LiveExact(y)
    <3>1. /\ y.live["file"] = x.live["file"] /\ y.live["trace"] = x.live["trace"]
          /\ y.live["buffer"] = x.live["buffer"] /\ y.live["replay"] = x.live["replay"]
          /\ y.live["fuzz"] = x.live["fuzz"] + 1
      BY <2>0, <2>6, KindNames DEF Counts
    <3>2. y.live["fuzz"] = 1 /\ y.fuzz # Null
      BY <1>2, <2>0, <2>4, <2>5, <3>1, NullAssumption, SMTT(30) DEF LiveExact, Points
    <3> QED
      BY <2>0, <2>6, <3>1, <3>2, ZenonT(40) DEF LiveExact, Points, IsOpen
  <2> QED
    BY <2>3, <2>5, <2>6, <2>7, SideInv, Zenon
<1> QED
  BY <1>1, <1>2, Zenon DEF FuzzInit, NewFuzzer

\* What gth_replay_init reads is a sequence of event numbers.
LEMMA RecordsType ==
  ASSUME NEW d \in Files, Len(d) >= 2
  PROVE  /\ CountRecords(d) \in Nat /\ 2 * CountRecords(d) + 2 <= Len(d)
         /\ Records(d) \in Buffers /\ Len(Records(d)) = CountRecords(d)
<1>1. Len(d) \in Nat
  BY DEF Files
<1>2. CountRecords(d) \in {0, Len(d) \div 2 - 1}
  BY Zenon DEF CountRecords
<1> DEFINE n == CountRecords(d)
           l == Len(d)
<1> HIDE DEF n, l
<1>3. n \in Nat /\ 2 * n + 2 <= l
  BY <1>1, <1>2 DEF n, l
<1>4. ASSUME NEW i \in 1 .. n
      PROVE  d[2 * i + 1].event \in Nat
  <2>1. 2 * i + 1 \in 1 .. Len(d)
    BY <1>3 DEF l
  <2>2. d[2 * i + 1] \in [event : Nat, half : {1, 2}]
    BY <2>1, ElementOfSeq, Zenon DEF Files
  <2> QED
    BY <2>2
<1>5. Records(d) = [i \in 1 .. n |-> d[2 * i + 1].event]
  BY Zenon DEF Records, n
<1>6. Records(d) \in Seq(Nat) /\ Len(Records(d)) = n
  BY <1>3, <1>4, <1>5
<1> QED
  BY <1>3, <1>6 DEF Buffers, n, l

----------------------------------------------------------------------------
(* The inductive invariant: Tracing's state is such a world, a runtime that*)
(* is not initialized points to nothing, and replay and fuzzer are where   *)
(* the mode says unless the program loads a trace in FUZZ.                 *)

TracingInv ==
  /\ initialized \in BOOLEAN /\ mode \in Modes
  /\ WorldInv(World)
  /\ ~initialized => mode = "NORMAL" /\ trace = Null /\ replay = Null /\ fuzz = Null
  /\ "FUZZ" \notin ReplayFromModes => NoStaleSubsystem

LEMMA WorldIs ==
  /\ World.trace = trace /\ World.replay = replay /\ World.fuzz = fuzz
  /\ World.disk = disk /\ World.live = live /\ World.events = events /\ World.faulty = faulty
BY DEF World

LEMMA BecomesWorld ==
  ASSUME NEW y \in Worlds, Becomes(y)
  PROVE  World' = y
BY DEF Becomes, World, Worlds

\* A step to a world that keeps replay and fuzzer, in the same mode.
LEMMA SameModeInv ==
  ASSUME TracingInv, initialized, UNCHANGED <<initialized, mode>>, NEW y, WorldInv(y), Becomes(y),
         SameSides(World, y)
  PROVE  TracingInv'
<1>1. World' = y
  BY BecomesWorld, Zenon DEF WorldInv
<1>2. WorldInv(World)'
  BY <1>1, Zenon
<1>3. replay' = replay /\ fuzz' = fuzz
  BY WorldIs, Zenon DEF SameSides, Becomes
<1> QED
  BY <1>2, <1>3, Zenon DEF TracingInv, NoStaleSubsystem

LEMMA TracingInit == Init => TracingInv
<1> SUFFICES ASSUME Init
             PROVE  TracingInv
  OBVIOUS
<1>1. live \in Counts /\ \A k \in Kinds : live[k] = 0
  BY DEF Init, Counts
<1>2. World \in Worlds
  <2>1. /\ trace \in MaybeTraces /\ replay \in MaybeBuffers /\ fuzz \in MaybeFuzzers
        /\ disk \in MaybeFiles /\ faulty \in BOOLEAN
    BY Zenon DEF Init, MaybeTraces, MaybeBuffers, MaybeFuzzers, MaybeFiles
  <2>2. events \in Nat
    BY DEF Init
  <2> QED
    BY <1>1, <2>1, <2>2, Zenon DEF World, Worlds
<1>3. Shape(World) /\ ~IsOpen(World)
  BY WorldIs, Zenon DEF Init, Shape, HasFile, IsOpen
<1>4. LiveExact(World)
  BY <1>1, <1>3, KindNames, WorldIs, Zenon DEF LiveExact, Points, Init
<1>5. NothingLost(World) /\ InOrder(World)
  BY WorldIs, Zenon DEF Init, NothingLost, InOrder
<1>6. WorldInv(World)
  BY <1>2, <1>3, <1>4, <1>5, Zenon DEF WorldInv
<1> QED
  BY <1>6, Zenon DEF Init, TracingInv, Modes, NoStaleSubsystem

LEMMA StartStep ==
  ASSUME TracingInv, TraceStart
  PROVE  TracingInv'
<1>1. WorldInv(World) /\ initialized
  BY Zenon DEF TracingInv, TraceStart
<1>2. PICK r \in TraceInit(World) :
        \/ r[1] = "ENOMEM" /\ Becomes(r[2])
        \/ r[1] # "ENOMEM" /\ r[2].trace.file /\ Becomes(r[2])
        \/ r[1] # "ENOMEM" /\ ~r[2].trace.file /\ \E s \in StartOutcomes(r[2]) : Becomes(s[2])
  BY Zenon DEF TraceStart
<1>3. WorldInv(r[2]) /\ SameSides(World, r[2]) /\ (r[1] # "ENOMEM" => r[2].trace \in Traces)
  BY <1>1, InitInv, Zenon DEF SameSides
<1>4. UNCHANGED <<initialized, mode>>
  BY Zenon DEF TraceStart
<1>5. CASE Becomes(r[2])
  BY <1>1, <1>3, <1>4, <1>5, SameModeInv, Zenon
<1>6. ASSUME NEW s \in StartOutcomes(r[2]), Becomes(s[2]), r[2].trace \in Traces, ~r[2].trace.file
      PROVE  TracingInv'
  <2>1. StartEffect(r[2], s[2])
    BY <1>3, <1>6, StartFields, Zenon DEF WorldInv
  <2>2. WorldInv(s[2]) /\ SameSides(r[2], s[2])
    BY <1>3, <1>6, <2>1, StartInv, SidesKept, Zenon
  <2>3. SameSides(World, s[2])
    BY <1>3, <2>2, Zenon DEF SameSides
  <2> QED
    BY <1>1, <1>4, <1>6, <2>2, <2>3, SameModeInv, ZenonT(40)
<1> QED
  BY <1>2, <1>3, <1>5, <1>6, Zenon

LEMMA HookStep ==
  ASSUME TracingInv, Hook
  PROVE  TracingInv'
<1>1. WorldInv(World) /\ initialized /\ UNCHANGED <<initialized, mode>>
  BY Zenon DEF TracingInv, Hook
<1>2. PICK x \in TraceRecord(World) : Becomes(x)
  BY Zenon DEF Hook
<1>3. RecordEffect(World, x)
  BY <1>1, RecordFields, Zenon DEF WorldInv
<1>4. WorldInv(x) /\ SameSides(World, x)
  BY <1>1, <1>3, RecordInv, SidesKept, Zenon
<1> QED
  BY <1>1, <1>2, <1>4, SameModeInv, Zenon

LEMMA StopStep ==
  ASSUME TracingInv, TraceStop
  PROVE  TracingInv'
<1>1. WorldInv(World) /\ initialized /\ UNCHANGED <<initialized, mode>> /\ Recording
  BY Zenon DEF TracingInv, TraceStop
<1>2. PICK x \in TraceRecord(World) :
        \E y \in TraceFlush(x) : \E z \in TraceCleanup(StopClosed(y)) : Becomes(z)
  BY Zenon DEF TraceStop, StopClosed
<1>3. PICK y \in TraceFlush(x) : \E z \in TraceCleanup(StopClosed(y)) : Becomes(z)
  BY <1>2, Zenon
<1>4. PICK z \in TraceCleanup(StopClosed(y)) : Becomes(z)
  BY <1>3, Zenon
<1>5. IsOpen(World)
  BY <1>1, WorldIs, ShapeTrace, Zenon DEF IsOpen, Recording, WorldInv
<1>6. RecordEffect(World, x)
  BY <1>1, RecordFields, Zenon DEF WorldInv
<1>7. WorldInv(x) /\ SameSides(World, x) /\ IsOpen(x)
  BY <1>1, <1>5, <1>6, RecordInv, SidesKept, Zenon
<1>8. FlushEffect(x, y)
  BY <1>7, FlushFields, Zenon DEF WorldInv, Shape
<1>9. WorldInv(y) /\ Saved(y) /\ IsOpen(y) /\ SameSides(x, y)
  BY <1>7, <1>8, FlushInv, SidesKept, Zenon
<1>10. WorldInv(z) /\ SameSides(y, z)
  BY <1>9, StopInv, Zenon DEF SameSides
<1>11. SameSides(World, z)
  BY <1>7, <1>9, <1>10, Zenon DEF SameSides
<1> QED
  BY <1>1, <1>4, <1>10, <1>11, SameModeInv, Zenon

LEMMA WorldNext ==
  /\ World'.trace = trace' /\ World'.replay = replay' /\ World'.fuzz = fuzz'
  /\ World'.disk = disk' /\ World'.live = live' /\ World'.events = events'
  /\ World'.faulty = faulty'
BY DEF World

LEMMA ReplayFromStep ==
  ASSUME TracingInv, ReplayFrom
  PROVE  TracingInv'
<1>1. /\ WorldInv(World) /\ World \in Worlds /\ LiveExact(World) /\ initialized
      /\ UNCHANGED <<initialized, trace, fuzz, disk, events, faulty>> /\ mode \in ReplayFromModes
  BY Zenon DEF TracingInv, ReplayFrom, WorldInv
<1>2. CASE UNCHANGED <<mode, replay, live>>
  <2>1. World' = World
    BY <1>1, <1>2, Zenon DEF World
  <2> QED
    BY <1>1, <1>2, <2>1, Zenon DEF TracingInv, NoStaleSubsystem
<1>3. CASE /\ replay = Null /\ Loadable /\ replay' = Records(disk)
           /\ live' = [live EXCEPT !["replay"] = @ + 1] /\ mode' = "REPLAY"
  <2>1. disk \in Files /\ Len(disk) >= 2 /\ live \in Counts
    BY <1>1, <1>3, WorldIs, WorldFields, Zenon DEF Loadable
  <2>2. replay' \in Buffers /\ replay' # Null
    BY <1>3, <2>1, RecordsType, NullAssumption, Zenon
  <2>3. live' \in Counts
    BY <1>3, <2>1, KindNames DEF Counts
  <2>4. World' \in Worlds
    <3>1. /\ trace' \in MaybeTraces /\ fuzz' \in MaybeFuzzers /\ disk' \in MaybeFiles
          /\ events' \in Nat /\ faulty' \in BOOLEAN
      BY <1>1, WorldIs, Zenon DEF Worlds
    <3>2. replay' \in MaybeBuffers
      BY <2>2, Zenon DEF MaybeBuffers
    <3> QED
      BY <2>3, <3>1, <3>2, Zenon DEF World, Worlds
  <2>5. World'.trace = World.trace /\ SameFile(World, World')
    BY <1>1, WorldIs, WorldNext, Zenon DEF SameFile
  <2>6. LiveExact(World')
    <3>1. /\ live'["file"] = live["file"] /\ live'["trace"] = live["trace"]
          /\ live'["buffer"] = live["buffer"] /\ live'["replay"] = live["replay"] + 1
          /\ live'["fuzz"] = live["fuzz"]
      BY <1>3, <2>1, KindNames DEF Counts
    <3>2. live["replay"] = 0
      BY <1>1, <1>3, WorldIs, Zenon DEF LiveExact, Points
    <3>3. live'["replay"] = 1
      BY <3>1, <3>2
    <3> QED
      BY <1>1, <2>2, <3>1, <3>3, WorldIs, WorldNext, ZenonT(40) DEF LiveExact, Points, IsOpen
  <2>7. WorldInv(World')
    BY <1>1, <2>4, <2>5, <2>6, SideInv, ZenonT(40)
  <2>8. "FUZZ" \notin ReplayFromModes => NoStaleSubsystem'
    BY <1>1, <1>3, Zenon DEF TracingInv, NoStaleSubsystem
  <2>9. mode' \in Modes
    BY <1>3, Zenon DEF Modes
  <2> QED
    BY <1>1, <2>7, <2>8, <2>9, Zenon DEF TracingInv
<1> QED
  BY <1>2, <1>3, Zenon DEF ReplayFrom

LEMMA LeaveModeInv ==
  ASSUME TracingInv, NEW x \in LeaveMode(World)
  PROVE  WorldInv(x) /\ ("FUZZ" \notin ReplayFromModes => x.replay = Null /\ x.fuzz = Null)
<1>1. WorldInv(World) /\ mode \in Modes /\ ("FUZZ" \notin ReplayFromModes => NoStaleSubsystem)
  BY Zenon DEF TracingInv
<1>2. CASE mode = "RECORD"
  <2>1. x \in TraceCleanup(World)
    BY <1>2 DEF LeaveMode
  <2>2. CleanupEffect(World, x)
    BY <1>1, <2>1, CleanupFields, Zenon DEF WorldInv, Shape
  <2>3. WorldInv(x) /\ SameSides(World, x)
    BY <1>1, <2>2, CleanupInv, SidesKept, Zenon
  <2>4. NoStaleSubsystem => replay = Null /\ fuzz = Null
    BY <1>2 DEF NoStaleSubsystem
  <2> QED
    BY <1>1, <2>3, <2>4, WorldIs, Zenon DEF SameSides
<1>3. CASE mode = "REPLAY"
  <2>1. x = ReplayCleanup(World)
    BY <1>3 DEF LeaveMode
  <2>2. NoStaleSubsystem => fuzz = Null
    BY <1>3 DEF NoStaleSubsystem
  <2> QED
    BY <1>1, <2>1, <2>2, ReplayCleanupInv, WorldIs, Zenon
<1>4. CASE mode = "FUZZ"
  <2>1. x = FuzzCleanup(World)
    BY <1>4 DEF LeaveMode
  <2>2. NoStaleSubsystem => replay = Null
    BY <1>4 DEF NoStaleSubsystem
  <2> QED
    BY <1>1, <2>1, <2>2, FuzzCleanupInv, WorldIs, Zenon
<1>5. CASE mode = "NORMAL"
  <2>1. x = World
    BY <1>5 DEF LeaveMode
  <2>2. NoStaleSubsystem => replay = Null /\ fuzz = Null
    BY <1>5 DEF NoStaleSubsystem
  <2> QED
    BY <1>1, <2>1, <2>2, WorldIs, Zenon
<1> QED
  BY <1>1, <1>2, <1>3, <1>4, <1>5, Zenon DEF Modes

LEMMA SetModeStep ==
  ASSUME TracingInv, NEW m \in Modes, SetMode(m)
  PROVE  TracingInv'
<1>1. initialized /\ UNCHANGED initialized
  BY Zenon DEF SetMode
<1>2. PICK x \in LeaveMode(World) :
        \/ m \in {"NORMAL", "REPLAY"} /\ Becomes(x) /\ mode' = m
        \/ \E r \in TraceInit(x) : Becomes(r[2]) /\ mode' \in {"NORMAL", "RECORD"}
        \/ \E r \in FuzzInit(x) : Becomes(r[2]) /\ mode' = IF r[1] = "OK" THEN "FUZZ" ELSE "NORMAL"
  BY Zenon DEF SetMode
<1>3. WorldInv(x) /\ ("FUZZ" \notin ReplayFromModes => x.replay = Null /\ x.fuzz = Null)
  BY LeaveModeInv, Zenon
<1>4. ASSUME NEW y, WorldInv(y), Becomes(y), mode' \in Modes,
             "FUZZ" \notin ReplayFromModes => y.replay = Null /\ (y.fuzz # Null => mode' = "FUZZ")
      PROVE  TracingInv'
  <2>1. World' = y
    BY <1>4, BecomesWorld, Zenon DEF WorldInv
  <2>2. "FUZZ" \notin ReplayFromModes => NoStaleSubsystem'
    BY <1>4, Zenon DEF NoStaleSubsystem, Becomes
  <2> QED
    BY <1>1, <1>4, <2>1, <2>2, Zenon DEF TracingInv
<1>5. CASE Becomes(x) /\ mode' = m
  BY <1>3, <1>4, <1>5, Zenon
<1>6. ASSUME NEW r \in TraceInit(x), Becomes(r[2]), mode' \in {"NORMAL", "RECORD"}
      PROVE  TracingInv'
  <2>1. WorldInv(r[2]) /\ r[2].replay = x.replay /\ r[2].fuzz = x.fuzz
    BY <1>3, InitInv, Zenon
  <2>2. mode' \in Modes
    BY <1>6, Zenon DEF Modes
  <2> QED
    BY <1>3, <1>4, <1>6, <2>1, <2>2, Zenon
<1>7. ASSUME NEW r \in FuzzInit(x), Becomes(r[2]),
             mode' = IF r[1] = "OK" THEN "FUZZ" ELSE "NORMAL"
      PROVE  TracingInv'
  <2>1. WorldInv(r[2]) /\ r[2].replay = x.replay /\ (r[1] = "OK" \/ r[2] = x)
    BY <1>3, FuzzInitInv, Zenon
  <2>2. mode' \in Modes
    BY <1>7, Zenon DEF Modes
  <2> QED
    BY <1>3, <1>4, <1>7, <2>1, <2>2, Zenon
<1> QED
  BY <1>2, <1>5, <1>6, <1>7, Zenon

LEMMA SetRateStep ==
  ASSUME TracingInv, NEW r \in Rates, FuzzSetRate(r)
  PROVE  TracingInv'
<1>1. /\ WorldInv(World) /\ World \in Worlds /\ LiveExact(World) /\ initialized
      /\ UNCHANGED <<initialized, mode, trace, replay, disk, live, events, faulty>>
  BY Zenon DEF TracingInv, FuzzSetRate, WorldInv
<1>2. fuzz' = fuzz \/ (fuzz # Null /\ fuzz' = [perturbation_rate |-> r])
  BY Zenon DEF FuzzSetRate
<1>3. r \in Nat
  BY TracingAssumption
<1>4. [perturbation_rate |-> r] \in Fuzzers
  BY <1>3 DEF Fuzzers
<1>5. fuzz' \in MaybeFuzzers /\ (fuzz' = Null <=> fuzz = Null)
  BY <1>1, <1>2, <1>4, WorldIs, NullAssumption, Zenon DEF Worlds, MaybeFuzzers
<1>6. World' \in Worlds
  <2>1. /\ trace' \in MaybeTraces /\ replay' \in MaybeBuffers /\ disk' \in MaybeFiles
        /\ live' \in Counts /\ events' \in Nat /\ faulty' \in BOOLEAN
    BY <1>1, WorldIs, Zenon DEF Worlds
  <2> QED
    BY <1>5, <2>1, Zenon DEF World, Worlds
<1>7. World'.trace = World.trace /\ SameFile(World, World') /\ LiveExact(World')
  BY <1>1, <1>5, WorldIs, WorldNext, Zenon DEF SameFile, LiveExact, Points, IsOpen
<1>8. WorldInv(World')
  BY <1>1, <1>6, <1>7, SideInv, Zenon
<1> QED
  BY <1>1, <1>5, <1>8, Zenon DEF TracingInv, NoStaleSubsystem

LEMMA LifeStep ==
  ASSUME TracingInv, RuntimeInit \/ RuntimeShutdown \/ Refused \/ UNCHANGED vars
  PROVE  TracingInv'
<1>1. WorldInv(World)
  BY Zenon DEF TracingInv
<1>2. CASE RuntimeInit
  <2>1. World' = World
    BY <1>2, Zenon DEF World, RuntimeInit, TracingInv
  <2>2. mode' \in Modes /\ replay' = Null /\ fuzz' = Null /\ initialized' = TRUE
    BY <1>2, Zenon DEF RuntimeInit, Modes
  <2> QED
    BY <1>1, <2>1, <2>2, Zenon DEF TracingInv, NoStaleSubsystem
<1>3. CASE RuntimeShutdown
  <2>1. PICK x \in TraceCleanup(World) : Becomes(FuzzCleanup(ReplayCleanup(x)))
    BY <1>3, Zenon DEF RuntimeShutdown
  <2>2. CleanupEffect(World, x)
    BY <1>1, CleanupFields, Zenon DEF WorldInv, Shape
  <2>3. WorldInv(x) /\ x.trace = Null
    BY <1>1, <2>2, CleanupInv, Zenon
  <2> DEFINE y == ReplayCleanup(x)
             z == FuzzCleanup(y)
  <2>4. WorldInv(y) /\ y.trace = Null /\ y.replay = Null
    BY <2>3, ReplayCleanupInv, Zenon
  <2>5. Becomes(z)
    BY <2>1, Zenon
  <2> HIDE DEF y
  <2>6. WorldInv(z) /\ z.trace = Null /\ z.replay = Null /\ z.fuzz = Null
    BY <2>4, FuzzCleanupInv, Zenon
  <2> HIDE DEF z
  <2>7. World' = z
    BY <2>5, <2>6, BecomesWorld, Zenon DEF WorldInv
  <2>8. trace' = Null /\ replay' = Null /\ fuzz' = Null
    BY <2>5, <2>6, Zenon DEF Becomes
  <2>9. mode' = "NORMAL" /\ mode' \in Modes /\ initialized' = FALSE
    BY <1>3, Zenon DEF RuntimeShutdown, Modes
  <2> QED
    BY <2>6, <2>7, <2>8, <2>9, Zenon DEF TracingInv, NoStaleSubsystem
<1>4. CASE Refused \/ UNCHANGED vars
  <2>1. UNCHANGED <<initialized, mode, trace, replay, fuzz, disk, live, events, faulty>>
    BY <1>4, Zenon DEF Refused, vars
  <2>2. World' = World
    BY <2>1, Zenon DEF World
  <2> QED
    BY <1>1, <2>1, <2>2, Zenon DEF TracingInv, NoStaleSubsystem
<1> QED
  BY <1>2, <1>3, <1>4, Zenon

\* Every step of the runtime's calls preserves it: inductive.
LEMMA TracingStep == TracingInv /\ [Next]_vars => TracingInv'
<1> SUFFICES ASSUME TracingInv, [Next]_vars
             PROVE  TracingInv'
  OBVIOUS
<1>1. CASE TraceStart
  BY <1>1, StartStep, Zenon
<1>2. CASE TraceStop
  BY <1>2, StopStep, ZenonT(40)
<1>3. CASE Hook
  BY <1>3, HookStep, Zenon
<1>4. CASE ReplayFrom
  BY <1>4, ReplayFromStep, Zenon
<1>5. ASSUME NEW m \in Modes, SetMode(m)
      PROVE  TracingInv'
  BY <1>5, SetModeStep, Zenon
<1>6. ASSUME NEW r \in Rates, FuzzSetRate(r)
      PROVE  TracingInv'
  BY <1>6, SetRateStep, Zenon
<1>7. CASE RuntimeInit \/ RuntimeShutdown \/ Refused \/ UNCHANGED vars
  BY <1>7, LifeStep, Zenon
<1> QED
  BY <1>1, <1>2, <1>3, <1>4, <1>5, <1>6, <1>7, ZenonT(40) DEF Next

LEMMA TracingAlways == Spec => []TracingInv
BY TracingInit, TracingStep, PTL DEF Spec

----------------------------------------------------------------------------
(* What the invariant says of the properties.                              *)

LEMMA InvHandles == TracingInv => HandlesExact
<1> SUFFICES ASSUME TracingInv
             PROVE  HandlesExact
  OBVIOUS
<1>1. live \in [Kinds -> Int]
  BY WorldIs, WorldFields, Zenon DEF TracingInv, WorldInv, Counts
<1>2. LiveExact(World)
  BY Zenon DEF TracingInv, WorldInv
<1> DEFINE f == IF trace # Null /\ trace.file THEN 1 ELSE 0
           t == Points(trace)
           b == IF trace # Null THEN Points(trace.buffer) ELSE 0
           r == Points(replay)
           z == Points(fuzz)
<1>3. live["file"] = f /\ live["trace"] = t /\ live["buffer"] = b /\ live["replay"] = r
      /\ live["fuzz"] = z
  BY <1>2, WorldIs, Zenon DEF LiveExact, IsOpen
<1>4. HandlesExact <=> live = [file |-> f, trace |-> t, buffer |-> b, replay |-> r, fuzz |-> z]
  BY Zenon DEF HandlesExact
<1> HIDE DEF f, t, b, r, z
<1>5. live = [file |-> f, trace |-> t, buffer |-> b, replay |-> r, fuzz |-> z]
  BY <1>1, <1>3 DEF Kinds
<1> QED
  BY <1>4, <1>5, Zenon

\* A file with all of the events from 1 to n is read back as just those.
LEMMA StoredRecords ==
  ASSUME NEW d \in Files, NEW n, Stored(d, n)
  PROVE  /\ n \in Nat /\ CountRecords(d) = n /\ Records(d) = [i \in 1 .. n |-> i]
<1>1. n \in Nat /\ Len(d) = 2 * n + 2
  BY Zenon DEF Stored
<1>2. Len(d) \div 2 - 1 = n
  BY <1>1
<1>3. ASSUME NEW i \in 1 .. n + 1
      PROVE  Whole(d, i) /\ d[2 * i - 1].event = i - 1
  <2> DEFINE j == i - 1
  <2>1. j \in 0 .. n /\ 2 * j + 1 = 2 * i - 1 /\ 2 * j + 2 = 2 * i
    BY <1>1
  <2>2. d[2 * i - 1] = Half(j, 1) /\ d[2 * i] = Half(j, 2)
    BY <2>1, Zenon DEF Stored, First, Second
  <2> HIDE DEF j
  <2>3. d[2 * i - 1].event = j /\ d[2 * i].event = j /\ d[2 * i - 1].half = 1 /\ d[2 * i].half = 2
    BY <2>2 DEF Half
  <2>4. 1 < 2
    OBVIOUS
  <2> QED
    BY <2>3, <2>4, Zenon DEF Whole, j
<1>4. d[1].event = Header
  <2>1. 1 \in 1 .. n + 1 /\ 2 * 1 - 1 = 1 /\ 1 - 1 = 0
    BY <1>1
  <2> QED
    BY <1>3, <2>1, Zenon DEF Header
<1>5. CountRecords(d) = n
  BY <1>2, <1>3, <1>4, Zenon DEF CountRecords
<1>6. ASSUME NEW i \in 1 .. n
      PROVE  d[2 * i + 1].event = i
  <2>1. i + 1 \in 1 .. n + 1 /\ 2 * (i + 1) - 1 = 2 * i + 1 /\ (i + 1) - 1 = i
    BY <1>1
  <2> QED
    BY <1>3, <2>1, Zenon
<1> QED
  BY <1>1, <1>5, <1>6, Zenon DEF Records

\* The events from 1 to n.
UpTo(n) == [i \in 1 .. n |-> i]

LEMMA UpToSeq ==
  ASSUME NEW n \in Nat
  PROVE  UpTo(n) \in Seq(Nat) /\ Len(UpTo(n)) = n /\ \A i \in 1 .. n : UpTo(n)[i] = i
BY DEF UpTo

LEMMA NoneYet == UpTo(0) = <<>>
<1>1. UpTo(0) \in Seq(Nat) /\ Len(UpTo(0)) = 0
  BY UpToSeq
<1> QED
  BY <1>1, EmptySeq, Zenon

LEMMA UpToAppended ==
  ASSUME NEW n \in Nat, NEW buf \in Seq(Nat), Continues(buf, n)
  PROVE  UpTo(n) \o buf = UpTo(n + Len(buf))
<1> DEFINE s == UpTo(n)
           c == s \o buf
           u == UpTo(n + Len(buf))
           m == Len(buf)
<1>1. m \in Nat /\ n + m \in Nat
  OBVIOUS
<1>2. /\ s \in Seq(Nat) /\ Len(s) = n /\ \A i \in 1 .. n : s[i] = i
      /\ u \in Seq(Nat) /\ Len(u) = n + m /\ \A i \in 1 .. n + m : u[i] = i
  BY <1>1, UpToSeq, Zenon
<1>3. \A j \in 1 .. m : buf[j] = n + j
  BY Zenon DEF Continues
<1> HIDE DEF s, u
<1>4. /\ c \in Seq(Nat) /\ Len(c) = n + m
      /\ \A i \in 1 .. n + m : c[i] = IF i <= n THEN s[i] ELSE buf[i - n]
  <2>1. /\ c \in Seq(Nat) /\ Len(c) = Len(s) + Len(buf)
        /\ \A i \in 1 .. Len(s) + Len(buf) :
             c[i] = IF i <= Len(s) THEN s[i] ELSE buf[i - Len(s)]
    <3>1. s \in Seq(Nat)
      BY <1>2, Zenon
    <3> QED
      BY <3>1, ConcatProperties, Zenon
  <2>2. Len(s) = n
    BY <1>2, Zenon
  <2> HIDE DEF c
  <2> QED
    BY <2>1, <2>2, Zenon
<1> HIDE DEF c, m
<1>5. ASSUME NEW i \in 1 .. n + m
      PROVE  c[i] = u[i]
  <2>1. c[i] = (IF i <= n THEN s[i] ELSE buf[i - n]) /\ u[i] = i
    BY <1>2, <1>4, Zenon
  <2>2. CASE i <= n
    <3>1. i \in 1 .. n
      BY <1>1, <2>2
    <3> QED
      BY <1>2, <2>1, <2>2, <3>1, Zenon
  <2>3. CASE ~(i <= n)
    <3>1. i - n \in 1 .. m /\ n + (i - n) = i
      BY <1>1, <2>3
    <3> QED
      BY <1>3, <2>1, <2>3, <3>1, Zenon
  <2> QED
    BY <2>2, <2>3, Zenon
<1>6. c = u
  BY <1>2, <1>4, <1>5, SeqEqual, Zenon
<1> QED
  BY <1>6, Zenon DEF c, u, s, m

\* What the replay would read of a file with the events from 1 to n.
LEMMA StoredOnDisk ==
  ASSUME NEW n, disk \in Files, disk # Null, Stored(disk, n)
  PROVE  n \in Nat /\ OnDisk = UpTo(n)
<1>1. n \in Nat /\ CountRecords(disk) = n /\ Records(disk) = UpTo(n) /\ Len(disk) = 2 * n + 2
  BY StoredRecords, Zenon DEF UpTo, Stored
<1>2. Len(disk) >= 2
  BY <1>1
<1>3. CASE n > 0
  BY <1>1, <1>2, <1>3, Zenon DEF OnDisk, Loadable
<1>4. CASE n = 0
  <2>1. ~(CountRecords(disk) > 0)
    BY <1>1, <1>4
  <2> QED
    BY <1>1, <1>4, <2>1, NoneYet, Zenon DEF OnDisk, Loadable
<1> QED
  BY <1>1, <1>3, <1>4

LEMMA InvComplete == TracingInv => TraceComplete
<1> SUFFICES ASSUME TracingInv, ~faulty, disk # Null
             PROVE  /\ OnDisk \o Buffered = UpTo(events)
                    /\ trace # Null /\ trace.file => trace.event_count = events
  BY Zenon DEF TraceComplete, UpTo
<1>1. /\ World \in Worlds /\ Shape(World) /\ NothingLost(World) /\ disk \in Files /\ events \in Nat
  BY WorldIs, WorldFields, Zenon DEF TracingInv, WorldInv
<1>2. CASE trace # Null /\ trace.file
  <2>1. trace.buffer \in Buffers
    BY <1>1, <1>2, WorldIs, ShapeTrace, Zenon
  <2> DEFINE b == trace.buffer
             n == events - Len(b)
  <2>2. Stored(disk, n) /\ Continues(b, n) /\ trace.event_count = events
    BY <1>1, <1>2, WorldIs, Zenon DEF NothingLost, StoredSoFar, IsOpen
  <2>3. Buffered = b
    BY <1>2, Zenon DEF Buffered
  <2>4. n \in Nat /\ OnDisk = UpTo(n)
    BY <1>1, <2>2, StoredOnDisk, Zenon
  <2>5. OnDisk \o b = UpTo(n + Len(b))
    BY <2>1, <2>2, <2>4, UpToAppended, Zenon DEF Buffers
  <2> HIDE DEF b
  <2>6. n + Len(b) = events
    BY <1>1, <2>1 DEF Buffers, b
  <2> QED
    BY <2>2, <2>3, <2>5, <2>6, Zenon
<1>3. CASE ~(trace # Null /\ trace.file)
  <2>1. Stored(disk, events) \/ (events = 0 /\ Len(disk) < 2)
    BY <1>1, <1>3, WorldIs, Zenon DEF NothingLost, IsOpen
  <2>2. Buffered = <<>>
    BY <1>3, Zenon DEF Buffered
  <2>3. OnDisk = UpTo(events)
    <3>1. CASE Stored(disk, events)
      BY <1>1, <3>1, StoredOnDisk, Zenon
    <3>2. CASE events = 0 /\ Len(disk) < 2
      <4>1. ~(Len(disk) >= 2)
        BY <1>1, <3>2 DEF Files
      <4> QED
        BY <3>2, <4>1, NoneYet, Zenon DEF OnDisk, Loadable
    <3> QED
      BY <2>1, <3>1, <3>2, Zenon
  <2>4. UpTo(events) \in Seq(Nat)
    BY <1>1, UpToSeq, Zenon
  <2>5. UpTo(events) \o <<>> = UpTo(events)
    BY <2>4, ConcatEmptySeq, Zenon
  <2> QED
    BY <1>3, <2>2, <2>3, <2>5, Zenon
<1> QED
  BY <1>2, <1>3, Zenon

LEMMA InvInOrder == TracingInv /\ Partial \subseteq {0, 1} => LoadedInOrder
<1> SUFFICES ASSUME TracingInv, Partial \subseteq {0, 1}, Loadable,
                    NEW i \in DOMAIN Records(disk), NEW j \in DOMAIN Records(disk), i < j
             PROVE  Records(disk)[i] < Records(disk)[j]
  BY Zenon DEF LoadedInOrder
<1>1. /\ InOrder(World) /\ disk # Null /\ disk \in Files /\ Len(disk) >= 2
      /\ CountRecords(disk) > 0
  BY WorldIs, WorldFields, Zenon DEF TracingInv, WorldInv, Loadable
<1> DEFINE n == CountRecords(disk)
           l == Len(disk)
<1>2. n \in Nat /\ 2 * n + 2 <= l /\ l \in Nat
  BY <1>1, RecordsType DEF Files
<1>3. n = l \div 2 - 1 /\ \A k \in 1 .. n + 1 : Whole(disk, k)
  <2>1. CASE disk[1].event = Header /\ \A k \in 1 .. (l \div 2 - 1) + 1 : Whole(disk, k)
    BY <2>1, Zenon DEF CountRecords
  <2>2. CASE ~(disk[1].event = Header /\ \A k \in 1 .. (l \div 2 - 1) + 1 : Whole(disk, k))
    <3>1. n = 0
      BY <2>2, Zenon DEF CountRecords
    <3> QED
      BY <1>1, <3>1
  <2> QED
    BY <2>1, <2>2, Zenon
<1>4. i \in 1 .. n /\ j \in 1 .. n
  BY Zenon DEF Records
<1> HIDE DEF n, l
<1>5. ~Broken(disk)
  <2>1. ASSUME NEW k \in Nat, 2 * k + 2 <= l
        PROVE  Sound(disk, k)
    <3>1. k + 1 \in 1 .. n + 1 /\ 2 * (k + 1) - 1 = 2 * k + 1 /\ 2 * (k + 1) = 2 * k + 2
      BY <1>2, <1>3, <2>1
    <3>2. Whole(disk, k + 1)
      BY <1>3, <3>1, Zenon
    <3> QED
      BY <3>1, <3>2, Zenon DEF Whole, Sound, First, Second
  <2> QED
    BY <2>1, Zenon DEF Broken, l
<1>6. Orderly(disk, events)
  BY <1>1, <1>5, WorldIs, Zenon DEF InOrder
<1>7. i \in Nat /\ j \in Nat /\ 2 * j + 2 <= l
  BY <1>2, <1>4
<1>8. First(disk, i).event < First(disk, j).event
  BY <1>6, <1>7, Zenon DEF Orderly, l
<1>9. Records(disk)[i] = First(disk, i).event /\ Records(disk)[j] = First(disk, j).event
  BY <1>4, Zenon DEF Records, First, n
<1> QED
  BY <1>8, <1>9, Zenon

----------------------------------------------------------------------------
(* The theorems.                                                           *)

\* Whatever malloc, fopen or write fails, in any order of calls, every object
\* that gth_trace_init, gth_trace_start, gth_replay_from and gth_fuzz_init
\* allocate and every file they open is the one g_state points to: none leaks,
\* and no clean-up frees or closes one twice.
THEOREM HandlesAlwaysExact == Spec => []HandlesExact
BY TracingAlways, InvHandles, PTL

\* As long as no write has failed, file and buffer together hold every event
\* since gth_trace_start, in order, for every capacity of the buffer and every
\* number of flushes; after gth_trace_stop or a clean-up the file holds all.
THEOREM TraceAlwaysComplete == Spec => []TraceComplete
BY TracingAlways, InvComplete, PTL

\* When a failing write leaves less than a whole record in the file, a trace
\* that gth_replay_count_records accepts has its events in order and none of
\* them twice: what gth_trace_buffer_flush writes again after such a failure
\* breaks a checksum.
THEOREM LoadedAlwaysInOrder ==
  ASSUME Partial \subseteq {0, 1}
  PROVE  Spec => []LoadedInOrder
<1>1. TracingInv => LoadedInOrder
  BY InvInOrder
<1> QED
  BY <1>1, TracingAlways, PTL

\* In a program that does not call gth_replay_from while the mode is FUZZ, a
\* replay or a fuzzer exists only in its own mode: gth_scheduler_set_mode,
\* gth_replay_from and shutdown leave none behind.
THEOREM NeverStaleSubsystem ==
  ASSUME "FUZZ" \notin ReplayFromModes
  PROVE  Spec => []NoStaleSubsystem
<1>1. TracingInv => NoStaleSubsystem
  BY Zenon DEF TracingInv
<1> QED
  BY <1>1, TracingAlways, PTL
=============================================================================

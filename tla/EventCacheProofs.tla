-------------------------- MODULE EventCacheProofs --------------------------
(***************************************************************************)
(* Proofs about EventCache for every chunk size, maximum size, set of      *)
(* event sizes and length of the stream.                                   *)
(*                                                                         *)
(* The invariants the runs check are not inductive one by one: that a pop  *)
(* keeps mem_chunk_occupied_ a natural number needs the tiling of the      *)
(* chunk, that cull spares the open file needs the accounting of bytes.    *)
(* Layout puts them together, as a predicate on a chunk and a set of files *)
(* rather than on the variables, so that push can be followed from the     *)
(* laying of the event to the culling.                                     *)
(*                                                                         *)
(* It gives the other results their steps: that the cache is a lossy queue *)
(* (from what each operation does to the set of unread events), that its   *)
(* size is bounded (from the number of its chunks, BoundInv) and, with     *)
(* OrderInv for a disk that fails, that events are taken in order.         *)
(***************************************************************************)
EXTENDS EventCache, TLAPS

USE ChunkAssumption, SizeAssumption, BoundAssumption

\* A chunk whose unread part is the occ bytes from offset r.
ChunkLayout(bytes, r, occ) ==
  /\ IsBytes(bytes)
  /\ r \in Nat /\ occ \in Nat /\ r + occ <= ChunkSize
  /\ Tiles(bytes, r, r + occ)

FileLayout(file) ==
  /\ IsBytes(file.bytes)
  /\ file.size \in 1 .. ChunkSize
  /\ Tiles(file.bytes, 0, file.size)

\* The place in the stream of the first event of a file, and of what follows its last.
Base(file) == file.bytes[0].at
Limit(file) == Base(file) + file.size

\* The files first .. last and, before them, the chunk hold the last held bytes of
\* a stream of end bytes.
Layout(bytes, r, occ, fs, first, last, held, end) ==
  /\ ChunkLayout(bytes, r, occ)
  /\ held \in Nat /\ end \in Nat /\ first \in Nat \ {0} /\ last \in Nat
  /\ first <= last + 1
  /\ DOMAIN fs = first .. last
  /\ \A n \in first .. last : FileLayout(fs[n])
  /\ occ <= held /\ held <= end
  /\ occ > 0 => bytes[r].at = end - held
  /\ first > last => held = occ
  /\ first <= last => Base(fs[first]) = end - held + occ /\ Limit(fs[last]) = end
  /\ \A n \in first .. last : n < last => Base(fs[n + 1]) = Limit(fs[n])
  /\ \A m, n \in first .. last : m < n => Limit(fs[m]) <= Base(fs[n])

WriteMode ==
  /\ writePos \in Nat \cup {NoPos}
  /\ writeFile \in {"none", "open"}
  /\ tellp \in 0 .. ChunkSize
  /\ writePos # NoPos => /\ writePos = readPos + occupied
                         /\ DOMAIN files = {} /\ writeFile = "none"
  /\ writeFile = "open" => /\ currentSequence \in DOMAIN files
                           /\ files[currentSequence].size = tellp
  /\ DOMAIN files # {} => writeFile = "open"

Counted ==
  /\ stats \in [files_created : Nat, files_destroyed : Nat, bytes_culled : Nat]
  /\ currentSequence = stats.files_created

Others ==
  /\ callback \in BOOLEAN /\ lastFull \in Nat
  /\ taken \in Event \cup {NoEvent}
  /\ threw \in BOOLEAN

IInv ==
  /\ Layout(buf, readPos, occupied, files,
            stats.files_destroyed + 1, currentSequence, currentSize, written)
  /\ WriteMode
  /\ Counted
  /\ Others

-----------------------------------------------------------------------------
(* Facts about bytes.                                                      *)

LEMMA SizeFacts ==
  /\ \A s \in Sizes : s \in Nat /\ 0 < s /\ LengthWord < s /\ s <= ChunkSize
  /\ \A e \in Event : /\ e.at \in Nat /\ e.size \in Sizes
                      /\ e.size \in Nat /\ 0 < e.size
                      /\ LengthWord < e.size /\ e.size <= ChunkSize
<1>1. \A s \in Sizes : s \in Nat /\ 0 < s /\ LengthWord < s /\ s <= ChunkSize
  OBVIOUS
<1> QED BY <1>1 DEF Event

\* What is laid at an offset of a chunk is an event at that offset.
LEMMA BytesFacts ==
  ASSUME NEW bytes, IsBytes(bytes), NEW o \in DOMAIN bytes
  PROVE  o \in Nat /\ o < ChunkSize /\ bytes[o] \in Event
BY DEF IsBytes, Range

LEMMA ZeroedLayout ==
  ASSUME NEW r \in Nat, r <= ChunkSize
  PROVE  ChunkLayout(Zeroed, r, 0)
BY DEF ChunkLayout, IsBytes, Range, Zeroed, Tiles

\* Laying an event that fits keeps the chunk a chunk.
LEMMA LaidIsBytes ==
  ASSUME NEW bytes, IsBytes(bytes), NEW pos \in Nat, NEW e \in Event,
         pos + e.size <= ChunkSize
  PROVE  IsBytes(Laid(bytes, pos, e))
<1> DEFINE new == Laid(bytes, pos, e)
<1>1. /\ DOMAIN new = DOMAIN bytes \cup {pos}
      /\ \A o \in DOMAIN new : new[o] = IF o = pos THEN e ELSE bytes[o]
      /\ new = [o \in DOMAIN new |-> new[o]]
  BY DEF Laid
<1> HIDE DEF new
<1>2. pos \in 0 .. ChunkSize - 1
  BY SizeFacts
<1>3. DOMAIN new \subseteq 0 .. ChunkSize - 1
  BY <1>1, <1>2 DEF IsBytes
<1>4. \A o \in DOMAIN new : new[o] \in Event
  BY <1>1, BytesFacts
<1>5. IsBytes(new)
  BY <1>1, <1>3, <1>4 DEF IsBytes, Range
<1> QED BY <1>5 DEF new

\* Laying an event behind the last one, in the order of the stream, keeps the tiling.
LEMMA LaidTiles ==
  ASSUME NEW bytes, IsBytes(bytes), NEW from \in Nat, NEW to \in Nat, from <= to,
         Tiles(bytes, from, to), NEW e \in Event,
         from < to => e.at = bytes[from].at + (to - from)
  PROVE  /\ Tiles(Laid(bytes, to, e), from, to + e.size)
         /\ from < to => Laid(bytes, to, e)[from] = bytes[from]
         /\ from = to => Laid(bytes, to, e)[from] = e
<1> DEFINE new == Laid(bytes, to, e)
<1>1. /\ DOMAIN new = DOMAIN bytes \cup {to}
      /\ new[to] = e
      /\ \A o \in DOMAIN bytes : o # to => new[o] = bytes[o]
  BY DEF Laid
<1> HIDE DEF new
<1>2. \A o \in DOMAIN bytes : o >= from => o < to /\ o + bytes[o].size <= to
  BY BytesFacts, SizeFacts DEF Tiles
<1>3. \A o \in DOMAIN new : o \in Nat /\ new[o] \in Event
  BY <1>1, BytesFacts
<1>4. from < to + e.size => from \in DOMAIN new
  BY <1>1, SizeFacts DEF Tiles
<1>5. ASSUME NEW o \in DOMAIN new, o >= from
      PROVE  LET end == o + new[o].size
             IN  /\ new[o].at = new[from].at + (o - from)
                 /\ end = to + e.size \/ (end < to + e.size /\ end \in DOMAIN new)
                 /\ \A p \in DOMAIN new : p <= o \/ p >= end
  <2>1. CASE o = to
    BY <2>1, <1>1, <1>2, <1>3, SizeFacts DEF Tiles
  <2>2. CASE o # to
    <3>1. /\ o \in DOMAIN bytes /\ new[o] = bytes[o] /\ o >= from /\ o < to
          /\ o + bytes[o].size <= to
      BY <2>2, <1>1, <1>2, <1>5
    <3>2. from < to /\ new[from] = bytes[from]
      BY <3>1, <1>1, <1>3 DEF Tiles
    <3>3. LET end == o + bytes[o].size
          IN  /\ bytes[o].at = bytes[from].at + (o - from)
              /\ end = to \/ (end < to /\ end \in DOMAIN bytes)
              /\ \A p \in DOMAIN bytes : p <= o \/ p >= end
      BY <3>1 DEF Tiles
    <3>4. bytes[o].size \in Nat /\ e.size \in Nat /\ e.size > 0
      BY <3>1, BytesFacts, SizeFacts
    <3> QED BY <3>1, <3>2, <3>3, <3>4, <1>1, <1>3
  <2> QED BY <2>1, <2>2
<1>6. Tiles(new, from, to + e.size)
  BY <1>4, <1>5 DEF Tiles
<1>7. from < to => new[from] = bytes[from]
  BY <1>1 DEF Tiles
<1> QED BY <1>1, <1>6, <1>7 DEF new

\* Reading past the first unread event keeps the tiling of the rest.
LEMMA AdvanceTiles ==
  ASSUME NEW bytes, IsBytes(bytes), NEW from \in Nat, NEW to \in Nat,
         Tiles(bytes, from, to), from \in DOMAIN bytes
  PROVE  LET next == from + bytes[from].size
         IN  /\ next <= to
             /\ Tiles(bytes, next, to)
             /\ next < to => bytes[next].at = bytes[from].at + bytes[from].size
<1> DEFINE next == from + bytes[from].size
<1>1. \A o \in DOMAIN bytes : o \in Nat /\ bytes[o].size \in Nat /\ bytes[o].at \in Nat
  BY BytesFacts, SizeFacts
<1>2. next = to \/ (next < to /\ next \in DOMAIN bytes)
  BY DEF Tiles
<1>3. next \in Nat /\ next > from
  BY BytesFacts, SizeFacts
<1>4. ASSUME next < to
      PROVE  bytes[next].at = bytes[from].at + bytes[from].size
  BY <1>1, <1>2, <1>3, <1>4 DEF Tiles
<1>5. ASSUME NEW o \in DOMAIN bytes, o >= next
      PROVE  LET end == o + bytes[o].size
             IN  /\ bytes[o].at = bytes[next].at + (o - next)
                 /\ end = to \/ (end < to /\ end \in DOMAIN bytes)
                 /\ \A p \in DOMAIN bytes : p <= o \/ p >= end
  <2>1. LET end == o + bytes[o].size
        IN  /\ bytes[o].at = bytes[from].at + (o - from)
            /\ end = to \/ (end < to /\ end \in DOMAIN bytes)
            /\ \A p \in DOMAIN bytes : p <= o \/ p >= end
    BY <1>1, <1>3, <1>5 DEF Tiles
  <2>2. next < to
    BY <2>1, <1>1, <1>2, <1>3, <1>5, BytesFacts, SizeFacts
  <2> QED BY <2>1, <2>2, <1>1, <1>3, <1>4
<1>6. Tiles(bytes, next, to)
  BY <1>2, <1>3, <1>5 DEF Tiles
<1> QED BY <1>2, <1>3, <1>4, <1>6

-----------------------------------------------------------------------------
(* What each part of push and pop does to the layout.                      *)

LEMMA FileFacts ==
  ASSUME NEW file, FileLayout(file)
  PROVE  /\ 0 \in DOMAIN file.bytes /\ IsBytes(file.bytes)
         /\ file.size \in Nat /\ 0 < file.size /\ file.size <= ChunkSize
         /\ Base(file) \in Nat /\ Limit(file) \in Nat /\ Base(file) < Limit(file)
<1>1. 0 \in DOMAIN file.bytes /\ IsBytes(file.bytes) /\ file.size \in 1 .. ChunkSize
  BY DEF FileLayout, Tiles
<1>2. file.bytes[0].at \in Nat
  BY <1>1, BytesFacts, SizeFacts
<1> QED BY <1>1, <1>2 DEF Base, Limit

\* The file made by push, and the file with one more event in it.
LEMMA NewFileLayout ==
  ASSUME NEW e \in Event
  PROVE  LET file == [bytes |-> Laid(Zeroed, 0, e), size |-> e.size]
         IN  FileLayout(file) /\ Base(file) = e.at
<1> DEFINE bytes == Laid(Zeroed, 0, e)
<1>1. e.size \in 1 .. ChunkSize
  BY SizeFacts
<1>2. IsBytes(Zeroed) /\ Tiles(Zeroed, 0, 0)
  BY ZeroedLayout DEF ChunkLayout
<1>3. IsBytes(bytes)
  BY <1>1, <1>2, LaidIsBytes
<1>4. Tiles(bytes, 0, 0 + e.size) /\ bytes[0] = e
  BY <1>2, LaidTiles
<1> HIDE DEF bytes
<1>5. 0 + e.size = e.size
  BY <1>1
<1> QED BY <1>1, <1>3, <1>4, <1>5 DEF FileLayout, Base, bytes

LEMMA GrownFileLayout ==
  ASSUME NEW file, FileLayout(file), NEW e \in Event,
         e.at = Limit(file), file.size + e.size <= ChunkSize
  PROVE  LET grown == [bytes |-> Laid(file.bytes, file.size, e),
                       size |-> file.size + e.size]
         IN  FileLayout(grown) /\ Base(grown) = Base(file)
<1> DEFINE bytes == Laid(file.bytes, file.size, e)
<1>1. e.size \in Nat /\ e.size > 0
  BY SizeFacts
<1>2. IsBytes(bytes)
  BY FileFacts, LaidIsBytes
<1>3. e.at = file.bytes[0].at + (file.size - 0)
  BY FileFacts DEF Limit, Base
<1>4. Tiles(bytes, 0, file.size + e.size) /\ bytes[0] = file.bytes[0]
  BY <1>3, FileFacts, LaidTiles DEF FileLayout
<1> HIDE DEF bytes
<1> QED BY <1>1, <1>2, <1>4, FileFacts DEF FileLayout, Base, bytes

LEMMA LayInChunk ==
  ASSUME NEW bytes, NEW r, NEW occ, NEW fs, NEW first, NEW last, NEW held, NEW end,
         Layout(bytes, r, occ, fs, first, last, held, end),
         NEW e \in Event, e.at = end, DOMAIN fs = {}, r + occ + e.size <= ChunkSize
  PROVE  Layout(Laid(bytes, r + occ, e), r, occ + e.size, fs, first, last,
                held + e.size, end + e.size)
<1> DEFINE new == Laid(bytes, r + occ, e)
<1>1. /\ IsBytes(bytes) /\ r \in Nat /\ occ \in Nat /\ r + occ \in Nat
      /\ Tiles(bytes, r, r + occ)
      /\ first \in Nat /\ last \in Nat /\ held \in Nat /\ end \in Nat
      /\ first <= last + 1 /\ DOMAIN fs = first .. last
  BY DEF Layout, ChunkLayout
<1>2. e.size \in Nat /\ e.size > 0
  BY SizeFacts
<1>3. first > last /\ held = occ
  BY <1>1 DEF Layout
<1>4. occ > 0 => bytes[r].at = end - held
  BY DEF Layout
<1>5. r < r + occ => e.at = bytes[r].at + ((r + occ) - r)
  <2> SUFFICES ASSUME r < r + occ PROVE e.at = bytes[r].at + ((r + occ) - r)
    OBVIOUS
  <2> QED BY <1>1, <1>3, <1>4
<1>6. IsBytes(new)
  BY <1>1, LaidIsBytes
<1>7. /\ Tiles(new, r, (r + occ) + e.size)
      /\ r < r + occ => new[r] = bytes[r]
      /\ r = r + occ => new[r] = e
  BY <1>1, <1>5, LaidTiles
<1> HIDE DEF new
<1>8. ChunkLayout(new, r, occ + e.size)
  <2>1. (r + occ) + e.size = r + (occ + e.size)
    BY <1>1, <1>2
  <2> QED BY <1>1, <1>2, <1>6, <1>7, <2>1 DEF ChunkLayout
<1>9. new[r].at = (end + e.size) - (held + e.size)
  <2>1. CASE occ > 0
    BY <2>1, <1>1, <1>2, <1>4, <1>7
  <2>2. CASE occ = 0
    BY <2>2, <1>1, <1>2, <1>3, <1>7
  <2> QED BY <1>1, <2>1, <2>2
<1>10. Layout(new, r, occ + e.size, fs, first, last, held + e.size, end + e.size)
  BY <1>1, <1>2, <1>3, <1>8, <1>9 DEF Layout
<1> QED BY <1>10 DEF new

LEMMA LayInFile ==
  ASSUME NEW bytes, NEW r, NEW occ, NEW fs, NEW first, NEW last, NEW held, NEW end,
         Layout(bytes, r, occ, fs, first, last, held, end),
         NEW e \in Event, e.at = end,
         last \in DOMAIN fs, fs[last].size + e.size <= ChunkSize,
         NEW grown,
         grown = [fs EXCEPT ![last] =
                    [bytes |-> Laid(@.bytes, fs[last].size, e), size |-> @.size + e.size]]
  PROVE  Layout(bytes, r, occ, grown, first, last, held + e.size, end + e.size)
<1>1. /\ occ \in Nat /\ first \in Nat \ {0} /\ last \in Nat
      /\ held \in Nat /\ end \in Nat /\ occ <= held /\ held <= end
      /\ DOMAIN fs = first .. last /\ first <= last
  BY DEF Layout, ChunkLayout
<1>2. e.size \in Nat /\ e.size > 0
  BY SizeFacts
<1>3. /\ \A n \in first .. last : FileLayout(fs[n])
      /\ Base(fs[first]) = end - held + occ /\ Limit(fs[last]) = end
      /\ \A n \in first .. last : n < last => Base(fs[n + 1]) = Limit(fs[n])
      /\ \A m, n \in first .. last : m < n => Limit(fs[m]) <= Base(fs[n])
      /\ ChunkLayout(bytes, r, occ)
      /\ occ > 0 => bytes[r].at = end - held
  BY <1>1 DEF Layout
<1>4. /\ DOMAIN grown = first .. last
      /\ \A n \in first .. last : n # last => grown[n] = fs[n]
      /\ grown[last] = [bytes |-> Laid(fs[last].bytes, fs[last].size, e),
                        size |-> fs[last].size + e.size]
  BY <1>1
<1>5. FileLayout(grown[last]) /\ Base(grown[last]) = Base(fs[last])
  BY <1>1, <1>3, <1>4, GrownFileLayout
<1>6. grown[last].size = fs[last].size + e.size
  BY <1>4
<1>7. Limit(grown[last]) = end + e.size
  <2>1. Limit(grown[last]) = Base(fs[last]) + (fs[last].size + e.size)
    BY <1>5, <1>6 DEF Limit
  <2>2. Base(fs[last]) + fs[last].size = end
    BY <1>3 DEF Limit
  <2>3. Base(fs[last]) \in Nat /\ fs[last].size \in Nat
    BY <1>1, <1>3, FileFacts
  <2> QED BY <2>1, <2>2, <2>3, <1>1, <1>2
<1>8. \A n \in first .. last : FileLayout(grown[n]) /\ Base(grown[n]) = Base(fs[n])
  BY <1>3, <1>4, <1>5
<1>9. \A n \in first .. last : n < last => Limit(grown[n]) = Limit(fs[n])
  BY <1>4
<1>10. Base(grown[first]) = (end + e.size) - (held + e.size) + occ
  BY <1>1, <1>2, <1>3, <1>8
<1>11. occ > 0 => bytes[r].at = (end + e.size) - (held + e.size)
  BY <1>1, <1>2, <1>3
<1>12. \A n \in first .. last : n < last => Base(grown[n + 1]) = Limit(grown[n])
  BY <1>1, <1>3, <1>8, <1>9
<1>13. \A m, n \in first .. last : m < n => Limit(grown[m]) <= Base(grown[n])
  BY <1>1, <1>3, <1>8, <1>9
<1> QED
  BY <1>1, <1>2, <1>3, <1>4, <1>7, <1>8, <1>10, <1>11, <1>12, <1>13 DEF Layout

LEMMA LayInNewFile ==
  ASSUME NEW bytes, NEW r, NEW occ, NEW fs, NEW first, NEW last, NEW held, NEW end,
         Layout(bytes, r, occ, fs, first, last, held, end),
         NEW e \in Event, e.at = end,
         NEW more,
         more = [n \in DOMAIN fs \cup {last + 1} |->
                   IF n = last + 1
                   THEN [bytes |-> Laid(Zeroed, 0, e), size |-> e.size]
                   ELSE fs[n]]
  PROVE  Layout(bytes, r, occ, more, first, last + 1, held + e.size, end + e.size)
<1>1. /\ occ \in Nat /\ first \in Nat \ {0} /\ last \in Nat
      /\ held \in Nat /\ end \in Nat /\ occ <= held /\ held <= end
      /\ DOMAIN fs = first .. last /\ first <= last + 1
  BY DEF Layout, ChunkLayout
<1>2. e.size \in Nat /\ e.size > 0
  BY SizeFacts
<1>3. /\ \A n \in first .. last : FileLayout(fs[n])
      /\ first > last => held = occ
      /\ first <= last => Base(fs[first]) = end - held + occ /\ Limit(fs[last]) = end
      /\ \A n \in first .. last : n < last => Base(fs[n + 1]) = Limit(fs[n])
      /\ \A m, n \in first .. last : m < n => Limit(fs[m]) <= Base(fs[n])
      /\ ChunkLayout(bytes, r, occ)
      /\ occ > 0 => bytes[r].at = end - held
  BY <1>1 DEF Layout
<1>4. /\ DOMAIN more = first .. last + 1
      /\ \A n \in first .. last : more[n] = fs[n]
      /\ more[last + 1] = [bytes |-> Laid(Zeroed, 0, e), size |-> e.size]
  BY <1>1
<1>5. FileLayout(more[last + 1]) /\ Base(more[last + 1]) = end
  BY <1>4, NewFileLayout
<1>6. Limit(more[last + 1]) = end + e.size
  BY <1>4, <1>5 DEF Limit
<1>7. \A n \in first .. last : Limit(fs[n]) \in Nat /\ Limit(fs[n]) <= end
  <2> SUFFICES ASSUME NEW n \in first .. last
               PROVE  Limit(fs[n]) \in Nat /\ Limit(fs[n]) <= end
    OBVIOUS
  <2>1. last \in first .. last /\ first <= last
    BY <1>1
  <2>2. /\ Limit(fs[n]) \in Nat /\ Limit(fs[last]) \in Nat
        /\ Base(fs[last]) \in Nat /\ Base(fs[last]) < Limit(fs[last])
    BY <1>3, <2>1, FileFacts
  <2> QED BY <1>1, <1>3, <2>1, <2>2
<1>8. \A n \in first .. last + 1 : FileLayout(more[n])
  BY <1>1, <1>3, <1>4, <1>5
<1>9. Base(more[first]) = (end + e.size) - (held + e.size) + occ
  <2>1. CASE first = last + 1
    BY <2>1, <1>1, <1>2, <1>3, <1>5
  <2>2. CASE first <= last
    <3>1. more[first] = fs[first] /\ Base(fs[first]) = end - held + occ
      BY <2>2, <1>1, <1>3, <1>4
    <3> QED BY <3>1, <1>1, <1>2
  <2> QED BY <1>1, <2>1, <2>2
<1>10. occ > 0 => bytes[r].at = (end + e.size) - (held + e.size)
  BY <1>1, <1>2, <1>3
<1>11. \A n \in first .. last + 1 : n < last + 1 => Base(more[n + 1]) = Limit(more[n])
  <2> SUFFICES ASSUME NEW n \in first .. last + 1, n < last + 1
               PROVE  Base(more[n + 1]) = Limit(more[n])
    OBVIOUS
  <2>3. n \in first .. last
    BY <1>1
  <2>1. CASE n = last
    <3>1. more[n] = fs[last] /\ Limit(fs[last]) = end
      BY <2>1, <2>3, <1>1, <1>3, <1>4
    <3> QED BY <2>1, <3>1, <1>5
  <2>2. CASE n < last
    <3>1. n + 1 \in first .. last
      BY <2>2, <2>3, <1>1
    <3> QED BY <2>2, <2>3, <3>1, <1>3, <1>4
  <2> QED BY <1>1, <2>1, <2>2, <2>3
<1>12. \A m, n \in first .. last + 1 : m < n => Limit(more[m]) <= Base(more[n])
  <2> SUFFICES ASSUME NEW m \in first .. last + 1, NEW n \in first .. last + 1, m < n
               PROVE  Limit(more[m]) <= Base(more[n])
    OBVIOUS
  <2>1. m \in first .. last /\ more[m] = fs[m]
    BY <1>1, <1>4
  <2>2. CASE n = last + 1
    BY <2>1, <2>2, <1>5, <1>7
  <2>3. CASE n # last + 1
    BY <2>1, <2>3, <1>1, <1>3, <1>4
  <2> QED BY <2>2, <2>3
<1>13. /\ held + e.size \in Nat /\ end + e.size \in Nat /\ last + 1 \in Nat
       /\ first <= (last + 1) + 1 /\ ~(first > last + 1)
       /\ occ <= held + e.size /\ held + e.size <= end + e.size
  BY <1>1, <1>2
<1> QED
  BY <1>1, <1>3, <1>4, <1>6, <1>8, <1>9, <1>10, <1>11, <1>12, <1>13 DEF Layout

LEMMA CullChunk ==
  ASSUME NEW bytes, NEW r, NEW occ, NEW fs, NEW first, NEW last, NEW held, NEW end,
         Layout(bytes, r, occ, fs, first, last, held, end)
  PROVE  Layout(Zeroed, r, 0, fs, first, last, held - occ, end)
<1>1. /\ r \in Nat /\ r <= ChunkSize /\ occ \in Nat /\ held \in Nat /\ end \in Nat
      /\ occ <= held /\ held <= end
  BY DEF Layout, ChunkLayout
<1>2. ChunkLayout(Zeroed, r, 0)
  BY <1>1, ZeroedLayout
<1>3. end - (held - occ) + 0 = end - held + occ
  BY <1>1
<1> QED BY <1>1, <1>2, <1>3 DEF Layout

LEMMA OldestIsFirst ==
  ASSUME NEW fs, NEW first \in Nat, NEW last \in Nat,
         DOMAIN fs = first .. last, first <= last
  PROVE  OldestFile(fs) = first
<1>1. first \in DOMAIN fs /\ \A n \in DOMAIN fs : first <= n
  OBVIOUS
<1>2. \A m \in DOMAIN fs : m <= first => m = first
  OBVIOUS
<1> QED BY <1>1, <1>2 DEF OldestFile, Min

\* The files that remain when the first one is removed.
LEMMA WithoutFirst ==
  ASSUME NEW bytes, NEW r, NEW occ, NEW fs, NEW first, NEW last, NEW held, NEW end,
         Layout(bytes, r, occ, fs, first, last, held, end), first <= last,
         NEW rest, rest = Without(fs, first)
  PROVE  /\ DOMAIN rest = first + 1 .. last
         /\ \A n \in first + 1 .. last : rest[n] = fs[n] /\ FileLayout(rest[n])
         /\ first + 1 > last => end = Limit(fs[first])
         /\ first + 1 <= last => /\ Base(rest[first + 1]) = Limit(fs[first])
                                 /\ Limit(rest[last]) = end
         /\ \A n \in first + 1 .. last : n < last => Base(rest[n + 1]) = Limit(rest[n])
         /\ \A m, n \in first + 1 .. last : m < n => Limit(rest[m]) <= Base(rest[n])
         /\ Limit(fs[first]) \in Nat /\ Limit(fs[first]) <= end
<1>1. /\ first \in Nat \ {0} /\ last \in Nat /\ end \in Nat
      /\ DOMAIN fs = first .. last
      /\ \A n \in first .. last : FileLayout(fs[n])
      /\ Limit(fs[last]) = end
      /\ \A n \in first .. last : n < last => Base(fs[n + 1]) = Limit(fs[n])
      /\ \A m, n \in first .. last : m < n => Limit(fs[m]) <= Base(fs[n])
  BY DEF Layout
<1>2. DOMAIN rest = first + 1 .. last /\ \A n \in first + 1 .. last : rest[n] = fs[n]
  BY <1>1 DEF Without, Restrict
<1>3. \A n \in first + 1 .. last : n \in first .. last /\ (n < last => n + 1 \in first + 1 .. last)
  BY <1>1
<1>4. first \in first .. last /\ last \in first .. last
  BY <1>1
<1>5. first + 1 > last => first = last
  BY <1>1
<1>6. first + 1 <= last => first < last /\ first + 1 \in first + 1 .. last /\ last \in first + 1 .. last
  BY <1>1
<1>7. Limit(fs[first]) \in Nat /\ Limit(fs[first]) <= end
  <2>1. CASE first = last
    BY <2>1, <1>1
  <2>2. CASE first < last
    <3>1. /\ Limit(fs[first]) \in Nat /\ Limit(fs[last]) \in Nat
          /\ Base(fs[last]) \in Nat /\ Base(fs[last]) < Limit(fs[last])
      BY <1>1, <1>4, FileFacts
    <3>2. Limit(fs[first]) <= Base(fs[last])
      BY <2>2, <1>1, <1>4
    <3> QED BY <3>1, <3>2, <1>1
  <2> QED BY <1>1, <2>1, <2>2
<1>8. first + 1 <= last => /\ Base(rest[first + 1]) = Limit(fs[first])
                          /\ Limit(rest[last]) = end
  BY <1>1, <1>2, <1>4, <1>6
<1>9. \A n \in first + 1 .. last : n < last => Base(rest[n + 1]) = Limit(rest[n])
  BY <1>1, <1>2, <1>3
<1>10. \A m, n \in first + 1 .. last : m < n => Limit(rest[m]) <= Base(rest[n])
  BY <1>1, <1>2, <1>3
<1>11. \A n \in first + 1 .. last : FileLayout(rest[n])
  BY <1>1, <1>2, <1>3
<1>12. first + 1 > last => end = Limit(fs[first])
  BY <1>1, <1>5
<1> QED BY <1>2, <1>7, <1>8, <1>9, <1>10, <1>11, <1>12

LEMMA CullOldest ==
  ASSUME NEW bytes, NEW r, NEW fs, NEW first, NEW last, NEW held, NEW end,
         Layout(bytes, r, 0, fs, first, last, held, end), first <= last
  PROVE  /\ fs[first].size <= held
         /\ Layout(bytes, r, 0, Without(fs, first), first + 1, last,
                   held - fs[first].size, end)
<1> DEFINE rest == Without(fs, first)
           size == fs[first].size
<1>1. /\ first \in Nat \ {0} /\ last \in Nat /\ held \in Nat /\ end \in Nat /\ held <= end
      /\ Base(fs[first]) = end - held + 0
      /\ ChunkLayout(bytes, r, 0)
      /\ FileLayout(fs[first])
  BY DEF Layout
<1>2. size \in Nat /\ Base(fs[first]) \in Nat /\ Limit(fs[first]) = Base(fs[first]) + size
  BY <1>1, FileFacts DEF Limit
<1>3. /\ DOMAIN rest = first + 1 .. last
      /\ \A n \in first + 1 .. last : FileLayout(rest[n])
      /\ first + 1 > last => end = Limit(fs[first])
      /\ first + 1 <= last => /\ Base(rest[first + 1]) = Limit(fs[first])
                              /\ Limit(rest[last]) = end
      /\ \A n \in first + 1 .. last : n < last => Base(rest[n + 1]) = Limit(rest[n])
      /\ \A m, n \in first + 1 .. last : m < n => Limit(rest[m]) <= Base(rest[n])
      /\ Limit(fs[first]) <= end
  BY WithoutFirst
<1> HIDE DEF rest, size
<1>4. /\ size <= held /\ held - size \in Nat /\ held - size <= end /\ 0 <= held - size
      /\ first + 1 \in Nat \ {0} /\ first + 1 <= last + 1
      /\ Limit(fs[first]) = end - (held - size) + 0
  BY <1>1, <1>2, <1>3
<1>5. first + 1 > last => held - size = 0
  BY <1>1, <1>3, <1>4
<1>6. first + 1 <= last => /\ Base(rest[first + 1]) = end - (held - size) + 0
                          /\ Limit(rest[last]) = end
  BY <1>3, <1>4
<1>7. Layout(bytes, r, 0, rest, first + 1, last, held - size, end)
  BY <1>1, <1>3, <1>4, <1>5, <1>6 DEF Layout
<1> QED BY <1>4, <1>7 DEF rest, size

LEMMA LoadOldest ==
  ASSUME NEW bytes, NEW r, NEW fs, NEW first, NEW last, NEW held, NEW end,
         Layout(bytes, r, 0, fs, first, last, held, end), first <= last
  PROVE  Layout(fs[first].bytes, 0, fs[first].size, Without(fs, first),
                first + 1, last, held, end)
<1> DEFINE rest == Without(fs, first)
           size == fs[first].size
<1>1. /\ first \in Nat \ {0} /\ last \in Nat /\ held \in Nat /\ end \in Nat /\ held <= end
      /\ Base(fs[first]) = end - held + 0
      /\ FileLayout(fs[first])
  BY DEF Layout
<1>2. /\ size \in Nat /\ size <= ChunkSize /\ 0 + size = size
      /\ Base(fs[first]) \in Nat /\ Limit(fs[first]) = Base(fs[first]) + size
      /\ IsBytes(fs[first].bytes) /\ Tiles(fs[first].bytes, 0, size)
  BY <1>1, FileFacts DEF Limit, FileLayout
<1>3. /\ DOMAIN rest = first + 1 .. last
      /\ \A n \in first + 1 .. last : FileLayout(rest[n])
      /\ first + 1 > last => end = Limit(fs[first])
      /\ first + 1 <= last => /\ Base(rest[first + 1]) = Limit(fs[first])
                              /\ Limit(rest[last]) = end
      /\ \A n \in first + 1 .. last : n < last => Base(rest[n + 1]) = Limit(rest[n])
      /\ \A m, n \in first + 1 .. last : m < n => Limit(rest[m]) <= Base(rest[n])
      /\ Limit(fs[first]) <= end
  BY WithoutFirst
<1>4. fs[first].bytes[0].at = end - held
  BY <1>1 DEF Base
<1> HIDE DEF rest, size
<1>5. ChunkLayout(fs[first].bytes, 0, size)
  BY <1>2 DEF ChunkLayout
<1>6. /\ size <= held /\ first + 1 \in Nat \ {0} /\ first + 1 <= last + 1
      /\ Limit(fs[first]) = end - held + size
  BY <1>1, <1>2, <1>3
<1>7. first + 1 > last => held = size
  BY <1>1, <1>2, <1>3, <1>6
<1>8. Layout(fs[first].bytes, 0, size, rest, first + 1, last, held, end)
  BY <1>1, <1>2, <1>3, <1>4, <1>5, <1>6, <1>7 DEF Layout
<1> QED BY <1>8 DEF rest, size

LEMMA TakeFirst ==
  ASSUME NEW bytes, NEW r, NEW occ, NEW fs, NEW first, NEW last, NEW held, NEW end,
         Layout(bytes, r, occ, fs, first, last, held, end), r \in DOMAIN bytes
  PROVE  LET e == bytes[r]
         IN  /\ e \in Event /\ e.at = end - held /\ e.size <= occ
             /\ Layout(bytes, r + e.size, occ - e.size, fs, first, last,
                       held - e.size, end)
<1> DEFINE e == bytes[r]
<1>1. /\ IsBytes(bytes) /\ r \in Nat /\ occ \in Nat /\ r + occ \in Nat /\ r + occ <= ChunkSize
      /\ Tiles(bytes, r, r + occ)
      /\ held \in Nat /\ end \in Nat /\ occ <= held /\ held <= end
      /\ occ > 0 => e.at = end - held
  BY DEF Layout, ChunkLayout
<1>2. e \in Event /\ e.size \in Nat /\ e.size > 0 /\ e.at \in Nat
  BY <1>1, BytesFacts, SizeFacts
<1>3. /\ r + e.size <= r + occ
      /\ Tiles(bytes, r + e.size, r + occ)
      /\ r + e.size < r + occ => bytes[r + e.size].at = e.at + e.size
  BY <1>1, AdvanceTiles
<1> HIDE DEF e
<1>4. /\ e.size <= occ /\ e.at = end - held
      /\ occ - e.size \in Nat /\ held - e.size \in Nat /\ held - e.size <= end
      /\ occ - e.size <= held - e.size
      /\ r + e.size \in Nat /\ (r + e.size) + (occ - e.size) = r + occ
      /\ end - (held - e.size) + (occ - e.size) = end - held + occ
  BY <1>1, <1>2, <1>3
<1>5. occ - e.size > 0 => bytes[r + e.size].at = end - (held - e.size)
  BY <1>1, <1>2, <1>3, <1>4
<1>6. ChunkLayout(bytes, r + e.size, occ - e.size)
  BY <1>1, <1>3, <1>4 DEF ChunkLayout
<1>7. first > last => held - e.size = occ - e.size
  BY DEF Layout
<1>8. Layout(bytes, r + e.size, occ - e.size, fs, first, last, held - e.size, end)
  BY <1>1, <1>4, <1>5, <1>6, <1>7 DEF Layout
<1> QED BY <1>2, <1>4, <1>8 DEF e

-----------------------------------------------------------------------------
(* The operations.                                                         *)

\* A full cache that has an empty chunk and files has at least two of them, so the
\* oldest is not the one being written.
LEMMA FullMeansTwoFiles ==
  ASSUME NEW bytes, NEW r, NEW fs, NEW first, NEW last, NEW held, NEW end,
         Layout(bytes, r, 0, fs, first, last, held, end), held >= MaxSize
  PROVE  first < last
<1>1. /\ first \in Nat /\ last \in Nat /\ held \in Nat /\ end \in Nat /\ held <= end
      /\ first > last => held = 0
      /\ \A n \in first .. last : FileLayout(fs[n])
      /\ first <= last => Base(fs[first]) = end - held + 0 /\ Limit(fs[last]) = end
  BY DEF Layout
<1>2. first <= last
  BY <1>1
<1>3. first # last
  <2> SUFFICES ASSUME first = last PROVE FALSE
    OBVIOUS
  <2>1. /\ fs[first].size \in Nat /\ fs[first].size <= ChunkSize
        /\ Base(fs[first]) \in Nat /\ Limit(fs[first]) = Base(fs[first]) + fs[first].size
    BY <1>1, <1>2, FileFacts DEF Limit
  <2> QED BY <2>1, <1>1
<1> QED BY <1>1, <1>2, <1>3

\* push after the event has been laid: counting, and culling if the cache is full, which
\* finds a chunk or a file to cull.
LEMMA SettleNeverThrows ==
  ASSUME NEW s \in Sizes, NEW bytes, NEW occ, NEW fs, NEW created, NEW first, NEW last,
         Layout(bytes, readPos, occ, fs, first, last, currentSize + s, written + s),
         Settle(s, bytes, occ, fs, created)
  PROVE  threw' = FALSE
<1>1. /\ currentSize + s \in Nat /\ occ \in Nat
      /\ first \in Nat /\ last \in Nat /\ DOMAIN fs = first .. last
      /\ first > last => currentSize + s = occ
  BY DEF Layout, ChunkLayout
<1>2. ASSUME currentSize + s >= MaxSize, occ = 0 PROVE DOMAIN fs # {}
  <2>1. first \in DOMAIN fs
    BY <1>1, <1>2
  <2> QED BY <2>1
<1>3. IsFull(currentSize + s) => ~CullFails(bytes, occ, fs, created, currentSize + s)
  BY <1>2 DEF IsFull, CullFails
<1> QED BY <1>3 DEF Settle, Cull, CullMemory, CullFile

\* The oldest byte held is never older than before.
LEMMA SettleMovesHead ==
  ASSUME NEW s \in Sizes, NEW bytes, NEW occ, NEW fs, NEW created, NEW first, NEW last,
         Layout(bytes, readPos, occ, fs, first, last, currentSize + s, written + s),
         currentSize \in Nat, written \in Nat,
         Settle(s, bytes, occ, fs, created)
  PROVE  written - currentSize <= written' - currentSize'
<1>1. /\ currentSize + s \in Nat /\ occ \in Nat /\ occ <= currentSize + s
      /\ first \in Nat /\ last \in Nat /\ DOMAIN fs = first .. last
      /\ \A n \in DOMAIN fs : FileLayout(fs[n])
  BY DEF Layout, ChunkLayout
<1>2. s \in Nat /\ written' = written + s
  BY SizeFacts DEF Settle
<1>3. ASSUME NEW n \in Nat, currentSize' = (currentSize + s) - n
      PROVE  written - currentSize <= written' - currentSize'
  BY <1>2, <1>3
<1>4. CASE currentSize' = currentSize + s
  BY <1>2, <1>3, <1>4
<1>5. CASE currentSize' = (currentSize + s) - occ
  BY <1>1, <1>3, <1>5
<1>6. CASE /\ DOMAIN fs # {}
           /\ currentSize' = (currentSize + s) - fs[OldestFile(fs)].size
  <2>1. OldestFile(fs) \in DOMAIN fs
    BY <1>1, <1>6, OldestIsFirst
  <2>2. fs[OldestFile(fs)].size \in Nat
    BY <1>1, <2>1, FileFacts
  <2> QED BY <1>3, <1>6, <2>2
<1> QED BY <1>4, <1>5, <1>6 DEF Settle, Cull, CullMemory, CullFile, CullFails, Culled

\* The layout of before, with the new event in it, is the layout the operation leaves.
LEMMA SettleKeepsLayout ==
  ASSUME NEW s \in Sizes, NEW bytes, NEW occ, NEW fs, NEW created \in {0, 1}, NEW last,
         Layout(bytes, readPos, occ, fs, stats.files_destroyed + 1, last,
                currentSize + s, written + s),
         Counted, Others,
         Settle(s, bytes, occ, fs, created)
  PROVE  /\ Layout(buf', readPos', occupied', files', stats'.files_destroyed + 1, last,
                   currentSize', written')
         /\ stats' \in [files_created : Nat, files_destroyed : Nat, bytes_culled : Nat]
         /\ stats'.files_created = stats.files_created + created
         /\ Others'
         /\ DOMAIN fs = {} => occupied' = occ /\ files' = fs
         /\ DOMAIN fs # {} => last \in DOMAIN files' /\ files'[last] = fs[last]
<1> DEFINE first == stats.files_destroyed + 1
           full == currentSize + s
           end == written + s
<1>1. /\ written' = end /\ readPos' = readPos /\ callback' = callback /\ taken' = taken
      /\ stats \in [files_created : Nat, files_destroyed : Nat, bytes_culled : Nat]
      /\ callback \in BOOLEAN /\ lastFull \in Nat /\ taken \in Event \cup {NoEvent}
  BY DEF Settle, Counted, Others
<1>2. /\ full \in Nat /\ end \in Nat /\ occ \in Nat /\ occ <= ChunkSize /\ occ <= full
      /\ first \in Nat /\ last \in Nat /\ DOMAIN fs = first .. last
      /\ first > last => full = occ
      /\ readPos \in Nat
  BY DEF Layout, ChunkLayout
<1> HIDE DEF first, full, end
<1>3. first <= last => last \in DOMAIN fs
  BY <1>2
<1>4. CASE ~IsFull(full)
  <2>1. /\ buf' = bytes /\ occupied' = occ /\ files' = fs /\ currentSize' = full
        /\ stats' = [stats EXCEPT !.files_created = @ + created]
        /\ lastFull' = full \/ lastFull' = lastFull
        /\ threw' = FALSE
    BY <1>4 DEF Settle, ReportUp, full
  <2>2. /\ stats' \in [files_created : Nat, files_destroyed : Nat, bytes_culled : Nat]
        /\ stats'.files_created = stats.files_created + created
        /\ stats'.files_destroyed = stats.files_destroyed
    BY <2>1, <1>1
  <2>3. Others'
    BY <1>1, <1>2, <2>1 DEF Others
  <2> QED BY <1>1, <1>2, <1>3, <2>1, <2>2, <2>3 DEF first, full, end
<1>5. CASE IsFull(full)
  <2>1. full >= MaxSize /\ Cull(bytes, occ, fs, created, full)
    BY <1>5 DEF Settle, IsFull, full
  <2>2. first <= last
    BY <2>1, <1>2
  <2>3. CASE CullMemory(bytes, occ, fs, created, full)
    <3>1. /\ buf' = Zeroed /\ occupied' = 0 /\ files' = fs /\ currentSize' = full - occ
          /\ stats' = [stats EXCEPT !.files_created = @ + created,
                                    !.bytes_culled = @ + occ]
          /\ lastFull' = full - occ \/ lastFull' = lastFull
          /\ threw' = FALSE
      BY <2>3 DEF CullMemory, Culled
    <3>2. /\ stats' \in [files_created : Nat, files_destroyed : Nat, bytes_culled : Nat]
          /\ stats'.files_created = stats.files_created + created
          /\ stats'.files_destroyed = stats.files_destroyed
      <4>1. stats.bytes_culled + occ \in Nat /\ stats.files_created + created \in Nat
        BY <1>1, <1>2
      <4> QED BY <4>1, <3>1, <1>1
    <3>3. Layout(Zeroed, readPos, 0, fs, first, last, full - occ, end)
      BY CullChunk DEF first, full, end
    <3>4. Others'
      <4>1. full - occ \in Nat
        BY <1>2
      <4> QED BY <4>1, <1>1, <3>1 DEF Others
    <3> QED BY <1>1, <1>2, <1>3, <2>2, <3>1, <3>2, <3>3, <3>4 DEF first
  <2>4. CASE CullFile(bytes, occ, fs, created, full)
    <3>1. /\ occ = 0 /\ Layout(bytes, readPos, 0, fs, first, last, full, end)
      BY <2>4 DEF CullFile, first, full, end
    <3>2. first < last
      BY <2>1, <3>1, FullMeansTwoFiles
    <3>3. OldestFile(fs) = first
      BY <1>2, <2>2, OldestIsFirst
    <3>4. /\ buf' = bytes /\ occupied' = 0 /\ files' = Without(fs, first)
          /\ currentSize' = full - fs[first].size
          /\ stats' = [stats EXCEPT !.files_created = @ + created,
                                    !.files_destroyed = @ + 1,
                                    !.bytes_culled = @ + fs[first].size]
          /\ lastFull' = full - fs[first].size \/ lastFull' = lastFull
          /\ threw' = FALSE
      BY <2>4, <3>3 DEF CullFile, Culled
    <3>5. /\ fs[first].size <= full
          /\ Layout(bytes, readPos, 0, Without(fs, first), first + 1, last,
                    full - fs[first].size, end)
      BY <3>1, <2>2, CullOldest
    <3>6. fs[first].size \in Nat
      <4>1. FileLayout(fs[first])
        BY <3>1, <1>2, <2>2 DEF Layout
      <4> QED BY <4>1, FileFacts
    <3>7. /\ stats' \in [files_created : Nat, files_destroyed : Nat, bytes_culled : Nat]
          /\ stats'.files_created = stats.files_created + created
          /\ stats'.files_destroyed + 1 = first + 1
      <4>1. /\ stats.files_created + created \in Nat
            /\ stats.files_destroyed + 1 \in Nat
            /\ stats.bytes_culled + fs[first].size \in Nat
        BY <3>6, <1>1
      <4> QED BY <4>1, <3>4, <1>1 DEF first
    <3>8. Others'
      <4>1. full - fs[first].size \in Nat
        BY <1>2, <3>5, <3>6
      <4> QED BY <4>1, <1>1, <3>4 DEF Others
    <3>9. last \in DOMAIN files' /\ files'[last] = fs[last]
      BY <3>2, <3>4, <1>2 DEF Without, Restrict
    <3> QED BY <1>1, <1>2, <2>2, <3>4, <3>5, <3>7, <3>8, <3>9
  <2>5. CASE CullFails(bytes, occ, fs, created, full)
    BY <2>2, <2>5, <1>2 DEF CullFails
  <2> QED BY <2>1, <2>3, <2>4, <2>5 DEF Cull
<1> QED BY <1>4, <1>5

\* A chunk is read to its end exactly when pop finds no length in it.
LEMMA NeedsLoadIsEmpty ==
  ASSUME IInv
  PROVE  /\ NeedsLoad => occupied = 0
         /\ ~NeedsLoad => readPos \in DOMAIN buf
<1>1. /\ readPos \in Nat /\ occupied \in Nat /\ readPos + occupied <= ChunkSize
      /\ IsBytes(buf) /\ Tiles(buf, readPos, readPos + occupied)
  BY DEF IInv, Layout, ChunkLayout
<1>2. ASSUME occupied > 0 PROVE ~NeedsLoad
  <2>1. readPos \in DOMAIN buf
    BY <1>1, <1>2 DEF Tiles
  <2>2. buf[readPos].size \in Nat /\ LengthWord < buf[readPos].size
    BY <2>1, <1>1, BytesFacts, SizeFacts
  <2>3. readPos + buf[readPos].size <= readPos + occupied
    BY <2>1, <1>1, AdvanceTiles
  <2> QED BY <1>1, <2>1, <2>2, <2>3 DEF NeedsLoad
<1> QED BY <1>1, <1>2 DEF NeedsLoad

LEMMA PushedFacts ==
  ASSUME IInv, NEW s \in Sizes
  PROVE  Pushed(s) \in Event /\ Pushed(s).at = written /\ Pushed(s).size = s
BY DEF IInv, Layout, Pushed, Event

LEMMA PushToMemoryStep ==
  ASSUME IInv, NEW s \in Sizes, PushToMemory(s)
  PROVE  /\ IInv' /\ threw' = FALSE
         /\ written - currentSize <= written' - currentSize'
<1> DEFINE first == stats.files_destroyed + 1
           bytes == Laid(buf, writePos, Pushed(s))
<1>1. /\ Layout(buf, readPos, occupied, files, first, currentSequence, currentSize, written)
      /\ WriteMode /\ Counted /\ Others
  BY DEF IInv
<1>2. /\ writePos = readPos + occupied /\ DOMAIN files = {} /\ writeFile = "none"
      /\ writePos \in Nat /\ tellp \in 0 .. ChunkSize /\ writePos + s <= ChunkSize
  BY <1>1 DEF PushToMemory, FitsMemory, WriteMode, NoPos
<1>3. Layout(bytes, readPos, occupied + s, files, first, currentSequence,
             currentSize + s, written + s)
  BY <1>1, <1>2, PushedFacts, LayInChunk
<1>4. /\ writePos' = writePos + s /\ UNCHANGED <<writeFile, tellp, currentSequence>>
      /\ Settle(s, bytes, occupied + s, files, 0)
  BY DEF PushToMemory
<1> HIDE DEF bytes
<1>5. /\ Layout(buf', readPos', occupied', files', stats'.files_destroyed + 1,
                currentSequence, currentSize', written')
      /\ stats' \in [files_created : Nat, files_destroyed : Nat, bytes_culled : Nat]
      /\ stats'.files_created = stats.files_created + 0
      /\ Others' /\ occupied' = occupied + s /\ files' = files
  BY <1>1, <1>2, <1>3, <1>4, SettleKeepsLayout
<1>6. readPos' = readPos
  BY <1>4 DEF Settle
<1>7. readPos \in Nat /\ occupied \in Nat /\ s \in Nat
  BY <1>1, SizeFacts DEF Layout, ChunkLayout
<1>8. WriteMode'
  BY <1>2, <1>4, <1>5, <1>6, <1>7 DEF WriteMode
<1>9. Counted'
  BY <1>1, <1>4, <1>5 DEF Counted
<1>10. threw' = FALSE
  BY <1>3, <1>4, SettleNeverThrows
<1>11. written - currentSize <= written' - currentSize'
  BY <1>1, <1>3, <1>4, SettleMovesHead DEF Layout
<1>12. IInv'
  BY <1>4, <1>5, <1>8, <1>9 DEF IInv
<1> QED BY <1>10, <1>11, <1>12

LEMMA PushToFileStep ==
  ASSUME IInv, NEW s \in Sizes, PushToFile(s)
  PROVE  /\ IInv' /\ threw' = FALSE
         /\ written - currentSize <= written' - currentSize'
<1> DEFINE first == stats.files_destroyed + 1
           grown == [files EXCEPT ![currentSequence] =
                       [bytes |-> Laid(@.bytes, tellp, Pushed(s)), size |-> @.size + s]]
<1>1. /\ Layout(buf, readPos, occupied, files, first, currentSequence, currentSize, written)
      /\ WriteMode /\ Counted /\ Others
  BY DEF IInv
<1>2. /\ writeFile = "open" /\ currentSequence \in DOMAIN files
      /\ files[currentSequence].size = tellp /\ tellp \in 0 .. ChunkSize
      /\ tellp + s <= ChunkSize
  BY <1>1 DEF PushToFile, WriteMode, FitsFile
<1>3. /\ writePos' = NoPos /\ tellp' = tellp + s /\ UNCHANGED <<writeFile, currentSequence>>
      /\ Settle(s, buf, occupied, grown, 0)
  BY <1>2 DEF PushToFile, LeaveMemory
<1>4. Layout(buf, readPos, occupied, grown, first, currentSequence,
             currentSize + s, written + s)
  BY <1>1, <1>2, PushedFacts, LayInFile
<1>5. /\ DOMAIN grown # {} /\ grown[currentSequence].size = tellp + s
  BY <1>2
<1> HIDE DEF grown
<1>6. /\ Layout(buf', readPos', occupied', files', stats'.files_destroyed + 1,
                currentSequence, currentSize', written')
      /\ stats' \in [files_created : Nat, files_destroyed : Nat, bytes_culled : Nat]
      /\ stats'.files_created = stats.files_created + 0
      /\ Others'
      /\ currentSequence \in DOMAIN files'
      /\ files'[currentSequence] = grown[currentSequence]
  BY <1>1, <1>3, <1>4, <1>5, SettleKeepsLayout
<1>7. WriteMode'
  BY <1>2, <1>3, <1>5, <1>6, SizeFacts DEF WriteMode, NoPos
<1>8. Counted'
  BY <1>1, <1>3, <1>6 DEF Counted
<1>9. threw' = FALSE
  BY <1>3, <1>4, SettleNeverThrows
<1>10. written - currentSize <= written' - currentSize'
  BY <1>1, <1>3, <1>4, SettleMovesHead DEF Layout
<1>11. IInv'
  BY <1>3, <1>6, <1>7, <1>8 DEF IInv
<1> QED BY <1>9, <1>10, <1>11

LEMMA PushToNewFileStep ==
  ASSUME IInv, NEW s \in Sizes, PushToNewFile(s)
  PROVE  /\ IInv' /\ threw' = FALSE
         /\ written - currentSize <= written' - currentSize'
<1> DEFINE first == stats.files_destroyed + 1
           last == currentSequence + 1
           more == [n \in DOMAIN files \cup {currentSequence + 1} |->
                      IF n = currentSequence + 1
                      THEN [bytes |-> Laid(Zeroed, 0, Pushed(s)), size |-> s]
                      ELSE files[n]]
<1>1. /\ Layout(buf, readPos, occupied, files, first, currentSequence, currentSize, written)
      /\ WriteMode /\ Counted /\ Others
  BY DEF IInv
<1>2. /\ writePos' = NoPos /\ tellp' = s /\ writeFile' = "open" /\ currentSequence' = last
      /\ Settle(s, buf, occupied, more, 1)
  BY DEF PushToNewFile, LeaveMemory
<1>3. Layout(buf, readPos, occupied, more, first, last, currentSize + s, written + s)
  BY <1>1, PushedFacts, LayInNewFile
<1>4. DOMAIN more # {} /\ more[last].size = s
  OBVIOUS
<1> HIDE DEF more, last
<1>5. /\ Layout(buf', readPos', occupied', files', stats'.files_destroyed + 1, last,
                currentSize', written')
      /\ stats' \in [files_created : Nat, files_destroyed : Nat, bytes_culled : Nat]
      /\ stats'.files_created = stats.files_created + 1
      /\ Others'
      /\ last \in DOMAIN files' /\ files'[last] = more[last]
  BY <1>1, <1>2, <1>3, <1>4, SettleKeepsLayout
<1>6. WriteMode'
  BY <1>2, <1>4, <1>5, SizeFacts DEF WriteMode, NoPos
<1>7. Counted'
  BY <1>1, <1>2, <1>5 DEF Counted, last
<1>8. threw' = FALSE
  BY <1>2, <1>3, SettleNeverThrows
<1>9. written - currentSize <= written' - currentSize'
  BY <1>1, <1>2, <1>3, SettleMovesHead DEF Layout
<1>10. IInv'
  BY <1>2, <1>5, <1>6, <1>7 DEF IInv
<1> QED BY <1>8, <1>9, <1>10

LEMMA PopFromMemoryStep ==
  ASSUME IInv, PopFromMemory
  PROVE  IInv'
<1> DEFINE first == stats.files_destroyed + 1
           e == buf[readPos]
<1>1. /\ Layout(buf, readPos, occupied, files, first, currentSequence, currentSize, written)
      /\ WriteMode /\ Counted /\ Others
  BY DEF IInv
<1>2. readPos \in DOMAIN buf
  BY NeedsLoadIsEmpty DEF PopFromMemory
<1>3. /\ e \in Event /\ e.size <= occupied /\ e.size \in Nat
      /\ Layout(buf, readPos + e.size, occupied - e.size, files, first, currentSequence,
                currentSize - e.size, written)
  BY <1>1, <1>2, TakeFirst, SizeFacts
<1>4. /\ taken' = e /\ buf' = buf /\ readPos' = readPos + e.size
      /\ occupied' = occupied - e.size /\ currentSize' = currentSize - e.size
      /\ lastFull' = currentSize - e.size \/ lastFull' = lastFull
      /\ threw' = FALSE
      /\ UNCHANGED <<writePos, disk, stats, written, callback>>
  BY DEF PopFromMemory, TakeAt, ReportDown
<1> HIDE DEF e
<1>5. /\ currentSize - e.size \in Nat /\ readPos \in Nat /\ occupied \in Nat
  BY <1>1, <1>3 DEF Layout, ChunkLayout
<1>6. WriteMode'
  BY <1>1, <1>3, <1>4, <1>5 DEF WriteMode, disk
<1>7. Counted' /\ Others'
  BY <1>1, <1>3, <1>4, <1>5 DEF Counted, Others, disk
<1> QED BY <1>3, <1>4, <1>6, <1>7 DEF IInv, disk

LEMMA PopFromFileStep ==
  ASSUME IInv, PopFromFile
  PROVE  IInv'
<1> DEFINE first == stats.files_destroyed + 1
           bytes == files[first].bytes
           size == files[first].size
           rest == Without(files, first)
           e == bytes[0]
<1>1. /\ Layout(buf, readPos, 0, files, first, currentSequence, currentSize, written)
      /\ occupied = 0 /\ WriteMode /\ Counted /\ Others
  BY NeedsLoadIsEmpty DEF IInv, PopFromFile
<1>2. /\ first \in Nat \ {0} /\ currentSequence \in Nat /\ DOMAIN files = first .. currentSequence
      /\ first <= currentSequence /\ currentSize \in Nat
      /\ FileLayout(files[first])
  BY <1>1 DEF Layout, PopFromFile
<1>3. OldestFile(files) = first
  BY <1>2, OldestIsFirst
<1>4. Layout(bytes, 0, size, rest, first + 1, currentSequence, currentSize, written)
  BY <1>1, <1>2, LoadOldest
<1>5. 0 \in DOMAIN bytes /\ size \in Nat /\ 0 < size
  BY <1>2, FileFacts
<1>6. /\ e \in Event /\ e.size <= size /\ e.size \in Nat
      /\ Layout(bytes, 0 + e.size, size - e.size, rest, first + 1, currentSequence,
                currentSize - e.size, written)
  BY <1>4, <1>5, TakeFirst, SizeFacts
<1>7. /\ taken' = e /\ buf' = bytes /\ readPos' = 0 + e.size
      /\ occupied' = size - e.size /\ currentSize' = currentSize - e.size
      /\ lastFull' = currentSize - e.size \/ lastFull' = lastFull
      /\ threw' = FALSE /\ files' = rest
      /\ stats' = [stats EXCEPT !.files_destroyed = @ + 1]
      /\ ResumeInMemory(first)
      /\ UNCHANGED <<tellp, currentSequence, written, callback>>
  BY <1>3 DEF PopFromFile, TakeAt, ReportDown, Loaded
<1>8. DOMAIN rest = first + 1 .. currentSequence
      /\ \A n \in first + 1 .. currentSequence : rest[n] = files[n]
  BY <1>1, <1>2, WithoutFirst
<1>9. /\ writeFile = "open" /\ files[currentSequence].size = tellp /\ tellp \in 0 .. ChunkSize
      /\ writePos = NoPos
  BY <1>1, <1>2 DEF WriteMode
<1>10. currentSize - e.size \in Nat
  BY <1>6 DEF Layout
<1>11. WriteMode'
  <2>1. CASE first = currentSequence
    <3>1. /\ writePos' = tellp /\ writeFile' = "none" /\ tellp = size
          /\ DOMAIN files' = {} /\ tellp' = tellp
      BY <2>1, <1>2, <1>7, <1>8, <1>9 DEF ResumeInMemory
    <3> HIDE DEF size, e, rest, bytes
    <3>2. writePos' = readPos' + occupied' /\ writePos' \in Nat
      BY <3>1, <1>5, <1>6, <1>7
    <3> QED BY <3>1, <3>2, <1>9 DEF WriteMode
  <2>2. CASE first # currentSequence
    <3>1. /\ writePos' = NoPos /\ writeFile' = "open" /\ tellp' = tellp
          /\ currentSequence' = currentSequence
          /\ currentSequence \in DOMAIN files'
          /\ files'[currentSequence] = files[currentSequence]
      BY <2>2, <1>2, <1>7, <1>8, <1>9 DEF ResumeInMemory
    <3> QED BY <3>1, <1>9 DEF WriteMode
  <2> QED BY <2>1, <2>2
<1>12. /\ stats' \in [files_created : Nat, files_destroyed : Nat, bytes_culled : Nat]
       /\ stats'.files_created = stats.files_created
       /\ stats'.files_destroyed + 1 = first + 1
  <2>1. /\ stats \in [files_created : Nat, files_destroyed : Nat, bytes_culled : Nat]
        /\ stats' = [stats EXCEPT !.files_destroyed = @ + 1]
    BY <1>1, <1>7 DEF Counted
  <2>2. stats.files_destroyed + 1 \in Nat
    BY <2>1
  <2> QED BY <2>1, <2>2
<1>13. Counted' /\ Others'
  BY <1>1, <1>6, <1>7, <1>10, <1>12 DEF Counted, Others
<1>14. Layout(buf', readPos', occupied', files', stats'.files_destroyed + 1,
              currentSequence', currentSize', written')
  BY <1>6, <1>7, <1>12
<1> QED BY <1>11, <1>13, <1>14 DEF IInv

\* Pop never finds the counted bytes missing.
LEMMA PopNeverFails ==
  ASSUME IInv
  PROVE  ~PopFails
<1>1. DOMAIN files = {} => currentSize = occupied
  <2>1. /\ DOMAIN files = stats.files_destroyed + 1 .. currentSequence
        /\ stats.files_destroyed + 1 \in Nat /\ currentSequence \in Nat
        /\ stats.files_destroyed + 1 > currentSequence => currentSize = occupied
    BY DEF IInv, Layout
  <2> QED BY <2>1
<1> QED BY <1>1, NeedsLoadIsEmpty DEF PopFails, IInv, Layout

LEMMA InitIInv == Init => IInv
<1> SUFFICES ASSUME Init PROVE IInv
  OBVIOUS
<1>1. /\ buf = Zeroed /\ readPos = 0 /\ occupied = 0 /\ writePos = 0
      /\ DOMAIN files = {} /\ currentSequence = 0 /\ currentSize = 0 /\ written = 0
      /\ stats = [files_created |-> 0, files_destroyed |-> 0, bytes_culled |-> 0]
      /\ writeFile = "none" /\ tellp = 0
      /\ callback = FALSE /\ lastFull = 0 /\ taken = NoEvent /\ threw = FALSE
  BY DEF Init
<1>2. ChunkLayout(Zeroed, 0, 0)
  BY ZeroedLayout
<1>3. Layout(Zeroed, 0, 0, files, 1, 0, 0, 0)
  BY <1>1, <1>2 DEF Layout
<1>4. stats.files_destroyed + 1 = 1
  BY <1>1
<1>5. WriteMode
  BY <1>1 DEF WriteMode
<1>6. Counted
  BY <1>1 DEF Counted
<1>7. Others
  BY <1>1 DEF Others
<1> QED BY <1>1, <1>3, <1>4, <1>5, <1>6, <1>7 DEF IInv

LEMMA NextIInv == IInv /\ [Next]_vars => IInv'
<1> SUFFICES ASSUME IInv, [Next]_vars PROVE IInv'
  OBVIOUS
<1>1. ASSUME NEW s \in Sizes, Push(s) PROVE IInv'
  BY <1>1, PushToMemoryStep, PushToFileStep, PushToNewFileStep DEF Push
<1>2. CASE PopFromMemory
  BY <1>2, PopFromMemoryStep
<1>3. CASE PopFromFile
  BY <1>3, PopFromFileStep
<1>4. CASE PopTimesOut
  BY <1>4 DEF PopTimesOut, IInv, WriteMode, Counted, Others, memory, disk, counts, progress
<1>5. CASE SetProgressCallback
  BY <1>5 DEF SetProgressCallback, IInv, WriteMode, Counted, Others, memory, disk, counts
<1>6. CASE UNCHANGED vars
  BY <1>6 DEF vars, IInv, WriteMode, Counted, Others, memory, disk, counts, progress
<1> QED BY <1>1, <1>2, <1>3, <1>4, <1>5, <1>6, PopNeverFails DEF Next, Pop

\* The state of the cache is laid out as IInv says, whatever is pushed and popped.
THEOREM Invariance == Spec => []IInv
BY InitIInv, NextIInv, PTL DEF Spec

-----------------------------------------------------------------------------
(* The theorems: what the runs check, for every value of the constants.    *)

LEMMA LayoutFiles ==
  ASSUME IInv
  PROVE  /\ DOMAIN files = stats.files_destroyed + 1 .. currentSequence
         /\ \A n \in DOMAIN files : FileLayout(files[n])
BY DEF IInv, Layout

\* TypeOK: in particular a file never exceeds the chunk it will be loaded into.
THEOREM TypeCorrect == Spec => []TypeOK
<1>1. IInv => TypeOK
  <2> SUFFICES ASSUME IInv PROVE TypeOK
    OBVIOUS
  <2>1. /\ IsBytes(buf) /\ readPos \in 0 .. ChunkSize /\ occupied \in 0 .. ChunkSize
        /\ writePos \in 0 .. ChunkSize \cup {NoPos}
    BY DEF IInv, Layout, ChunkLayout, WriteMode
  <2>2. DOMAIN files \subseteq 1 .. currentSequence
    BY LayoutFiles DEF IInv, Layout
  <2>3. \A n \in DOMAIN files : IsBytes(files[n].bytes) /\ files[n].size \in 1 .. ChunkSize
    BY LayoutFiles DEF FileLayout
  <2>4. /\ writeFile \in {"none", "open", "failed"} /\ tellp \in 0 .. ChunkSize \cup {-1}
        /\ currentSequence \in Nat /\ currentSize \in Nat /\ written \in Nat
    BY DEF IInv, Layout, WriteMode
  <2> QED BY <2>1, <2>2, <2>3, <2>4 DEF TypeOK, IInv, Counted, Others
<1> QED BY <1>1, Invariance, PTL

\* ChunksAreTiled: the bytes counted for the chunk and for each file are the bytes of
\* the events in it, end to end.
THEOREM ChunksStayTiled == Spec => []ChunksAreTiled
<1>1. IInv => ChunksAreTiled
  BY LayoutFiles DEF ChunksAreTiled, IInv, Layout, ChunkLayout, FileLayout, WriteMode
<1> QED BY <1>1, Invariance, PTL

\* NothingThrows: on a disk that works find_oldest_file always finds a file, for cull
\* and for pop.
THEOREM NothingEverThrows == Spec => []NothingThrows
<1>1. Init => NothingThrows
  BY DEF Init, NothingThrows
<1>2. IInv /\ NothingThrows /\ [Next]_vars => NothingThrows'
  <2> SUFFICES ASSUME IInv, threw = FALSE, [Next]_vars PROVE threw' = FALSE
    BY DEF NothingThrows, IInv, Others
  <2>1. ASSUME NEW s \in Sizes, Push(s) PROVE threw' = FALSE
    BY <2>1, PushToMemoryStep, PushToFileStep, PushToNewFileStep DEF Push
  <2>2. CASE PopFromMemory \/ PopFromFile \/ PopTimesOut \/ SetProgressCallback
    BY <2>2 DEF PopFromMemory, PopFromFile, PopTimesOut, SetProgressCallback
  <2>3. CASE UNCHANGED vars
    BY <2>3 DEF vars
  <2> QED BY <2>1, <2>2, <2>3, PopNeverFails DEF Next, Pop
<1> QED BY <1>1, <1>2, Invariance, PTL DEF Spec

\* MemoryWritesAreYoungest: memory is written only when no file holds younger events.
THEOREM MemoryWritesStayYoungest == Spec => []MemoryWritesAreYoungest
<1>1. IInv => MemoryWritesAreYoungest
  BY DEF IInv, WriteMode, MemoryWritesAreYoungest
<1> QED BY <1>1, Invariance, PTL

\* OpenFileIsKept: cull never removes the file being written, because a cache that
\* reaches MaxSize with an empty chunk has more than one file.
THEOREM OpenFileStaysKept == Spec => []OpenFileIsKept
<1>1. IInv => OpenFileIsKept
  BY DEF IInv, WriteMode, OpenFileIsKept
<1> QED BY <1>1, Invariance, PTL

\* FilesAreCounted: files are made and removed in order, without gaps.
THEOREM FilesStayCounted == Spec => []FilesAreCounted
<1>1. IInv => FilesAreCounted
  BY LayoutFiles DEF IInv, Counted, FilesAreCounted
<1> QED BY <1>1, Invariance, PTL

\* In a laid out cache every stored event ends where another one starts, or where the
\* stream ends, and the oldest starts where the counted bytes do.
LEMMA StoredIsCounted == IInv => SizeIsStored
<1> SUFFICES ASSUME IInv PROVE SizeIsStored
  OBVIOUS
<1> DEFINE first == stats.files_destroyed + 1
           last == currentSequence
           head == written - currentSize
<1>1. /\ first \in Nat /\ last \in Nat /\ head \in Nat
      /\ occupied \in Nat /\ readPos \in Nat /\ written \in Nat /\ currentSize \in Nat
      /\ DOMAIN files = first .. last /\ first <= last + 1
      /\ \A n \in first .. last : FileLayout(files[n])
      /\ occupied > 0 => buf[readPos].at = head
      /\ first > last => currentSize = occupied
      /\ first <= last => Base(files[first]) = head + occupied /\ Limit(files[last]) = written
      /\ \A n \in first .. last : n < last => Base(files[n + 1]) = Limit(files[n])
      /\ \A m, n \in first .. last : m < n => Limit(files[m]) <= Base(files[n])
      /\ IsBytes(buf) /\ Tiles(buf, readPos, readPos + occupied)
  BY DEF IInv, Layout, ChunkLayout
<1> HIDE DEF first, last, head
\* An event stored anywhere starts no earlier than the head, and its end is the end
\* of the stream or the start of another one.
<1>2. \A n \in first .. last : files[n].bytes[0] \in OnDisk
  <2> SUFFICES ASSUME NEW n \in first .. last PROVE files[n].bytes[0] \in OnDisk
    OBVIOUS
  <2>1. n \in DOMAIN files /\ 0 \in DOMAIN files[n].bytes
    BY <1>1, FileFacts
  <2>2. files[n].bytes[0] \in Range(files[n].bytes)
    BY <2>1 DEF Range
  <2> QED BY <2>1, <2>2 DEF OnDisk
<1>3. \A n \in first .. last : Base(files[n]) >= head /\ Base(files[n]) \in Nat
  <2> SUFFICES ASSUME NEW n \in first .. last
               PROVE  Base(files[n]) >= head /\ Base(files[n]) \in Nat
    OBVIOUS
  <2>1. first \in first .. last
    BY <1>1
  <2>2. /\ Base(files[n]) \in Nat /\ Base(files[first]) \in Nat
        /\ Limit(files[first]) \in Nat /\ Base(files[first]) < Limit(files[first])
    BY <1>1, <2>1, FileFacts
  <2>3. n = first \/ Limit(files[first]) <= Base(files[n])
    BY <1>1, <2>1
  <2> QED BY <1>1, <2>1, <2>2, <2>3
<1>4. ASSUME NEW o \in DOMAIN buf, o >= readPos
      PROVE  /\ buf[o].at >= head
             /\ \/ buf[o].at + buf[o].size = written
                \/ \E f \in Stored : f.at = buf[o].at + buf[o].size
  <2>1. /\ o \in Nat /\ buf[o].size \in Nat /\ buf[o].size > 0 /\ buf[o].at \in Nat
    BY <1>1, BytesFacts, SizeFacts
  <2>2. /\ buf[o].at = buf[readPos].at + (o - readPos)
        /\ \/ o + buf[o].size = readPos + occupied
           \/ o + buf[o].size < readPos + occupied /\ o + buf[o].size \in DOMAIN buf
    BY <1>1, <1>4 DEF Tiles
  <2>3. occupied > 0 /\ buf[readPos].at = head
    <3>1. readPos < readPos + occupied
      BY <1>1, <1>4, <2>1, <2>2
    <3> QED BY <3>1, <1>1
  <2>4. CASE o + buf[o].size = readPos + occupied
    <3>1. buf[o].at + buf[o].size = head + occupied
      BY <1>1, <2>1, <2>2, <2>3, <2>4
    <3>2. CASE first > last
      <4>1. head + occupied = written /\ head <= buf[o].at
        BY <3>2, <1>1, <1>4, <2>1, <2>2, <2>3 DEF head
      <4> QED BY <4>1, <3>1
    <3>3. CASE first <= last
      <4>1. files[first].bytes[0] \in Stored /\ files[first].bytes[0].at = head + occupied
        BY <3>3, <1>1, <1>2 DEF Stored, Base
      <4> QED BY <4>1, <3>1, <1>1, <1>4, <2>1, <2>2, <2>3
    <3> QED BY <3>2, <3>3, <1>1
  <2>5. CASE o + buf[o].size < readPos + occupied /\ o + buf[o].size \in DOMAIN buf
    <3> DEFINE p == o + buf[o].size
    <3>1. p \in DOMAIN buf /\ p >= readPos /\ p \in Nat
      BY <2>1, <2>5, <1>1, <1>4
    <3>2. buf[p].at = buf[readPos].at + (p - readPos)
      BY <3>1, <1>1 DEF Tiles
    <3>3. buf[p] \in Stored
      BY <3>1 DEF Stored, Unread
    <3>4. buf[p].at = buf[o].at + buf[o].size
      <4>1. p - readPos = (o - readPos) + buf[o].size
        BY <2>1, <1>1
      <4> HIDE DEF p
      <4> QED BY <4>1, <3>2, <2>1, <2>2, <2>3, <1>1
    <3> QED BY <3>3, <3>4, <1>1, <1>4, <2>1, <2>2, <2>3
  <2> QED BY <2>2, <2>4, <2>5
<1>5. ASSUME NEW n \in first .. last, NEW o \in DOMAIN files[n].bytes
      PROVE  LET e == files[n].bytes[o]
             IN  /\ e.at >= head
                 /\ e.at + e.size = written \/ \E f \in Stored : f.at = e.at + e.size
  <2> DEFINE bytes == files[n].bytes
             e == bytes[o]
  <2>1. /\ IsBytes(bytes) /\ Tiles(bytes, 0, files[n].size) /\ files[n].size \in Nat
        /\ Base(files[n]) = bytes[0].at /\ Limit(files[n]) = Base(files[n]) + files[n].size
    BY <1>1, FileFacts DEF FileLayout, Base, Limit
  <2>2. /\ o \in Nat /\ e.size \in Nat /\ e.at \in Nat
    BY <2>1, BytesFacts, SizeFacts
  <2>3. /\ e.at = Base(files[n]) + o
        /\ \/ o + e.size = files[n].size
           \/ o + e.size \in DOMAIN bytes
    BY <2>1, <2>2, <1>3 DEF Tiles
  <2>4. e.at >= head
    BY <2>2, <2>3, <1>1, <1>3
  <2>5. CASE o + e.size = files[n].size
    <3>1. e.at + e.size = Limit(files[n])
      BY <2>1, <2>2, <2>3, <2>5, <1>3
    <3>2. CASE n = last
      BY <3>1, <3>2, <2>4, <1>1
    <3>3. CASE n < last
      <4>1. n + 1 \in first .. last
        BY <3>3, <1>1
      <4>2. files[n + 1].bytes[0] \in Stored /\ files[n + 1].bytes[0].at = Limit(files[n])
        BY <3>3, <4>1, <1>1, <1>2 DEF Stored, Base
      <4> QED BY <4>2, <3>1, <2>4
    <3> QED BY <3>2, <3>3, <1>1
  <2>6. CASE o + e.size \in DOMAIN bytes
    <3> DEFINE p == o + e.size
    <3>1. p \in Nat /\ p >= 0
      BY <2>2
    <3>2. bytes[p].at = bytes[0].at + (p - 0)
      BY <3>1, <2>1, <2>6 DEF Tiles
    <3>3. bytes[p] \in Stored
      BY <2>6, <1>1 DEF Stored, OnDisk, Range
    <3>4. bytes[p].at = e.at + e.size
      BY <3>2, <2>1, <2>2, <2>3, <1>3
    <3> QED BY <3>3, <3>4, <2>4
  <2> QED BY <2>3, <2>5, <2>6
<1>6. currentSize > 0 => \E e \in Stored : e.at = head
  <2>1. CASE occupied > 0
    <3>1. readPos \in DOMAIN buf
      BY <2>1, <1>1 DEF Tiles
    <3>2. buf[readPos] \in Stored
      BY <3>1, <1>1 DEF Stored, Unread
    <3> QED BY <2>1, <3>2, <1>1
  <2>2. CASE occupied = 0 /\ currentSize > 0
    <3>1. first <= last
      BY <2>2, <1>1
    <3>2. files[first].bytes[0] \in Stored /\ files[first].bytes[0].at = head
      BY <2>2, <3>1, <1>1, <1>2 DEF Stored, Base
    <3> QED BY <3>2
  <2> QED BY <2>1, <2>2, <1>1
<1>7. ASSUME NEW e \in Stored
      PROVE  /\ e.at >= head
             /\ e.at + e.size = written \/ \E f \in Stored : f.at = e.at + e.size
  <2>1. CASE e \in Unread
    BY <2>1, <1>4 DEF Unread
  <2>2. CASE e \in OnDisk
    <3>1. PICK n \in first .. last : \E o \in DOMAIN files[n].bytes : e = files[n].bytes[o]
      BY <2>2, <1>1 DEF OnDisk, Range
    <3> QED BY <3>1, <1>5
  <2> QED BY <2>1, <2>2 DEF Stored
<1> QED BY <1>6, <1>7 DEF SizeIsStored, head

\* SizeIsStored: current_size_ counts exactly the events still to be read, and they are
\* the last ones of the stream.
THEOREM SizeStaysStored == Spec => []SizeIsStored
BY StoredIsCounted, Invariance, PTL

-----------------------------------------------------------------------------
(* The cache implements the abstract queue.  The queue is the set of the   *)
(* events still to be read, wherever they lie; Layout tells where in the   *)
(* stream those of the chunk, and those of each file, begin and end.       *)

UnreadOf(bytes, r) == {bytes[o] : o \in {p \in DOMAIN bytes : p >= r}}
OnDiskOf(fs) == UNION {Range(fs[n].bytes) : n \in DOMAIN fs}

LEMMA StoredParts == Stored = UnreadOf(buf, readPos) \cup OnDiskOf(files)
BY DEF Stored, Unread, OnDisk, UnreadOf, OnDiskOf

\* The unread events of a chunk lie within the unread bytes of it.
LEMMA UnreadPlaces ==
  ASSUME NEW bytes, NEW r, NEW occ, ChunkLayout(bytes, r, occ), NEW e \in UnreadOf(bytes, r)
  PROVE  /\ occ > 0 /\ r \in DOMAIN bytes /\ e \in Event /\ bytes[r].at \in Nat
         /\ bytes[r].at <= e.at /\ e.at + e.size <= bytes[r].at + occ
<1>1. /\ IsBytes(bytes) /\ r \in Nat /\ occ \in Nat /\ Tiles(bytes, r, r + occ)
  BY DEF ChunkLayout
<1>2. PICK o \in DOMAIN bytes : o >= r /\ e = bytes[o]
  BY DEF UnreadOf
<1>3. o \in Nat /\ e \in Event /\ e.size \in Nat /\ e.size > 0 /\ e.at \in Nat
  BY <1>1, <1>2, BytesFacts, SizeFacts
<1>4. /\ e.at = bytes[r].at + (o - r)
      /\ o + e.size <= r + occ
  BY <1>1, <1>2, <1>3 DEF Tiles
<1>5. occ > 0 /\ r \in DOMAIN bytes
  <2>1. r < r + occ
    BY <1>1, <1>2, <1>3, <1>4
  <2> QED BY <2>1, <1>1 DEF Tiles
<1>6. bytes[r].at \in Nat
  BY <1>1, <1>5, BytesFacts, SizeFacts
<1> QED BY <1>1, <1>2, <1>3, <1>4, <1>5, <1>6

\* The events of a file lie within its bytes.
LEMMA FilePlaces ==
  ASSUME NEW file, FileLayout(file), NEW e \in Range(file.bytes)
  PROVE  e \in Event /\ Base(file) <= e.at /\ e.at + e.size <= Limit(file)
<1> DEFINE bytes == file.bytes
<1>1. /\ ChunkLayout(bytes, 0, file.size) /\ bytes[0].at = Base(file)
      /\ Limit(file) = Base(file) + file.size
  BY FileFacts DEF FileLayout, ChunkLayout, Base, Limit
<1>2. e \in UnreadOf(bytes, 0)
  <2>1. PICK o \in DOMAIN bytes : e = bytes[o]
    BY DEF Range
  <2>2. o \in Nat /\ o >= 0
    BY <2>1, FileFacts, BytesFacts
  <2> QED BY <2>1, <2>2 DEF UnreadOf
<1> HIDE DEF bytes
<1> QED BY <1>1, <1>2, UnreadPlaces

\* The unread events of the chunk come before those of every file.
LEMMA StoredPlaces ==
  ASSUME NEW bytes, NEW r, NEW occ, NEW fs, NEW first, NEW last, NEW held, NEW end,
         Layout(bytes, r, occ, fs, first, last, held, end)
  PROVE  /\ end \in Nat /\ held \in Nat /\ occ \in Nat /\ held <= end
         /\ \A e \in UnreadOf(bytes, r) :
              /\ e \in Event
              /\ end - held <= e.at /\ e.at + e.size <= (end - held) + occ
         /\ \A e \in OnDiskOf(fs) :
              /\ e \in Event
              /\ (end - held) + occ <= e.at /\ e.at + e.size <= end
<1>1. /\ ChunkLayout(bytes, r, occ) /\ occ \in Nat
      /\ held \in Nat /\ end \in Nat /\ first \in Nat \ {0} /\ last \in Nat
      /\ DOMAIN fs = first .. last
      /\ \A n \in first .. last : FileLayout(fs[n])
      /\ occ <= held /\ held <= end
      /\ occ > 0 => bytes[r].at = end - held
      /\ first <= last => Base(fs[first]) = end - held + occ /\ Limit(fs[last]) = end
      /\ \A m, n \in first .. last : m < n => Limit(fs[m]) <= Base(fs[n])
  BY DEF Layout, ChunkLayout
<1>2. ASSUME NEW e \in UnreadOf(bytes, r)
      PROVE  /\ e \in Event
             /\ end - held <= e.at /\ e.at + e.size <= (end - held) + occ
  BY <1>1, UnreadPlaces
<1>3. ASSUME NEW e \in OnDiskOf(fs)
      PROVE  /\ e \in Event
             /\ (end - held) + occ <= e.at /\ e.at + e.size <= end
  <2>1. PICK n \in first .. last : e \in Range(fs[n].bytes)
    BY <1>1 DEF OnDiskOf
  <2>2. /\ e \in Event /\ e.at \in Nat /\ e.size \in Nat
        /\ Base(fs[n]) <= e.at /\ e.at + e.size <= Limit(fs[n])
    BY <1>1, <2>1, FilePlaces, SizeFacts
  <2>3. first \in first .. last /\ last \in first .. last
    BY <1>1
  <2>4. /\ Base(fs[n]) \in Nat /\ Limit(fs[n]) \in Nat
        /\ Base(fs[first]) \in Nat /\ Limit(fs[first]) \in Nat
        /\ Base(fs[last]) \in Nat /\ Limit(fs[last]) \in Nat
        /\ Base(fs[first]) < Limit(fs[first]) /\ Base(fs[last]) < Limit(fs[last])
    BY <1>1, <2>3, FileFacts
  <2>5. n = first \/ Limit(fs[first]) <= Base(fs[n])
    BY <1>1, <2>3
  <2>6. n = last \/ Limit(fs[n]) <= Base(fs[last])
    BY <1>1, <2>3
  <2>7. Base(fs[first]) <= Base(fs[n]) /\ Limit(fs[n]) <= Limit(fs[last])
    BY <2>4, <2>5, <2>6
  <2> QED BY <1>1, <2>2, <2>3, <2>4, <2>7
<1> QED BY <1>1, <1>2, <1>3

\* Laying an event behind the last one stores it, and nothing else.
LEMMA LaidInBytes ==
  ASSUME NEW bytes, NEW r, NEW occ, ChunkLayout(bytes, r, occ), NEW e
  PROVE  UnreadOf(Laid(bytes, r + occ, e), r) = UnreadOf(bytes, r) \cup {e}
<1> DEFINE new == Laid(bytes, r + occ, e)
<1>1. /\ IsBytes(bytes) /\ r \in Nat /\ occ \in Nat /\ Tiles(bytes, r, r + occ)
  BY DEF ChunkLayout
<1>2. r + occ \notin DOMAIN bytes
  <2> SUFFICES ASSUME r + occ \in DOMAIN bytes PROVE FALSE
    OBVIOUS
  <2>1. r + occ + bytes[r + occ].size <= r + occ
    BY <1>1, BytesFacts, SizeFacts DEF Tiles
  <2> QED BY <2>1, <1>1, BytesFacts, SizeFacts
<1>3. /\ DOMAIN new = DOMAIN bytes \cup {r + occ}
      /\ new[r + occ] = e
      /\ \A o \in DOMAIN bytes : new[o] = bytes[o]
  BY <1>2 DEF Laid
<1>4. r + occ >= r
  BY <1>1
<1> HIDE DEF new
<1>5. UnreadOf(new, r) = UnreadOf(bytes, r) \cup {e}
  BY <1>3, <1>4 DEF UnreadOf
<1> QED BY <1>5 DEF new

LEMMA FileIsUnread ==
  ASSUME NEW bytes, IsBytes(bytes)
  PROVE  Range(bytes) = UnreadOf(bytes, 0)
<1>1. \A o \in DOMAIN bytes : o >= 0
  BY BytesFacts
<1> QED BY <1>1 DEF Range, UnreadOf

LEMMA LaidInFile ==
  ASSUME NEW file, FileLayout(file), NEW e \in Event, file.size + e.size <= ChunkSize
  PROVE  Range(Laid(file.bytes, file.size, e)) = Range(file.bytes) \cup {e}
<1> DEFINE new == Laid(file.bytes, file.size, e)
<1>1. ChunkLayout(file.bytes, 0, file.size)
  BY FileFacts DEF FileLayout, ChunkLayout
<1>2. 0 + file.size = file.size
  BY FileFacts
<1>3. UnreadOf(new, 0) = UnreadOf(file.bytes, 0) \cup {e}
  BY <1>1, <1>2, LaidInBytes
<1>4. IsBytes(new)
  BY FileFacts, LaidIsBytes
<1> HIDE DEF new
<1>5. Range(new) = Range(file.bytes) \cup {e}
  BY <1>3, <1>4, FileFacts, FileIsUnread
<1> QED BY <1>5 DEF new

LEMMA LaidInOpenFile ==
  ASSUME NEW fs, NEW n \in DOMAIN fs, FileLayout(fs[n]), NEW e \in Event,
         fs[n].size + e.size <= ChunkSize, NEW grown,
         grown = [fs EXCEPT ![n] =
                    [bytes |-> Laid(@.bytes, fs[n].size, e), size |-> @.size + e.size]]
  PROVE  OnDiskOf(grown) = OnDiskOf(fs) \cup {e}
<1>1. /\ DOMAIN grown = DOMAIN fs
      /\ grown[n].bytes = Laid(fs[n].bytes, fs[n].size, e)
      /\ \A m \in DOMAIN fs : m # n => grown[m] = fs[m]
  OBVIOUS
<1>2. Range(grown[n].bytes) = Range(fs[n].bytes) \cup {e}
  BY <1>1, LaidInFile
<1>3. ASSUME NEW f \in OnDiskOf(grown) PROVE f \in OnDiskOf(fs) \cup {e}
  BY <1>1, <1>2 DEF OnDiskOf
<1>4. ASSUME NEW f \in OnDiskOf(fs) PROVE f \in OnDiskOf(grown)
  <2>1. PICK m \in DOMAIN fs : f \in Range(fs[m].bytes)
    BY DEF OnDiskOf
  <2>2. f \in Range(grown[m].bytes)
    BY <2>1, <1>1, <1>2
  <2> QED BY <2>1, <2>2, <1>1 DEF OnDiskOf
<1>5. e \in OnDiskOf(grown)
  BY <1>1, <1>2 DEF OnDiskOf
<1> QED BY <1>3, <1>4, <1>5

LEMMA LaidInNewFile ==
  ASSUME NEW fs, NEW n, NEW e, NEW more,
         DOMAIN more = DOMAIN fs \cup {n},
         more[n].bytes = Laid(Zeroed, 0, e),
         \A m \in DOMAIN fs : more[m] = fs[m]
  PROVE  OnDiskOf(more) = OnDiskOf(fs) \cup {e}
<1>1. Range(more[n].bytes) = {e}
  BY DEF Range, Laid, Zeroed
<1>2. ASSUME NEW f \in OnDiskOf(more) PROVE f \in OnDiskOf(fs) \cup {e}
  BY <1>1 DEF OnDiskOf
<1>3. ASSUME NEW f \in OnDiskOf(fs) PROVE f \in OnDiskOf(more)
  BY DEF OnDiskOf
<1>4. e \in OnDiskOf(more)
  BY <1>1 DEF OnDiskOf
<1> QED BY <1>2, <1>3, <1>4

\* The first unread event of the chunk is the oldest stored, and reading past it
\* leaves all the others.
LEMMA FirstIsOldest ==
  ASSUME NEW bytes, NEW r, NEW occ, NEW fs, NEW first, NEW last, NEW held, NEW end,
         Layout(bytes, r, occ, fs, first, last, held, end), r \in DOMAIN bytes,
         NEW stored, stored = UnreadOf(bytes, r) \cup OnDiskOf(fs)
  PROVE  LET e == bytes[r]
         IN  /\ Promise!Oldest(e, stored)
             /\ UnreadOf(bytes, r + e.size) \cup OnDiskOf(fs) = stored \ {e}
<1> DEFINE e == bytes[r]
<1>1. /\ IsBytes(bytes) /\ r \in Nat /\ occ \in Nat /\ Tiles(bytes, r, r + occ)
      /\ ChunkLayout(bytes, r, occ)
  BY DEF Layout, ChunkLayout
<1>2. e \in UnreadOf(bytes, r)
  BY <1>1 DEF UnreadOf
<1>3. /\ e.at \in Nat /\ e.size \in Nat /\ e.size > 0 /\ e \in Event
      /\ e.at = end - held /\ e.size <= occ
  BY TakeFirst, SizeFacts
<1>4. \A f \in OnDiskOf(fs) : f.at \in Nat /\ e.at < f.at
  <2> SUFFICES ASSUME NEW f \in OnDiskOf(fs) PROVE f.at \in Nat /\ e.at < f.at
    OBVIOUS
  <2>1. f \in Event /\ (end - held) + occ <= f.at /\ end \in Nat /\ held \in Nat
    BY StoredPlaces
  <2> QED BY <2>1, <1>1, <1>3, SizeFacts
<1>5. \A f \in UnreadOf(bytes, r) : e.at <= f.at
  BY <1>3, StoredPlaces
<1>6. ASSUME NEW o \in DOMAIN bytes, o >= r, o # r
      PROVE  o >= r + e.size /\ bytes[o] # e
  <2>1. o \in Nat
    BY <1>1, BytesFacts
  <2>2. o <= r \/ o >= r + e.size
    BY <1>1, <1>6 DEF Tiles
  <2>3. bytes[o].at = e.at + (o - r)
    BY <1>1, <1>6 DEF Tiles
  <2> QED BY <2>1, <2>2, <2>3, <1>1, <1>3, <1>6
<1>7. \A o \in DOMAIN bytes : o \in Nat
  BY <1>1, BytesFacts
<1> HIDE DEF e
<1>8. UnreadOf(bytes, r + e.size) = UnreadOf(bytes, r) \ {e}
  <2>1. ASSUME NEW f \in UnreadOf(bytes, r + e.size) PROVE f \in UnreadOf(bytes, r) \ {e}
    <3>1. PICK o \in DOMAIN bytes : o >= r + e.size /\ f = bytes[o]
      BY DEF UnreadOf
    <3>2. o >= r /\ o # r
      BY <3>1, <1>1, <1>3, <1>7
    <3> QED BY <3>1, <3>2, <1>6 DEF UnreadOf
  <2>2. ASSUME NEW f \in UnreadOf(bytes, r), f # e PROVE f \in UnreadOf(bytes, r + e.size)
    <3>1. PICK o \in DOMAIN bytes : o >= r /\ f = bytes[o]
      BY DEF UnreadOf
    <3>2. o # r
      BY <3>1, <2>2 DEF e
    <3> QED BY <3>1, <3>2, <1>6 DEF UnreadOf
  <2> QED BY <2>1, <2>2
<1>9. Promise!Oldest(e, stored)
  BY <1>2, <1>3, <1>4, <1>5 DEF Promise!Oldest
<1>10. UnreadOf(bytes, r + e.size) \cup OnDiskOf(fs) = stored \ {e}
  <2>1. e \notin OnDiskOf(fs)
    BY <1>3, <1>4
  <2> QED BY <2>1, <1>8
<1> QED BY <1>9, <1>10 DEF e

\* The step of the queue that forgets: some of what is held, all of it older than
\* what is kept.
LEMMA ForgettingStep ==
  ASSUME NEW s \in Sizes, NEW gone, NEW kept,
         gone \cup kept = Stored \cup {Pushed(s)},
         gone # {}, \A e \in gone : e.at \in Nat,
         \A e \in gone, f \in kept : e.at < f.at,
         Pushed(s) \notin gone, Promise!Fills(s),
         Stored' = kept, written' = written + s, taken' = taken
  PROVE  Promise!PutForgetting(s)
<1>1. gone \in SUBSET Stored
  OBVIOUS
<1>2. \A e \in gone, f \in Stored \ gone : e.at < f.at
  OBVIOUS
<1>3. gone \cap kept = {}
  <2> SUFFICES ASSUME NEW e \in gone, e \in kept PROVE FALSE
    OBVIOUS
  <2>1. e.at < e.at /\ e.at \in Nat
    OBVIOUS
  <2> QED BY <2>1
<1>4. Stored' = (Stored \ gone) \cup {[at |-> written, size |-> s]}
  BY <1>3 DEF Pushed
<1> QED BY <1>1, <1>2, <1>4 DEF Promise!PutForgetting

\* The queue reaches its capacity when the counted bytes do.
LEMMA FillsIsFull ==
  ASSUME IInv, NEW s \in Sizes
  PROVE  Promise!Fills(s) <=> IsFull(currentSize + s)
<1>1. /\ currentSize \in Nat /\ written \in Nat /\ currentSize <= written
      /\ \A e \in Stored : e \in Event
  BY StoredPlaces, StoredParts DEF IInv
<1>2. /\ s \in Nat /\ s <= ChunkSize
      /\ \A e \in Stored : e.at \in Nat /\ e.at >= written - currentSize
      /\ currentSize > 0 => \E e \in Stored : e.at = written - currentSize
  BY <1>1, SizeFacts, StoredIsCounted DEF SizeIsStored
<1>3. ASSUME NEW e \in Stored, written - e.at + s >= MaxSize PROVE currentSize + s >= MaxSize
  BY <1>1, <1>2, <1>3
<1>4. ASSUME currentSize + s >= MaxSize
      PROVE  \E e \in Stored : written - e.at + s >= MaxSize
  <2>1. currentSize > 0
    BY <1>1, <1>2, <1>4
  <2>2. PICK e \in Stored : e.at = written - currentSize
    BY <1>2, <2>1
  <2>3. written - e.at + s = currentSize + s
    BY <1>1, <1>2, <2>2
  <2> QED BY <1>4, <2>2, <2>3
<1> QED BY <1>3, <1>4 DEF Promise!Fills, IsFull

\* Counting and culling after an event is laid is a step of the queue: what is culled
\* is the oldest chunk, and the new event is never in it.
LEMMA SettleRefines ==
  ASSUME IInv, NEW s \in Sizes, NEW bytes, NEW occ, NEW fs, NEW created, NEW last,
         Layout(bytes, readPos, occ, fs, stats.files_destroyed + 1, last,
                currentSize + s, written + s),
         UnreadOf(bytes, readPos) \cup OnDiskOf(fs) = Stored \cup {Pushed(s)},
         Settle(s, bytes, occ, fs, created)
  PROVE  Promise!Put(s) \/ Promise!PutForgetting(s)
<1> DEFINE first == stats.files_destroyed + 1
           full == currentSize + s
           end == written + s
           unread == UnreadOf(bytes, readPos)
           onDisk == OnDiskOf(fs)
<1>1. /\ full \in Nat /\ end \in Nat /\ occ \in Nat /\ occ <= ChunkSize /\ full <= end
      /\ ChunkLayout(bytes, readPos, occ)
      /\ first \in Nat \ {0} /\ last \in Nat /\ DOMAIN fs = first .. last
      /\ \A n \in first .. last : FileLayout(fs[n])
      /\ first > last => full = occ
      /\ first <= last => Base(fs[first]) = end - full + occ
      /\ \A m, n \in first .. last : m < n => Limit(fs[m]) <= Base(fs[n])
  BY DEF Layout, ChunkLayout
<1>2. /\ \A e \in unread : /\ e.at \in Nat /\ e.size \in Nat /\ e.size > 0
                           /\ e.at + e.size <= (end - full) + occ
      /\ \A e \in onDisk : /\ e.at \in Nat /\ e.size \in Nat /\ e.size > 0
                           /\ (end - full) + occ <= e.at /\ e.at + e.size <= end
  BY StoredPlaces, SizeFacts
<1>3. Pushed(s).at + Pushed(s).size = end /\ Pushed(s).size \in Nat /\ Pushed(s).at \in Nat
  BY PushedFacts, SizeFacts
<1>4. Stored' = UnreadOf(buf', readPos') \cup OnDiskOf(files')
  BY DEF Stored, Unread, OnDisk, UnreadOf, OnDiskOf
<1>5. written' = end /\ taken' = taken /\ readPos' = readPos
  BY DEF Settle
<1>6. unread \cup onDisk = Stored \cup {Pushed(s)}
  OBVIOUS
<1> HIDE DEF first, full, unread, onDisk
<1>7. CASE ~IsFull(full)
  <2>1. ~Promise!Fills(s)
    BY <1>7, FillsIsFull DEF full
  <2>2. buf' = bytes /\ files' = fs
    BY <1>7 DEF Settle, full
  <2>3. Stored' = Stored \cup {[at |-> written, size |-> s]}
    BY <2>2, <1>4, <1>5, <1>6 DEF Pushed, unread, onDisk
  <2> QED BY <2>1, <2>3, <1>5 DEF Promise!Put
<1>8. CASE IsFull(full)
  <2>1. /\ Promise!Fills(s) /\ full >= MaxSize /\ Cull(bytes, occ, fs, created, full)
    BY <1>8, FillsIsFull DEF Settle, IsFull, full
  <2>2. first <= last
    BY <2>1, <1>1
  <2>3. first \in DOMAIN fs /\ FileLayout(fs[first])
    BY <2>2, <1>1
  <2>4. CASE CullMemory(bytes, occ, fs, created, full)
    <3>1. occ > 0 /\ buf' = Zeroed /\ files' = fs
      BY <2>4 DEF CullMemory
    <3>2. UnreadOf(Zeroed, readPos) = {}
      BY DEF UnreadOf, Zeroed
    <3>3. Stored' = onDisk
      BY <3>1, <3>2, <1>4, <1>5 DEF onDisk
    <3>4. \A e \in unread, f \in onDisk : e.at < f.at
      BY <1>1, <1>2
    <3>5. (end - full) + occ < end
      <4>1. Limit(fs[first]) <= end /\ Base(fs[first]) < Limit(fs[first])
            /\ Limit(fs[first]) \in Nat /\ Base(fs[first]) \in Nat
        BY <2>2, <2>3, FileFacts, WithoutFirst DEF first, full
      <4> QED BY <4>1, <2>2, <1>1
    <3>6. Pushed(s) \notin unread
      BY <3>5, <1>1, <1>2, <1>3
    <3>7. unread # {}
      <4>1. /\ readPos \in Nat /\ readPos < readPos + occ /\ readPos \in DOMAIN bytes
        BY <3>1, <1>1 DEF ChunkLayout, Tiles
      <4> QED BY <4>1 DEF unread, UnreadOf
    <3>8. \A e \in unread : e.at \in Nat
      BY <1>2
    <3> QED BY <3>3, <3>4, <3>6, <3>7, <3>8, <2>1, <1>5, <1>6, ForgettingStep
  <2>5. CASE CullFile(bytes, occ, fs, created, full)
    <3> DEFINE gone == Range(fs[first].bytes)
               rest == Without(fs, first)
               kept == OnDiskOf(rest)
    <3>1. /\ occ = 0 /\ Layout(bytes, readPos, 0, fs, first, last, full, end)
      BY <2>5 DEF CullFile, first, full
    <3>2. first < last
      BY <2>1, <3>1, FullMeansTwoFiles
    <3>3. buf' = bytes /\ files' = rest
      BY <2>5, <1>1, <2>2, OldestIsFirst DEF CullFile
    <3>4. unread = {}
      <4>1. \A e \in unread : occ > 0
        BY <1>1, UnreadPlaces DEF unread
      <4> QED BY <4>1, <3>1
    <3>5. /\ DOMAIN rest = DOMAIN fs \ {first}
          /\ \A n \in DOMAIN rest : rest[n] = fs[n]
      BY DEF Without, Restrict
    <3> HIDE DEF rest
    <3>6. onDisk = gone \cup kept
      <4>1. ASSUME NEW e \in onDisk PROVE e \in gone \cup kept
        BY <3>5 DEF onDisk, OnDiskOf
      <4>2. ASSUME NEW e \in gone \cup kept PROVE e \in onDisk
        BY <3>5, <2>3 DEF onDisk, OnDiskOf
      <4> QED BY <4>1, <4>2
    <3>7. Stored' = kept
      BY <3>3, <3>4, <1>4, <1>5 DEF unread
    <3>8. \A e \in gone : /\ e.at \in Nat /\ e.size \in Nat /\ e.size > 0
                          /\ e.at + e.size <= Limit(fs[first])
      <4>1. \A e \in gone : e \in Event /\ e.at + e.size <= Limit(fs[first])
        BY <2>3, FilePlaces
      <4> QED BY <4>1, SizeFacts
    <3>9. \A f \in kept : f.at \in Nat /\ Limit(fs[first]) <= f.at
      <4> SUFFICES ASSUME NEW f \in kept PROVE f.at \in Nat /\ Limit(fs[first]) <= f.at
        OBVIOUS
      <4>1. PICK n \in DOMAIN rest : f \in Range(rest[n].bytes)
        BY DEF OnDiskOf
      <4>2. n \in first .. last /\ rest[n] = fs[n] /\ first < n /\ FileLayout(fs[n])
        BY <4>1, <3>5, <1>1
      <4>3. /\ f \in Event /\ Base(fs[n]) <= f.at /\ Limit(fs[first]) <= Base(fs[n])
        BY <4>1, <4>2, <1>1, <2>2, FilePlaces
      <4>4. Base(fs[n]) \in Nat /\ Limit(fs[first]) \in Nat
        BY <4>2, <2>3, FileFacts
      <4> QED BY <4>3, <4>4, SizeFacts
    <3>10. \A e \in gone, f \in kept : e.at < f.at
      BY <3>8, <3>9, <2>3, FileFacts
    <3>11. Limit(fs[first]) < end
      <4>1. /\ last \in first .. last /\ Limit(fs[first]) <= Base(fs[last])
            /\ Limit(fs[last]) = end /\ FileLayout(fs[last])
        BY <3>1, <3>2, <1>1 DEF Layout
      <4> QED BY <4>1, <2>3, FileFacts
    <3>12. Pushed(s) \notin gone
      BY <3>8, <3>11, <1>1, <1>3, <2>3, FileFacts
    <3>13. gone # {}
      BY <2>3, FileFacts DEF Range
    <3>14. gone \cup kept = Stored \cup {Pushed(s)} /\ \A e \in gone : e.at \in Nat
      BY <3>4, <3>6, <3>8, <1>6
    <3> HIDE DEF gone, kept
    <3> QED BY <3>7, <3>10, <3>12, <3>13, <3>14, <2>1, <1>5, ForgettingStep
  <2>6. CASE CullFails(bytes, occ, fs, created, full)
    BY <2>2, <2>3, <2>6 DEF CullFails
  <2> QED BY <2>1, <2>4, <2>5, <2>6 DEF Cull
<1> QED BY <1>7, <1>8

LEMMA PushRefines ==
  ASSUME IInv, NEW s \in Sizes, Push(s)
  PROVE  Promise!Put(s) \/ Promise!PutForgetting(s)
<1> DEFINE first == stats.files_destroyed + 1
           e == Pushed(s)
<1>1. /\ Layout(buf, readPos, occupied, files, first, currentSequence, currentSize, written)
      /\ WriteMode
  BY DEF IInv
<1>2. /\ ChunkLayout(buf, readPos, occupied)
      /\ currentSequence \in Nat /\ DOMAIN files = first .. currentSequence
      /\ \A n \in DOMAIN files : FileLayout(files[n])
      /\ e \in Event /\ e.at = written /\ e.size = s
  BY <1>1, PushedFacts DEF Layout
<1> HIDE DEF e
<1>3. CASE PushToMemory(s)
  <2> DEFINE bytes == Laid(buf, writePos, e)
  <2>1. /\ writePos = readPos + occupied /\ DOMAIN files = {} /\ writePos + s <= ChunkSize
    BY <1>1, <1>3 DEF PushToMemory, FitsMemory, WriteMode
  <2>2. Layout(bytes, readPos, occupied + s, files, first, currentSequence,
               currentSize + s, written + s)
    BY <1>1, <1>2, <2>1, LayInChunk
  <2>3. UnreadOf(bytes, readPos) \cup OnDiskOf(files) = Stored \cup {e}
    BY <1>2, <2>1, LaidInBytes, StoredParts
  <2>4. Settle(s, bytes, occupied + s, files, 0)
    BY <1>3 DEF PushToMemory, e
  <2> HIDE DEF bytes
  <2> QED BY <2>2, <2>3, <2>4, SettleRefines DEF e
<1>4. CASE PushToFile(s)
  <2> DEFINE grown == [files EXCEPT ![currentSequence] =
                         [bytes |-> Laid(@.bytes, tellp, e), size |-> @.size + s]]
  <2>1. /\ currentSequence \in DOMAIN files /\ files[currentSequence].size = tellp
        /\ tellp + s <= ChunkSize
    BY <1>1, <1>4 DEF PushToFile, WriteMode, FitsFile
  <2>2. Layout(buf, readPos, occupied, grown, first, currentSequence,
               currentSize + s, written + s)
    BY <1>1, <1>2, <2>1, LayInFile
  <2>3. OnDiskOf(grown) = OnDiskOf(files) \cup {e}
    BY <1>2, <2>1, LaidInOpenFile
  <2>4. Settle(s, buf, occupied, grown, 0)
    BY <1>4, <2>1 DEF PushToFile, e
  <2> HIDE DEF grown
  <2>5. UnreadOf(buf, readPos) \cup OnDiskOf(grown) = Stored \cup {e}
    BY <2>3, StoredParts
  <2> QED BY <2>2, <2>4, <2>5, SettleRefines DEF e
<1>5. CASE PushToNewFile(s)
  <2> DEFINE more == [n \in DOMAIN files \cup {currentSequence + 1} |->
                        IF n = currentSequence + 1
                        THEN [bytes |-> Laid(Zeroed, 0, e), size |-> s]
                        ELSE files[n]]
  <2>1. currentSequence + 1 \notin DOMAIN files
    BY <1>2
  <2>2. Layout(buf, readPos, occupied, more, first, currentSequence + 1,
               currentSize + s, written + s)
    BY <1>1, <1>2, LayInNewFile
  <2>3. OnDiskOf(more) = OnDiskOf(files) \cup {e}
    <3>1. /\ DOMAIN more = DOMAIN files \cup {currentSequence + 1}
          /\ more[currentSequence + 1].bytes = Laid(Zeroed, 0, e)
          /\ \A m \in DOMAIN files : more[m] = files[m]
      BY <2>1
    <3> HIDE DEF more
    <3> QED BY <3>1, LaidInNewFile
  <2>4. Settle(s, buf, occupied, more, 1)
    BY <1>5 DEF PushToNewFile, e
  <2> HIDE DEF more
  <2>5. UnreadOf(buf, readPos) \cup OnDiskOf(more) = Stored \cup {e}
    BY <2>3, StoredParts
  <2> QED BY <2>2, <2>4, <2>5, SettleRefines DEF e
<1> QED BY <1>3, <1>4, <1>5 DEF Push

\* A pop takes the oldest event, from the chunk or from the oldest file once the chunk
\* has been read to its end.
LEMMA PopFromMemoryRefines ==
  ASSUME IInv, PopFromMemory
  PROVE  Promise!Take
<1> DEFINE e == buf[readPos]
<1>1. readPos \in DOMAIN buf
  BY NeedsLoadIsEmpty DEF PopFromMemory
<1>2. /\ Promise!Oldest(e, Stored)
      /\ UnreadOf(buf, readPos + e.size) \cup OnDiskOf(files) = Stored \ {e}
  BY <1>1, StoredParts, FirstIsOldest DEF IInv
<1>3. /\ taken' = e /\ buf' = buf /\ readPos' = readPos + e.size
      /\ files' = files /\ written' = written
  BY DEF PopFromMemory, TakeAt, disk
<1> HIDE DEF e
<1>4. Stored' = Stored \ {e}
  BY <1>2, <1>3 DEF Stored, Unread, OnDisk, UnreadOf, OnDiskOf
<1>5. e \in Stored
  BY <1>2 DEF Promise!Oldest
<1> QED BY <1>2, <1>3, <1>4, <1>5 DEF Promise!Take

LEMMA PopFromFileRefines ==
  ASSUME IInv, PopFromFile
  PROVE  Promise!Take
<1> DEFINE first == stats.files_destroyed + 1
           bytes == files[first].bytes
           size == files[first].size
           rest == Without(files, first)
           e == bytes[0]
<1>1. /\ Layout(buf, readPos, 0, files, first, currentSequence, currentSize, written)
  BY NeedsLoadIsEmpty DEF IInv, PopFromFile
<1>2. /\ first \in Nat \ {0} /\ currentSequence \in Nat /\ DOMAIN files = first .. currentSequence
      /\ first <= currentSequence /\ FileLayout(files[first]) /\ ChunkLayout(buf, readPos, 0)
  BY <1>1 DEF Layout, PopFromFile
<1>3. OldestFile(files) = first
  BY <1>2, OldestIsFirst
<1>4. Layout(bytes, 0, size, rest, first + 1, currentSequence, currentSize, written)
  BY <1>1, <1>2, LoadOldest
<1>5. 0 \in DOMAIN bytes /\ IsBytes(bytes)
  BY <1>2, FileFacts
<1>6. /\ taken' = e /\ buf' = bytes /\ readPos' = 0 + e.size
      /\ files' = rest /\ written' = written
  BY <1>3 DEF PopFromFile, TakeAt, Loaded
<1>7. Stored = UnreadOf(bytes, 0) \cup OnDiskOf(rest)
  <2>1. UnreadOf(buf, readPos) = {}
    <3>1. ~(0 > 0)
      OBVIOUS
    <3> QED BY <3>1, <1>2, UnreadPlaces
  <2>2. /\ DOMAIN rest = DOMAIN files \ {first}
        /\ \A n \in DOMAIN rest : rest[n] = files[n]
    BY DEF Without, Restrict
  <2>3. Range(bytes) = UnreadOf(bytes, 0)
    BY <1>5, FileIsUnread
  <2>4. first \in DOMAIN files
    BY <1>2
  <2> HIDE DEF rest
  <2>5. ASSUME NEW f \in OnDiskOf(files) PROVE f \in Range(bytes) \cup OnDiskOf(rest)
    BY <2>2 DEF OnDiskOf
  <2>6. ASSUME NEW f \in Range(bytes) \cup OnDiskOf(rest) PROVE f \in OnDiskOf(files)
    BY <2>2, <2>4 DEF OnDiskOf
  <2> QED BY <2>1, <2>3, <2>5, <2>6, StoredParts
<1> HIDE DEF bytes, size, rest, first
<1>8. /\ Promise!Oldest(e, Stored)
      /\ UnreadOf(bytes, 0 + e.size) \cup OnDiskOf(rest) = Stored \ {e}
  BY <1>4, <1>5, <1>7, FirstIsOldest
<1> HIDE DEF e
<1>9. Stored' = Stored \ {e}
  BY <1>6, <1>8 DEF Stored, Unread, OnDisk, UnreadOf, OnDiskOf
<1>10. e \in Stored
  BY <1>8 DEF Promise!Oldest
<1> QED BY <1>6, <1>8, <1>9, <1>10 DEF Promise!Take

\* ImplementsLossyQueue: whatever happens in memory and on disk, a writer and a reader
\* of the cache see a queue that forgets only from its old end, and only when it is full.
THEOREM CacheIsLossyQueue == Spec => ImplementsLossyQueue
<1>1. Init => Promise!Init
  <2> SUFFICES ASSUME Init PROVE Promise!Init
    OBVIOUS
  <2>1. UnreadOf(buf, readPos) = {} /\ OnDiskOf(files) = {}
    BY DEF Init, UnreadOf, OnDiskOf, Zeroed
  <2> QED BY <2>1, StoredParts DEF Init, Promise!Init, NoEvent, Promise!NoEvent
<1>2. IInv /\ [Next]_vars => [Promise!Next]_Promise!vars
  <2> SUFFICES ASSUME IInv, [Next]_vars PROVE [Promise!Next]_Promise!vars
    OBVIOUS
  <2>1. ASSUME UNCHANGED <<buf, readPos, files, written, taken>>
        PROVE  UNCHANGED Promise!vars
    BY <2>1 DEF Promise!vars, Stored, Unread, OnDisk
  <2>2. ASSUME NEW s \in Sizes, Push(s) PROVE Promise!Next
    BY <2>2, PushRefines DEF Promise!Next
  <2>3. CASE PopFromMemory
    BY <2>3, PopFromMemoryRefines DEF Promise!Next
  <2>4. CASE PopFromFile
    BY <2>4, PopFromFileRefines DEF Promise!Next
  <2>5. CASE PopTimesOut
    BY <2>1, <2>5 DEF PopTimesOut, memory, disk, counts
  <2>6. CASE SetProgressCallback
    BY <2>1, <2>6 DEF SetProgressCallback, memory, disk, counts
  <2>7. CASE UNCHANGED vars
    BY <2>1, <2>7 DEF vars, memory, disk, counts
  <2> QED BY <2>2, <2>3, <2>4, <2>5, <2>6, <2>7, PopNeverFails DEF Next, Pop
<1> QED BY <1>1, <1>2, Invariance, PTL DEF Spec, ImplementsLossyQueue, Promise!Spec

-----------------------------------------------------------------------------
(* The progress callback.                                                  *)

Band(size) == {t \in {80, 90, 95} : AtLeast(size, t)}

LEMMA MoreIsAtLeast ==
  ASSUME NEW m \in Nat, NEW n \in Nat, m <= n
  PROVE  Band(m) \subseteq Band(n)
<1> SUFFICES ASSUME NEW t \in {80, 90, 95}, AtLeast(m, t) PROVE AtLeast(n, t)
  BY DEF Band
<1> DEFINE part == t * MaxSize
<1>1. part \in Nat
  OBVIOUS
<1>2. 100 * m >= part
  BY DEF AtLeast
<1> HIDE DEF part
<1>3. 100 * n >= part
  BY <1>1, <1>2
<1> QED BY <1>3 DEF AtLeast, part

\* What no call reports leaves the last reported size in the same band.
LEMMA NotCrossed ==
  ASSUME NEW m, NEW n, ~Crossed(m, n)
  PROVE  Band(n) \subseteq Band(m)
BY DEF Crossed, Band

\* ThresholdsAreReported: while a callback is set, whether an operation fills, empties
\* or culls the cache, the callback knows on which side of each threshold it is.
THEOREM ThresholdsStayReported == Spec => ThresholdsAreReported
<1>1. ASSUME IInv, IInv', [Next]_vars, callback, Band(lastFull) = Band(currentSize)
      PROVE  Band(lastFull') = Band(currentSize')
  <2>1. currentSize \in Nat /\ lastFull \in Nat /\ currentSize' \in Nat
    BY <1>1 DEF IInv, Layout, Others
  <2>2. ASSUME lastFull' = currentSize' \/ UNCHANGED <<currentSize, lastFull>>
        PROVE  Band(lastFull') = Band(currentSize')
    BY <1>1, <2>2
  <2>3. ASSUME NEW s \in Sizes, NEW bytes, NEW occ, NEW fs, NEW created,
               Settle(s, bytes, occ, fs, created), threw' = FALSE
        PROVE  Band(lastFull') = Band(currentSize')
    <3> DEFINE full == currentSize + s
    <3>1. full \in Nat /\ currentSize <= full
      BY <2>1, SizeFacts
    <3>2. CASE IsFull(full)
      <4>1. Cull(bytes, occ, fs, created, full) /\ threw' = FALSE
        BY <2>3, <3>2 DEF Settle
      <4>2. lastFull' = currentSize'
        BY <1>1, <4>1 DEF Cull, CullMemory, CullFile, CullFails, Culled
      <4> QED BY <2>2, <4>2
    <3>3. CASE ~IsFull(full)
      <4>1. currentSize' = full /\ ReportUp(full)
        BY <2>3, <3>3 DEF Settle
      <4> HIDE DEF full
      <4>2. CASE Crossed(lastFull, full)
        <5>1. lastFull' = full
          BY <1>1, <4>1, <4>2 DEF ReportUp
        <5> QED BY <2>2, <4>1, <5>1
      <4>3. CASE ~Crossed(lastFull, full)
        <5>1. lastFull' = lastFull
          BY <4>1, <4>3 DEF ReportUp
        <5>2. Band(full) \subseteq Band(lastFull)
          BY <4>3, NotCrossed
        <5>3. Band(currentSize) \subseteq Band(full)
          BY <2>1, <3>1, MoreIsAtLeast
        <5>4. Band(lastFull') = Band(lastFull) /\ Band(currentSize') = Band(full)
          BY <4>1, <5>1
        <5>5. Band(full) = Band(lastFull)
          BY <1>1, <5>2, <5>3
        <5> QED BY <5>4, <5>5
      <4> QED BY <4>2, <4>3
    <3> QED BY <3>2, <3>3
  <2>4. ASSUME NEW s \in Sizes, Push(s) PROVE Band(lastFull') = Band(currentSize')
    BY <1>1, <2>3, <2>4, PushToMemoryStep, PushToFileStep, PushToNewFileStep
      DEF Push, PushToMemory, PushToFile, PushToNewFile
  <2>5. ASSUME NEW n \in Nat, currentSize' = n, n <= currentSize, ReportDown(n)
        PROVE  Band(lastFull') = Band(currentSize')
    <3>1. CASE Crossed(n, lastFull)
      BY <1>1, <2>2, <2>5, <3>1 DEF ReportDown
    <3>2. CASE ~Crossed(n, lastFull)
      <4>1. lastFull' = lastFull
        BY <2>5, <3>2 DEF ReportDown
      <4>2. Band(lastFull) \subseteq Band(n)
        BY <3>2, NotCrossed
      <4>3. Band(n) \subseteq Band(currentSize)
        BY <2>1, <2>5, MoreIsAtLeast
      <4>4. Band(lastFull') = Band(lastFull) /\ Band(currentSize') = Band(n)
        BY <2>5, <4>1
      <4>5. Band(n) = Band(lastFull)
        BY <1>1, <4>2, <4>3
      <4> QED BY <4>4, <4>5
    <3> QED BY <3>1, <3>2
  <2>6. ASSUME NEW bytes, NEW pos, NEW occ, TakeAt(bytes, pos, occ), bytes[pos] \in Event
        PROVE  Band(lastFull') = Band(currentSize')
    <3>1. /\ currentSize' = currentSize - bytes[pos].size
          /\ ReportDown(currentSize - bytes[pos].size)
      BY <2>6 DEF TakeAt
    <3>2. bytes[pos].size \in Nat
      BY <2>6, SizeFacts
    <3> QED BY <2>1, <2>5, <3>1, <3>2
  <2>7. CASE PopFromMemory
    <3>1. buf[readPos] \in Event
      BY <1>1, <2>7, NeedsLoadIsEmpty, BytesFacts DEF PopFromMemory, IInv, Layout, ChunkLayout
    <3> QED BY <2>6, <2>7, <3>1 DEF PopFromMemory
  <2>8. CASE PopFromFile
    <3>1. DOMAIN files # {} /\ TakeAt(files[OldestFile(files)].bytes, 0, files[OldestFile(files)].size)
      BY <2>8 DEF PopFromFile, Loaded
    <3>2. OldestFile(files) \in DOMAIN files
      BY <1>1, <3>1, OldestIsFirst DEF IInv, Layout
    <3>3. FileLayout(files[OldestFile(files)])
      BY <1>1, <3>2, LayoutFiles
    <3>4. files[OldestFile(files)].bytes[0] \in Event
      BY <3>3, FileFacts, BytesFacts
    <3> QED BY <2>6, <3>1, <3>4
  <2>9. CASE PopTimesOut
    BY <2>2, <2>9 DEF PopTimesOut, counts, progress
  <2>10. CASE SetProgressCallback
    BY <2>2, <2>10 DEF SetProgressCallback, counts
  <2>11. CASE UNCHANGED vars
    BY <2>2, <2>11 DEF vars, counts, progress
  <2> QED BY <1>1, <2>4, <2>7, <2>8, <2>9, <2>10, <2>11, PopNeverFails DEF Next, Pop
<1>2. IInv /\ IInv' /\ [Next]_vars =>
        [callback /\ Band(lastFull) = Band(currentSize)
           => Band(lastFull') = Band(currentSize')]_vars
  BY <1>1
<1>3. [][callback /\ Band(lastFull) = Band(currentSize)
           => Band(lastFull') = Band(currentSize')]_vars => ThresholdsAreReported
  BY PTL DEF ThresholdsAreReported, Band
<1> QED BY <1>2, <1>3, Invariance, PTL DEF Spec

-----------------------------------------------------------------------------
(* The order of the events, on a disk that may fail.  Once a file has      *)
(* failed to open every later event is swallowed by its stream, so the     *)
(* chunk and the files hold a part of the stream that no longer grows, and *)
(* mem_chunk_occupied_ and the files still describe it.                    *)

\* The chunk and the files up to number last hold the stream from head on.
HeldFrom(head, last) ==
  \E first, held, end :
    /\ Layout(buf, readPos, occupied, files, first, last, held, end)
    /\ head = end - held

HandedOutBefore(head) ==
  /\ taken \in Event \cup {NoEvent}
  /\ taken.at + taken.size <= head

Swallowing ==
  /\ writeFile = "failed" /\ tellp = -1 /\ writePos = NoPos
  /\ currentSequence \in Nat
  /\ \E head, last : /\ last < currentSequence
                     /\ HeldFrom(head, last)
                     /\ HandedOutBefore(head)

OrderInv == \/ IInv /\ HandedOutBefore(written - currentSize)
            \/ Swallowing

LEMMA HeldFacts ==
  ASSUME NEW head, NEW last, HeldFrom(head, last)
  PROVE  head \in Nat /\ last \in Nat /\ \A n \in DOMAIN files : n \in Nat /\ n <= last
BY DEF HeldFrom, Layout

LEMMA TakenFacts ==
  ASSUME NEW head, HandedOutBefore(head)
  PROVE  taken.at + taken.size \in Int
BY SizeFacts DEF HandedOutBefore, NoEvent

\* A pop takes the event at the head and moves the head behind it.
LEMMA PopAtHead ==
  ASSUME NEW head, NEW last, HeldFrom(head, last), PopFromMemory \/ PopFromFile
  PROVE  /\ taken' \in Event /\ taken'.at = head
         /\ HeldFrom(head + taken.size, last)'
<1>1. PICK first, held, end :
        /\ Layout(buf, readPos, occupied, files, first, last, held, end)
        /\ head = end - held
  BY DEF HeldFrom
<1>2. /\ held \in Nat /\ end \in Nat /\ first \in Nat \ {0} /\ last \in Nat
      /\ DOMAIN files = first .. last /\ ChunkLayout(buf, readPos, occupied)
  BY <1>1 DEF Layout
<1>3. ASSUME NEW bytes, NEW r, NEW occ, NEW fs, NEW from,
             Layout(bytes, r, occ, fs, from, last, held, end), r \in DOMAIN bytes,
             taken' = bytes[r], buf' = bytes, readPos' = r + bytes[r].size,
             occupied' = occ - bytes[r].size, files' = fs
      PROVE  /\ taken' \in Event /\ taken'.at = head
             /\ HeldFrom(head + taken.size, last)'
  <2>1. /\ taken' \in Event /\ taken'.at = end - held
        /\ Layout(buf', readPos', occupied', files', from, last, held - taken'.size, end)
    BY <1>3, TakeFirst
  <2>2. head + taken'.size = end - (held - taken'.size)
    BY <2>1, <1>1, <1>2, SizeFacts
  <2> QED BY <2>1, <2>2, <1>1 DEF HeldFrom
<1>4. CASE PopFromMemory
  <2>1. readPos \in DOMAIN buf
    BY <1>4 DEF PopFromMemory, NeedsLoad
  <2>2. /\ taken' = buf[readPos] /\ buf' = buf /\ readPos' = readPos + buf[readPos].size
        /\ occupied' = occupied - buf[readPos].size /\ files' = files
    BY <1>4 DEF PopFromMemory, TakeAt, disk
  <2> QED BY <2>1, <2>2, <1>1, <1>3
<1>5. CASE PopFromFile
  <2>1. occupied = 0
    <3> SUFFICES ASSUME occupied > 0 PROVE FALSE
      BY <1>2 DEF ChunkLayout
    <3>1. /\ readPos \in Nat /\ occupied \in Nat /\ readPos + occupied <= ChunkSize
          /\ IsBytes(buf) /\ Tiles(buf, readPos, readPos + occupied)
          /\ readPos \in DOMAIN buf
      BY <1>2 DEF ChunkLayout, Tiles
    <3>2. buf[readPos].size \in Nat /\ LengthWord < buf[readPos].size
      BY <3>1, BytesFacts, SizeFacts
    <3>3. readPos + buf[readPos].size <= readPos + occupied
      BY <3>1, AdvanceTiles
    <3> QED BY <1>5, <3>1, <3>2, <3>3 DEF PopFromFile, NeedsLoad
  <2>2. first <= last /\ OldestFile(files) = first
    BY <1>2, <1>5, OldestIsFirst DEF PopFromFile
  <2> DEFINE bytes == files[first].bytes
             rest == Without(files, first)
  <2>3. Layout(bytes, 0, files[first].size, rest, first + 1, last, held, end)
    BY <1>1, <2>1, <2>2, LoadOldest
  <2>4. 0 \in DOMAIN bytes
    <3>1. FileLayout(files[first])
      BY <1>1, <1>2, <2>2 DEF Layout
    <3> QED BY <3>1, FileFacts
  <2>5. /\ taken' = bytes[0] /\ buf' = bytes /\ readPos' = 0 + bytes[0].size
        /\ occupied' = files[first].size - bytes[0].size /\ files' = rest
    BY <1>5, <2>2 DEF PopFromFile, TakeAt, Loaded
  <2> HIDE DEF bytes, rest
  <2> QED BY <1>3, <2>3, <2>4, <2>5
<1> QED BY <1>4, <1>5

\* Culling moves the head forward.
LEMMA CullAtHead ==
  ASSUME NEW head, NEW last, HeldFrom(head, last), NEW s, NEW created,
         Settle(s, buf, occupied, files, created)
  PROVE  \E next \in Nat : head <= next /\ HeldFrom(next, last)'
<1>1. PICK first, held, end :
        /\ Layout(buf, readPos, occupied, files, first, last, held, end)
        /\ head = end - held
  BY DEF HeldFrom
<1>2. /\ held \in Nat /\ end \in Nat /\ held <= end /\ occupied \in Nat /\ occupied <= held
      /\ first \in Nat \ {0} /\ last \in Nat /\ DOMAIN files = first .. last
      /\ readPos' = readPos
  BY <1>1 DEF Layout, ChunkLayout, Settle
<1>3. CASE buf' = buf /\ occupied' = occupied /\ files' = files
  <2>1. Layout(buf', readPos', occupied', files', first, last, held, end)
    BY <1>1, <1>2, <1>3
  <2>2. head \in Nat /\ head <= head
    BY <1>1, <1>2
  <2>3. HeldFrom(head, last)'
    BY <1>1, <2>1 DEF HeldFrom
  <2> QED BY <2>2, <2>3
<1>4. CASE buf' = Zeroed /\ occupied' = 0 /\ files' = files
  <2>1. PICK next : next = end - (held - occupied)
    OBVIOUS
  <2>2. Layout(Zeroed, readPos, 0, files, first, last, held - occupied, end)
    BY <1>1, CullChunk
  <2>3. next \in Nat /\ head <= next
    BY <1>1, <1>2, <2>1
  <2>4. Layout(buf', readPos', occupied', files', first, last, held - occupied, end)
    BY <2>2, <1>2, <1>4
  <2>5. HeldFrom(next, last)'
    BY <2>1, <2>4 DEF HeldFrom
  <2> QED BY <2>3, <2>5
<1>5. CASE /\ occupied = 0 /\ DOMAIN files # {}
           /\ buf' = buf /\ occupied' = 0 /\ files' = Without(files, OldestFile(files))
  <2>1. first <= last /\ OldestFile(files) = first
    BY <1>2, <1>5, OldestIsFirst
  <2>2. PICK size, next : size = files[first].size /\ next = end - (held - size)
    OBVIOUS
  <2>3. /\ size <= held
        /\ Layout(buf, readPos, 0, Without(files, first), first + 1, last, held - size, end)
    BY <1>1, <1>5, <2>1, <2>2, CullOldest
  <2>4. size \in Nat
    <3>1. FileLayout(files[first])
      BY <1>1, <1>2, <2>1 DEF Layout
    <3> QED BY <2>2, <3>1, FileFacts
  <2>5. next \in Nat /\ head <= next
    <3>1. /\ held \in Nat /\ end \in Nat /\ held <= end /\ head = end - held
          /\ size \in Nat /\ next = end - (held - size)
      BY <1>1, <1>2, <2>2, <2>4
    <3> QED BY ONLY <3>1
  <2>6. Layout(buf', readPos', occupied', files', first + 1, last, held - size, end)
    BY <2>1, <2>3, <1>2, <1>5
  <2>7. HeldFrom(next, last)'
    BY <2>2, <2>6 DEF HeldFrom
  <2> QED BY <2>5, <2>7
<1>6. \/ buf' = buf /\ occupied' = occupied /\ files' = files
      \/ buf' = Zeroed /\ occupied' = 0 /\ files' = files
      \/ /\ occupied = 0 /\ DOMAIN files # {}
         /\ buf' = buf /\ occupied' = 0 /\ files' = Without(files, OldestFile(files))
  BY DEF Settle, Cull, CullMemory, CullFile, CullFails
<1> QED BY <1>3, <1>4, <1>5, <1>6

\* A step while later events are swallowed.
LEMMA SwallowingStep ==
  ASSUME Swallowing, [Next \/ \E s \in Sizes : DiskFailure(s)]_vars
  PROVE  /\ Swallowing'
         /\ taken' # taken => taken'.at >= taken.at + taken.size
<1>1. /\ writeFile = "failed" /\ tellp = -1 /\ writePos = NoPos
      /\ currentSequence \in Nat
  BY DEF Swallowing
<1>2. PICK head, last : /\ last < currentSequence
                        /\ HeldFrom(head, last)
                        /\ HandedOutBefore(head)
  BY DEF Swallowing
<1>3. head \in Nat /\ last \in Nat /\ \A n \in DOMAIN files : n \in Nat /\ n <= last
  BY <1>2, HeldFacts
<1>4. taken.at + taken.size \in Int /\ taken.at + taken.size <= head
  BY <1>2, TakenFacts DEF HandedOutBefore
<1> DEFINE Goal == /\ Swallowing'
                   /\ taken' # taken => taken'.at >= taken.at + taken.size
<1>5. ASSUME UNCHANGED <<writeFile, tellp, writePos, currentSequence>>,
             NEW next \in Nat, head <= next, HeldFrom(next, last)', taken' = taken
      PROVE  Goal
  <2>1. HandedOutBefore(next)'
    BY <1>2, <1>3, <1>4, <1>5 DEF HandedOutBefore
  <2> QED BY <1>1, <1>2, <1>5, <2>1 DEF Swallowing
<1>6. ASSUME UNCHANGED <<buf, readPos, writePos, occupied, files, writeFile, tellp,
                         currentSequence, taken>>
      PROVE  Goal
  <2>1. HeldFrom(head, last)'
    BY <1>2, <1>6 DEF HeldFrom
  <2> QED BY <1>3, <1>5, <1>6, <2>1
<1>7. ASSUME NEW s \in Sizes, Push(s) \/ DiskFailure(s) PROVE Goal
  <2>1. ~FitsMemory(s) /\ FitsFile(s)
    BY <1>1, SizeFacts DEF FitsMemory, FitsFile
  <2>2. PushToFailedFile(s)
    BY <1>1, <1>7, <2>1
      DEF Push, PushToMemory, PushToFile, PushToNewFile, DiskFailure,
          PushFindsNoDirectory, PushFailsToOpen
  <2>3. /\ Settle(s, buf, occupied, files, 0) /\ taken' = taken
        /\ UNCHANGED <<writeFile, tellp, writePos, currentSequence>>
    BY <1>1, <2>2 DEF PushToFailedFile, LeaveMemory, Settle
  <2>4. PICK next \in Nat : head <= next /\ HeldFrom(next, last)'
    BY <1>2, <2>3, CullAtHead
  <2> QED BY <1>5, <2>3, <2>4
<1>8. CASE PopFromMemory \/ PopFromFile
  <2>1. /\ taken' \in Event /\ taken'.at = head
        /\ HeldFrom(head + taken.size, last)'
    BY <1>2, <1>8, PopAtHead
  <2>2. UNCHANGED <<writeFile, tellp, writePos, currentSequence>>
    <3>1. CASE PopFromMemory
      BY <3>1 DEF PopFromMemory, disk
    <3>2. CASE PopFromFile
      <4>1. /\ DOMAIN files # {} /\ ResumeInMemory(OldestFile(files))
            /\ UNCHANGED <<tellp, currentSequence>>
        BY <3>2 DEF PopFromFile
      <4>2. OldestFile(files) \in DOMAIN files
        BY <1>2, <4>1, OldestIsFirst DEF HeldFrom, Layout
      <4>3. OldestFile(files) # currentSequence
        BY <1>1, <1>2, <1>3, <4>2
      <4> QED BY <4>1, <4>3 DEF ResumeInMemory
    <3> QED BY <1>8, <3>1, <3>2
  <2>3. HandedOutBefore(head + taken.size)'
    BY <2>1, <1>3, SizeFacts DEF HandedOutBefore
  <2>4. Swallowing'
    BY <1>1, <1>2, <2>1, <2>2, <2>3 DEF Swallowing
  <2> QED BY <1>3, <1>4, <2>1, <2>4
<1>9. CASE PopFails \/ PopTimesOut
  BY <1>6, <1>9 DEF PopFails, PopTimesOut, memory, disk
<1>10. CASE SetProgressCallback
  BY <1>6, <1>10 DEF SetProgressCallback, memory, disk
<1>11. CASE UNCHANGED vars
  BY <1>6, <1>11 DEF vars, memory, disk
<1> QED BY <1>7, <1>8, <1>9, <1>10, <1>11 DEF Next, Pop

\* A step of a cache whose disk has worked so far.
LEMMA WorkingStep ==
  ASSUME IInv, HandedOutBefore(written - currentSize),
         [Next \/ \E s \in Sizes : DiskFailure(s)]_vars
  PROVE  /\ OrderInv'
         /\ taken' # taken => taken'.at >= taken.at + taken.size
<1> DEFINE Goal == /\ OrderInv'
                   /\ taken' # taken => taken'.at >= taken.at + taken.size
<1>1. /\ currentSize \in Nat /\ written \in Nat /\ currentSize <= written
      /\ currentSequence \in Nat
      /\ Layout(buf, readPos, occupied, files, stats.files_destroyed + 1,
                currentSequence, currentSize, written)
      /\ WriteMode /\ Counted /\ Others
  BY DEF IInv, Layout
<1>2. taken.at + taken.size \in Int /\ taken.at + taken.size <= written - currentSize
  BY TakenFacts DEF HandedOutBefore
<1>3. PICK head : head = written - currentSize
  OBVIOUS
<1>4. HeldFrom(head, currentSequence)
  BY <1>1, <1>3 DEF HeldFrom
<1>5. ASSUME IInv', taken' = taken, written - currentSize <= written' - currentSize'
      PROVE  Goal
  <2>1. written' - currentSize' \in Int
    BY <1>5 DEF IInv, Layout
  <2>2. HandedOutBefore(written - currentSize)'
    BY <1>1, <1>2, <1>5, <2>1 DEF HandedOutBefore, Others
  <2> QED BY <1>5, <2>2 DEF OrderInv
<1>6. ASSUME NEW s \in Sizes, Push(s) PROVE Goal
  <2>1. IInv' /\ written - currentSize <= written' - currentSize'
    BY <1>6, PushToMemoryStep, PushToFileStep, PushToNewFileStep DEF Push
  <2>2. taken' = taken
    BY <1>6 DEF Push, PushToMemory, PushToFile, PushToNewFile, Settle
  <2> QED BY <1>5, <2>1, <2>2
<1>7. CASE PopFromMemory \/ PopFromFile
  <2>1. taken' \in Event /\ taken'.at = head
    BY <1>4, <1>7, PopAtHead
  <2>2. IInv'
    BY <1>7, PopFromMemoryStep, PopFromFileStep
  <2>3. written' = written /\ currentSize' = currentSize - taken'.size
    BY <1>7 DEF PopFromMemory, PopFromFile, TakeAt
  <2>4. HandedOutBefore(written - currentSize)'
    <3>1. taken'.at + taken'.size <= written' - currentSize'
      BY <1>1, <1>3, <2>1, <2>3, SizeFacts
    <3> QED BY <2>1, <3>1 DEF HandedOutBefore
  <2> QED BY <1>2, <1>3, <2>1, <2>2, <2>4 DEF OrderInv
<1>8. CASE PopTimesOut \/ SetProgressCallback \/ UNCHANGED vars
  <2>1. IInv'
    BY <1>8, NextIInv DEF Next, Pop
  <2>2. taken' = taken /\ written' = written /\ currentSize' = currentSize
    BY <1>8 DEF PopTimesOut, SetProgressCallback, vars, counts
  <2> QED BY <1>1, <1>5, <2>1, <2>2
<1>9. ASSUME NEW s \in Sizes, PushFindsNoDirectory(s) PROVE Goal
  <2>1. /\ writePos' = NoPos /\ threw' = TRUE
        /\ UNCHANGED <<buf, readPos, occupied, disk, counts, progress, taken>>
    BY <1>9 DEF PushFindsNoDirectory, LeaveMemory
  <2>2. WriteMode'
    BY <1>1, <2>1 DEF WriteMode, disk
  <2>3. Counted' /\ Others'
    BY <1>1, <2>1 DEF Counted, Others, disk, counts, progress
  <2>4. IInv' /\ written' = written /\ currentSize' = currentSize
    BY <1>1, <2>1, <2>2, <2>3 DEF IInv, disk, counts
  <2> QED BY <1>1, <1>5, <2>1, <2>4
<1>10. ASSUME NEW s \in Sizes, PushFailsToOpen(s) PROVE Goal
  <2>1. /\ writePos' = NoPos /\ writeFile' = "failed" /\ tellp' = -1
        /\ currentSequence' = currentSequence + 1
        /\ UNCHANGED <<buf, readPos, occupied, files, taken>>
    BY <1>10 DEF PushFailsToOpen, LeaveMemory
  <2>2. PICK last : last = currentSequence
    OBVIOUS
  <2>3. HeldFrom(head, last)'
    BY <1>4, <2>1, <2>2 DEF HeldFrom
  <2>4. HandedOutBefore(head)'
    BY <1>3, <2>1 DEF HandedOutBefore
  <2>5. last < currentSequence' /\ currentSequence' \in Nat
    BY <1>1, <2>1, <2>2
  <2>6. Swallowing'
    BY <2>1, <2>3, <2>4, <2>5 DEF Swallowing
  <2> QED BY <2>1, <2>6 DEF OrderInv
<1>11. ASSUME NEW s \in Sizes, PushToFailedFile(s) PROVE FALSE
  BY <1>1, <1>11 DEF PushToFailedFile, WriteMode
<1> QED
  BY <1>6, <1>7, <1>8, <1>9, <1>10, <1>11, PopNeverFails DEF Next, Pop, DiskFailure

\* TakenInOrder: when the disk refuses to make the directory or to open files, as often as
\* it may, and statistics and files drift apart, what is handed out keeps its order and
\* nothing is handed out twice. Every write to a file that is open, every read and every
\* removal is assumed to succeed.
THEOREM TakenStayInOrder == SpecFaultyDisk => TakenInOrder
<1>1. Init => OrderInv
  <2> SUFFICES ASSUME Init PROVE OrderInv
    OBVIOUS
  <2>1. IInv
    BY InitIInv
  <2>2. taken = NoEvent /\ written = 0 /\ currentSize = 0
    BY DEF Init
  <2>3. HandedOutBefore(written - currentSize)
    BY <2>2 DEF HandedOutBefore, NoEvent
  <2> QED BY <2>1, <2>3 DEF OrderInv
<1>2. OrderInv /\ [NextFaultyDisk]_vars
        => /\ OrderInv'
           /\ [taken' # taken => taken'.at >= taken.at + taken.size]_vars
  BY WorkingStep, SwallowingStep DEF OrderInv, NextFaultyDisk
<1> QED BY <1>1, <1>2, PTL DEF SpecFaultyDisk, TakenInOrder

-----------------------------------------------------------------------------
(* The size of a full cache.  A new file is made when an event does not    *)
(* fit behind the last one, so two files next to each other hold more than *)
(* a chunk; and a full cache culls a chunk for every one it makes.         *)

\* The bytes from one file to another are at least half of what their number allows,
\* and at most all of it.
Spaced(fs, first, last) ==
  \A m, n \in first .. last : m <= n =>
    /\ (n - m) * (ChunkSize + 1) <= 2 * (Limit(fs[n]) - Base(fs[m]))
    /\ Limit(fs[n]) - Base(fs[m]) <= (n - m + 1) * ChunkSize

Chunks(occ, first, last) == (last - first + 1) + (IF occ > 0 THEN 1 ELSE 0)

\* So many chunks hold less than MaxSize bytes when two of three are almost empty.
AreFew(chunks) == (chunks - 2) * (ChunkSize + 1) < 2 * MaxSize

BoundInv == /\ Spaced(files, stats.files_destroyed + 1, currentSequence)
            /\ AreFew(Chunks(occupied, stats.files_destroyed + 1, currentSequence))

LEMMA Products ==
  /\ \A a, b \in Int, c \in Nat : a <= b => a * c <= b * c
  /\ \A a, c \in Int : a * c \in Int /\ (a + 1) * c = a * c + c /\ (a + 2) * c = a * c + 2 * c
  /\ \A c \in Int : 0 * c = 0 /\ 1 * c = c
OBVIOUS

LEMMA FewerAreFew ==
  ASSUME NEW m \in Int, NEW n \in Int, m <= n, AreFew(n)
  PROVE  AreFew(m)
<1>1. (m - 2) * (ChunkSize + 1) <= (n - 2) * (ChunkSize + 1)
  BY Products
<1>2. /\ (m - 2) * (ChunkSize + 1) \in Int /\ (n - 2) * (ChunkSize + 1) \in Int
      /\ 2 * MaxSize \in Int
  BY Products
<1> QED BY <1>1, <1>2 DEF AreFew

LEMMA FileEnds ==
  ASSUME NEW bytes, NEW r, NEW occ, NEW fs, NEW first, NEW last, NEW held, NEW end,
         Layout(bytes, r, occ, fs, first, last, held, end)
  PROVE  /\ first \in Nat /\ last \in Nat /\ DOMAIN fs = first .. last
         /\ \A n \in first .. last :
              /\ Base(fs[n]) \in Nat /\ Limit(fs[n]) \in Nat
              /\ Limit(fs[n]) = Base(fs[n]) + fs[n].size
              /\ fs[n].size \in Nat /\ 0 < fs[n].size /\ fs[n].size <= ChunkSize
         /\ \A n \in first .. last : n < last => Base(fs[n + 1]) = Limit(fs[n])
<1>1. /\ first \in Nat /\ last \in Nat /\ DOMAIN fs = first .. last
      /\ \A n \in first .. last : FileLayout(fs[n])
      /\ \A n \in first .. last : n < last => Base(fs[n + 1]) = Limit(fs[n])
  BY DEF Layout
<1> QED BY <1>1, FileFacts DEF Limit

\* The last file grows.
LEMMA GrownIsSpaced ==
  ASSUME NEW fs, NEW grown, NEW first \in Nat, NEW last \in Nat,
         Spaced(fs, first, last), first <= last,
         \A n \in first .. last : /\ Base(fs[n]) \in Nat /\ Limit(fs[n]) \in Nat
                                  /\ Base(grown[n]) = Base(fs[n])
                                  /\ Limit(grown[n]) \in Nat,
         \A n \in first .. last : n < last => /\ Limit(grown[n]) = Limit(fs[n])
                                              /\ Base(fs[n + 1]) = Limit(fs[n]),
         Limit(fs[last]) <= Limit(grown[last]),
         Limit(grown[last]) <= Base(fs[last]) + ChunkSize
  PROVE  Spaced(grown, first, last)
<1> SUFFICES ASSUME NEW m \in first .. last, NEW n \in first .. last, m <= n
             PROVE  /\ (n - m) * (ChunkSize + 1) <= 2 * (Limit(grown[n]) - Base(grown[m]))
                    /\ Limit(grown[n]) - Base(grown[m]) <= (n - m + 1) * ChunkSize
  BY DEF Spaced
<1>1. /\ (n - m) * (ChunkSize + 1) <= 2 * (Limit(fs[n]) - Base(fs[m]))
      /\ Limit(fs[n]) - Base(fs[m]) <= (n - m + 1) * ChunkSize
  BY DEF Spaced
<1>2. /\ Base(fs[m]) \in Nat /\ Base(grown[m]) = Base(fs[m])
      /\ Limit(fs[n]) \in Nat /\ Limit(grown[n]) \in Nat
      /\ Base(fs[n]) \in Nat
      /\ n \in Int /\ m \in Int
  OBVIOUS
<1>3. CASE n < last
  BY <1>1, <1>2, <1>3
<1>4. CASE n = last
  <2>1. (n - m) * (ChunkSize + 1) <= 2 * (Limit(grown[n]) - Base(grown[m]))
    <3>1. (n - m) * (ChunkSize + 1) \in Int
      BY <1>2, Products
    <3> QED BY <1>1, <1>2, <1>4, <3>1
  <2>2. Limit(grown[n]) - Base(grown[m]) <= (n - m + 1) * ChunkSize
    <3>1. CASE m = n
      <4>1. (n - m + 1) * ChunkSize = ChunkSize
        BY <3>1, <1>2, Products
      <4> QED BY <1>2, <1>4, <3>1, <4>1
    <3>2. CASE m < n
      <4>1. n - 1 \in first .. last /\ m <= n - 1 /\ n - 1 < last
        BY <1>4, <3>2
      <4>2. Base(fs[n]) = Limit(fs[n - 1]) /\ Limit(fs[n - 1]) \in Nat
        BY <1>2, <4>1
      <4>3. Limit(fs[n - 1]) - Base(fs[m]) <= ((n - 1) - m + 1) * ChunkSize
        BY <4>1 DEF Spaced
      <4>4. /\ (n - m + 1) * ChunkSize = (n - m) * ChunkSize + ChunkSize
            /\ (n - m) * ChunkSize \in Int /\ (n - 1) - m + 1 = n - m
        BY <1>2, Products
      <4> QED BY <1>2, <1>4, <4>2, <4>3, <4>4
    <3> QED BY <1>2, <3>1, <3>2
  <2> QED BY <2>1, <2>2
<1> QED BY <1>3, <1>4

\* A file is added, whose first event did not fit the last one.
LEMMA NewIsSpaced ==
  ASSUME NEW fs, NEW more, NEW first \in Nat, NEW last \in Nat,
         Spaced(fs, first, last), first <= last + 1,
         \A n \in first .. last : /\ Base(fs[n]) \in Nat /\ Limit(fs[n]) \in Nat
                                  /\ more[n] = fs[n],
         \A n \in first .. last : n < last => Base(fs[n + 1]) = Limit(fs[n]),
         NEW size \in Nat, size <= ChunkSize,
         Base(more[last + 1]) \in Nat, Limit(more[last + 1]) = Base(more[last + 1]) + size,
         first <= last => /\ Base(more[last + 1]) = Limit(fs[last])
                          /\ Limit(fs[last]) - Base(fs[last]) + size > ChunkSize
  PROVE  Spaced(more, first, last + 1)
<1> SUFFICES ASSUME NEW m \in first .. last + 1, NEW n \in first .. last + 1, m <= n
             PROVE  /\ (n - m) * (ChunkSize + 1) <= 2 * (Limit(more[n]) - Base(more[m]))
                    /\ Limit(more[n]) - Base(more[m]) <= (n - m + 1) * ChunkSize
  BY DEF Spaced
<1>1. CASE n <= last
  BY <1>1 DEF Spaced
<1>2. CASE n = last + 1 /\ m = last + 1
  <2>1. /\ (n - m) * (ChunkSize + 1) = 0
        /\ (n - m + 1) * ChunkSize = ChunkSize
    BY <1>2, Products
  <2> QED BY <1>2, <2>1
<1>3. CASE n = last + 1 /\ m <= last
  <2>1. /\ m \in first .. last /\ last \in first .. last /\ more[m] = fs[m]
        /\ Base(fs[m]) \in Nat /\ Limit(fs[last]) \in Nat /\ Base(fs[last]) \in Nat
        /\ Base(more[n]) = Limit(fs[last]) /\ Limit(more[n]) = Limit(fs[last]) + size
        /\ Limit(fs[last]) - Base(fs[last]) + size > ChunkSize
    BY <1>3
  <2>2. Limit(more[n]) - Base(more[m]) <= (n - m + 1) * ChunkSize
    <3>1. Limit(fs[last]) - Base(fs[m]) <= (last - m + 1) * ChunkSize
      BY <1>3, <2>1 DEF Spaced
    <3>2. /\ (last - m + 1) * ChunkSize \in Int
          /\ ((last - m + 1) + 1) * ChunkSize = (last - m + 1) * ChunkSize + ChunkSize
          /\ (last - m + 1) + 1 = n - m + 1
      BY <1>3, Products
    <3> QED BY <2>1, <3>1, <3>2
  <2>3. (n - m) * (ChunkSize + 1) <= 2 * (Limit(more[n]) - Base(more[m]))
    <3>1. CASE m = last
      <4>1. (n - m) * (ChunkSize + 1) = ChunkSize + 1
        BY <1>3, <3>1, Products
      <4> QED BY <2>1, <3>1, <4>1
    <3>2. CASE m < last
      <4>1. last - 1 \in first .. last /\ m <= last - 1
        BY <2>1, <3>2
      <4>2. (last - 1 - m) * (ChunkSize + 1) <= 2 * (Limit(fs[last - 1]) - Base(fs[m]))
        BY <2>1, <4>1 DEF Spaced
      <4>3. Limit(fs[last - 1]) \in Nat /\ Base(fs[last]) = Limit(fs[last - 1])
        <5>1. last - 1 < last /\ (last - 1) + 1 = last
          OBVIOUS
        <5> QED BY <4>1, <5>1
      <4>4. /\ (last - 1 - m) * (ChunkSize + 1) \in Int
            /\ ((last - 1 - m) + 2) * (ChunkSize + 1)
                 = (last - 1 - m) * (ChunkSize + 1) + 2 * (ChunkSize + 1)
            /\ (last - 1 - m) + 2 = n - m
        BY <1>3, Products
      <4> QED BY <2>1, <4>2, <4>3, <4>4
    <3> QED BY <1>3, <3>1, <3>2
  <2> QED BY <2>2, <2>3
<1> QED BY <1>1, <1>2, <1>3

\* Files that hold less than MaxSize bytes are few.
LEMMA LightIsFew ==
  ASSUME NEW bytes, NEW r, NEW occ, NEW fs, NEW first, NEW last, NEW held, NEW end,
         Layout(bytes, r, occ, fs, first, last, held, end),
         Spaced(fs, first, last), held < MaxSize
  PROVE  AreFew(Chunks(occ, first, last))
<1>1. /\ occ \in Nat /\ held \in Nat /\ end \in Nat
      /\ first \in Nat /\ last \in Nat /\ first <= last + 1
      /\ first <= last => Base(fs[first]) = end - held + occ /\ Limit(fs[last]) = end
  BY DEF Layout, ChunkLayout
<1>2. Chunks(occ, first, last) \in Int /\ Chunks(occ, first, last) <= (last - first) + 2
  BY <1>1 DEF Chunks
<1>3. AreFew((last - first) + 2)
  <2>1. ((last - first) + 2) - 2 = last - first
    BY <1>1
  <2>2. CASE first <= last
    <3>1. (last - first) * (ChunkSize + 1) <= 2 * (Limit(fs[last]) - Base(fs[first]))
      BY <1>1, <2>2 DEF Spaced
    <3>2. (last - first) * (ChunkSize + 1) \in Int
      BY <1>1, Products
    <3> QED BY <1>1, <2>1, <2>2, <3>1, <3>2 DEF AreFew
  <2>3. CASE first = last + 1
    <3>1. (last - first) * (ChunkSize + 1) <= 0 * (ChunkSize + 1)
      BY <1>1, <2>3, Products
    <3>2. (last - first) * (ChunkSize + 1) \in Int /\ 0 * (ChunkSize + 1) = 0
      BY <1>1, Products
    <3> QED BY <2>1, <3>1, <3>2 DEF AreFew
  <2> QED BY <1>1, <2>2, <2>3
<1> QED BY <1>1, <1>2, <1>3, FewerAreFew

\* After a push a cache that is not full has few chunks, and a full one has lost one.
LEMMA SettleKeepsBound ==
  ASSUME NEW s \in Sizes, NEW bytes, NEW occ, NEW fs, NEW created, NEW first, NEW last,
         Layout(bytes, readPos, occ, fs, first, last, currentSize + s, written + s),
         Counted, first = stats.files_destroyed + 1,
         Spaced(fs, first, last), AreFew(Chunks(occ, first, last) - 1),
         Settle(s, bytes, occ, fs, created)
  PROVE  /\ Spaced(files', stats'.files_destroyed + 1, last)
         /\ AreFew(Chunks(occupied', stats'.files_destroyed + 1, last))
<1> DEFINE full == currentSize + s
<1>1. /\ full \in Nat /\ occ \in Nat
      /\ first \in Nat /\ last \in Nat /\ DOMAIN fs = first .. last
      /\ first > last => full = occ
      /\ stats \in [files_created : Nat, files_destroyed : Nat, bytes_culled : Nat]
  BY DEF Layout, ChunkLayout, Counted
<1> HIDE DEF full
<1>2. CASE ~IsFull(full)
  <2>1. full < MaxSize
    BY <1>1, <1>2 DEF IsFull
  <2>2. /\ occupied' = occ /\ files' = fs
        /\ stats' = [stats EXCEPT !.files_created = @ + created]
    BY <1>2 DEF Settle, full
  <2>3. stats'.files_destroyed + 1 = first
    BY <1>1, <2>2
  <2>4. AreFew(Chunks(occ, first, last))
    BY <2>1, LightIsFew DEF full
  <2> QED BY <2>2, <2>3, <2>4
<1>3. CASE IsFull(full)
  <2>1. full >= MaxSize /\ Cull(bytes, occ, fs, created, full)
    BY <1>3 DEF Settle, IsFull, full
  <2>2. CASE CullMemory(bytes, occ, fs, created, full)
    <3>1. /\ occ > 0 /\ occupied' = 0 /\ files' = fs
          /\ stats' = [stats EXCEPT !.files_created = @ + created,
                                    !.bytes_culled = @ + occ]
      BY <2>2 DEF CullMemory
    <3>2. stats'.files_destroyed + 1 = first
      BY <1>1, <3>1
    <3>3. Chunks(0, first, last) = Chunks(occ, first, last) - 1
      BY <1>1, <3>1 DEF Chunks
    <3> QED BY <3>1, <3>2, <3>3
  <2>3. CASE CullFile(bytes, occ, fs, created, full)
    <3>1. /\ occ = 0 /\ DOMAIN fs # {} /\ occupied' = 0
          /\ files' = Without(fs, OldestFile(fs))
          /\ stats' = [stats EXCEPT !.files_created = @ + created,
                                    !.files_destroyed = @ + 1,
                                    !.bytes_culled = @ + fs[OldestFile(fs)].size]
      BY <2>3 DEF CullFile
    <3>2. first <= last /\ OldestFile(fs) = first
      BY <1>1, <3>1, OldestIsFirst
    <3>3. stats'.files_destroyed + 1 = first + 1
      BY <1>1, <3>1
    <3>4. \A n \in first + 1 .. last : n \in first .. last /\ files'[n] = fs[n]
      BY <1>1, <3>1, <3>2 DEF Without, Restrict
    <3>5. Spaced(files', first + 1, last)
      BY <3>4 DEF Spaced
    <3>6. Chunks(0, first + 1, last) = Chunks(occ, first, last) - 1
      <4>1. Chunks(0, first + 1, last) = last - (first + 1) + 1
        BY <1>1 DEF Chunks
      <4>2. Chunks(occ, first, last) = last - first + 1
        BY <1>1, <3>1 DEF Chunks
      <4> QED BY <1>1, <4>1, <4>2
    <3> QED BY <3>1, <3>3, <3>5, <3>6
  <2>4. CASE CullFails(bytes, occ, fs, created, full)
    BY <2>4, SettleNeverThrows DEF CullFails
  <2> QED BY <2>1, <2>2, <2>3, <2>4 DEF Cull
<1> QED BY <1>2, <1>3

LEMMA PushKeepsBound ==
  ASSUME IInv, BoundInv, NEW s \in Sizes, Push(s)
  PROVE  BoundInv'
<1> DEFINE first == stats.files_destroyed + 1
           last == currentSequence
           e == Pushed(s)
<1>1. /\ Layout(buf, readPos, occupied, files, first, last, currentSize, written)
      /\ WriteMode /\ Counted
      /\ Spaced(files, first, last) /\ AreFew(Chunks(occupied, first, last))
  BY DEF IInv, BoundInv
<1>2. /\ occupied \in Nat /\ first \in Nat /\ last \in Nat
      /\ first <= last + 1 /\ DOMAIN files = first .. last
      /\ \A n \in first .. last : FileLayout(files[n])
      /\ first <= last => Limit(files[last]) = written
      /\ e \in Event /\ e.at = written /\ e.size = s
      /\ s \in Nat /\ 0 < s /\ s <= ChunkSize /\ written \in Nat
  BY <1>1, PushedFacts, SizeFacts DEF Layout, ChunkLayout
<1>3. /\ \A n \in first .. last :
           /\ Base(files[n]) \in Nat /\ Limit(files[n]) \in Nat
           /\ Limit(files[n]) = Base(files[n]) + files[n].size
           /\ files[n].size \in Nat
      /\ \A n \in first .. last : n < last => Base(files[n + 1]) = Limit(files[n])
  <2>1. Layout(buf, readPos, occupied, files, first, last, currentSize, written)
    BY <1>1
  <2> HIDE DEF first, last
  <2> QED BY <2>1, FileEnds
<1> HIDE DEF e
<1>4. CASE PushToMemory(s)
  <2> DEFINE bytes == Laid(buf, writePos, e)
  <2>1. /\ writePos = readPos + occupied /\ DOMAIN files = {} /\ writePos + s <= ChunkSize
    BY <1>1, <1>4 DEF PushToMemory, FitsMemory, WriteMode
  <2>2. Layout(bytes, readPos, occupied + s, files, first, last,
               currentSize + s, written + s)
    BY <1>1, <1>2, <2>1, LayInChunk
  <2>3. /\ Settle(s, bytes, occupied + s, files, 0) /\ currentSequence' = last
    BY <1>4 DEF PushToMemory, e
  <2> HIDE DEF bytes, first, last
  <2>4. /\ Chunks(occupied + s, first, last) - 1 \in Int
        /\ Chunks(occupied, first, last) \in Int
        /\ Chunks(occupied + s, first, last) - 1 <= Chunks(occupied, first, last)
    BY <1>2 DEF Chunks
  <2>5. AreFew(Chunks(occupied + s, first, last) - 1)
    BY <1>1, <2>4, FewerAreFew
  <2>6. first = stats.files_destroyed + 1
    BY DEF first
  <2> QED BY <1>1, <2>2, <2>3, <2>5, <2>6, SettleKeepsBound DEF BoundInv
<1>5. CASE PushToFile(s)
  <2> DEFINE grown == [files EXCEPT ![currentSequence] =
                         [bytes |-> Laid(@.bytes, tellp, e), size |-> @.size + s]]
  <2>1. /\ last \in DOMAIN files /\ files[last].size = tellp
        /\ tellp + s <= ChunkSize
    BY <1>1, <1>5 DEF PushToFile, WriteMode, FitsFile
  <2>2. Layout(buf, readPos, occupied, grown, first, last, currentSize + s, written + s)
    BY <1>1, <1>2, <2>1, LayInFile
  <2>3. /\ Settle(s, buf, occupied, grown, 0) /\ currentSequence' = last
    BY <1>5, <2>1 DEF PushToFile, e
  <2>4. /\ \A n \in first .. last : n # last => grown[n] = files[n]
        /\ grown[last] = [bytes |-> Laid(files[last].bytes, files[last].size, e),
                          size |-> files[last].size + e.size]
    BY <1>2, <2>1
  <2>5. /\ Base(grown[last]) = Base(files[last]) /\ grown[last].size = files[last].size + s
    BY <1>2, <2>1, <2>4, GrownFileLayout
  <2> HIDE DEF grown
  <2>6. /\ Limit(grown[last]) = Base(files[last]) + (files[last].size + s)
    BY <2>5 DEF Limit
  <2>7. /\ \A n \in first .. last : /\ Base(grown[n]) = Base(files[n])
                                    /\ Limit(grown[n]) \in Nat
        /\ \A n \in first .. last : n < last => Limit(grown[n]) = Limit(files[n])
    <3>1. \A n \in first .. last : n < last => n # last
      BY <1>2
    <3>2. Limit(grown[last]) \in Nat
      BY <1>2, <1>3, <2>1, <2>6
    <3> HIDE DEF first, last
    <3> QED BY <1>3, <2>4, <2>5, <3>1, <3>2
  <2>8. /\ Limit(files[last]) <= Limit(grown[last])
        /\ Limit(grown[last]) <= Base(files[last]) + ChunkSize
        /\ first <= last
    BY <1>2, <1>3, <2>1, <2>6
  <2>9. Spaced(grown, first, last)
    BY <1>1, <1>2, <1>3, <2>7, <2>8, GrownIsSpaced
  <2>10. AreFew(Chunks(occupied, first, last) - 1)
    <3>1. Chunks(occupied, first, last) \in Int
      BY <1>2 DEF Chunks
    <3> HIDE DEF first, last
    <3> QED BY <1>1, <3>1, FewerAreFew
  <2> HIDE DEF first, last
  <2>11. first = stats.files_destroyed + 1
    BY DEF first
  <2> QED BY <1>1, <2>2, <2>3, <2>9, <2>10, <2>11, SettleKeepsBound DEF BoundInv
<1>6. CASE PushToNewFile(s)
  <2> DEFINE more == [n \in DOMAIN files \cup {currentSequence + 1} |->
                        IF n = currentSequence + 1
                        THEN [bytes |-> Laid(Zeroed, 0, e), size |-> s]
                        ELSE files[n]]
  <2>1. Layout(buf, readPos, occupied, more, first, last + 1, currentSize + s, written + s)
    BY <1>1, <1>2, LayInNewFile
  <2>2. Settle(s, buf, occupied, more, 1) /\ currentSequence' = last + 1
    BY <1>6 DEF PushToNewFile, e
  <2>3. /\ \A n \in first .. last : more[n] = files[n]
        /\ more[last + 1] = [bytes |-> Laid(Zeroed, 0, e), size |-> s]
    BY <1>2
  <2>4. Base(more[last + 1]) = written /\ more[last + 1].size = s
    <3>1. more[last + 1] = [bytes |-> Laid(Zeroed, 0, e), size |-> e.size]
      BY <1>2, <2>3
    <3> QED BY <1>2, <3>1, NewFileLayout
  <2> HIDE DEF more
  <2>5. Limit(more[last + 1]) = Base(more[last + 1]) + s
    BY <2>4 DEF Limit
  <2>6. first <= last => /\ Base(more[last + 1]) = Limit(files[last])
                         /\ Limit(files[last]) - Base(files[last]) + s > ChunkSize
    <3> SUFFICES ASSUME first <= last
                 PROVE  /\ Base(more[last + 1]) = Limit(files[last])
                        /\ Limit(files[last]) - Base(files[last]) + s > ChunkSize
      OBVIOUS
    <3>1. DOMAIN files # {} /\ last \in first .. last
      BY <1>2
    <3>2. writeFile = "open" /\ files[last].size = tellp
      BY <1>1, <3>1 DEF WriteMode
    <3>3. ~(tellp + s <= ChunkSize)
      BY <1>6, <3>2 DEF PushToNewFile, FitsFile
    <3> QED BY <1>2, <1>3, <2>4, <3>1, <3>2, <3>3
  <2>7. Spaced(more, first, last + 1)
    BY <1>1, <1>2, <1>3, <2>3, <2>4, <2>5, <2>6, NewIsSpaced
  <2>8. Chunks(occupied, first, last + 1) - 1 = Chunks(occupied, first, last)
    BY <1>2 DEF Chunks
  <2> HIDE DEF first, last
  <2>9. first = stats.files_destroyed + 1
    BY DEF first
  <2> QED BY <1>1, <2>1, <2>2, <2>7, <2>8, <2>9, SettleKeepsBound DEF BoundInv
<1> QED BY <1>4, <1>5, <1>6 DEF Push

LEMMA PopKeepsBound ==
  ASSUME IInv, BoundInv, PopFromMemory \/ PopFromFile
  PROVE  BoundInv'
<1> DEFINE first == stats.files_destroyed + 1
           last == currentSequence
<1>1. /\ Spaced(files, first, last) /\ AreFew(Chunks(occupied, first, last))
      /\ stats \in [files_created : Nat, files_destroyed : Nat, bytes_culled : Nat]
  BY DEF IInv, BoundInv, Counted
<1>2. /\ occupied \in Nat /\ first \in Nat /\ last \in Nat /\ DOMAIN files = first .. last
      /\ occupied' \in Nat
  <2>1. IInv'
    BY PopFromMemoryStep, PopFromFileStep
  <2> QED BY <2>1 DEF IInv, Layout, ChunkLayout
<1>3. currentSequence' = last
  BY DEF PopFromMemory, PopFromFile, disk
<1>4. CASE PopFromMemory
  <2>1. readPos \in DOMAIN buf
    BY <1>4, NeedsLoadIsEmpty DEF PopFromMemory
  <2>2. occupied > 0
    <3>1. /\ buf[readPos].size <= occupied /\ buf[readPos] \in Event
      BY <2>1, TakeFirst DEF IInv
    <3> QED BY <1>2, <3>1, SizeFacts
  <2>3. files' = files /\ stats' = stats
    BY <1>4 DEF PopFromMemory, disk
  <2> HIDE DEF first, last
  <2>4. /\ Chunks(occupied, first, last) \in Int /\ Chunks(occupied', first, last) \in Int
        /\ Chunks(occupied', first, last) <= Chunks(occupied, first, last)
    BY <1>2, <2>2 DEF Chunks
  <2>5. AreFew(Chunks(occupied', first, last))
    BY <1>1, <2>4, FewerAreFew
  <2> QED BY <1>1, <1>3, <2>3, <2>5 DEF BoundInv, first
<1>5. CASE PopFromFile
  <2>1. occupied = 0 /\ DOMAIN files # {}
    BY <1>5, NeedsLoadIsEmpty DEF PopFromFile
  <2>2. first <= last /\ OldestFile(files) = first
    BY <1>2, <2>1, OldestIsFirst
  <2>3. /\ files' = Without(files, first)
        /\ stats' = [stats EXCEPT !.files_destroyed = @ + 1]
    BY <1>5, <2>2 DEF PopFromFile
  <2>4. stats'.files_destroyed + 1 = first + 1
    BY <1>1, <2>3
  <2> HIDE DEF first, last
  <2>5. \A n \in first + 1 .. last : n \in first .. last /\ files'[n] = files[n]
    BY <1>2, <2>3 DEF Without, Restrict
  <2>6. Spaced(files', first + 1, last)
    BY <1>1, <2>5 DEF Spaced
  <2>7. /\ Chunks(occupied, first, last) \in Int /\ Chunks(occupied', first + 1, last) \in Int
        /\ Chunks(occupied', first + 1, last) <= Chunks(occupied, first, last)
    <3>1. Chunks(occupied, first, last) = last - first + 1
      BY <1>2, <2>1 DEF Chunks
    <3>2. \/ Chunks(occupied', first + 1, last) = last - (first + 1) + 1
          \/ Chunks(occupied', first + 1, last) = (last - (first + 1) + 1) + 1
      BY <1>2 DEF Chunks
    <3> QED BY <1>2, <3>1, <3>2
  <2>8. AreFew(Chunks(occupied', first + 1, last))
    BY <1>1, <2>7, FewerAreFew
  <2> QED BY <1>3, <2>4, <2>6, <2>8 DEF BoundInv
<1> QED BY <1>4, <1>5

\* SizeIsBounded: however the sizes of the events alternate, a cache that culls one
\* chunk at a time stays below twice its maximum and two chunks more.
THEOREM SizeStaysBounded == Spec => []SizeIsBounded
<1>1. Init => BoundInv
  <2> SUFFICES ASSUME Init PROVE BoundInv
    OBVIOUS
  <2>1. /\ stats.files_destroyed + 1 = 1 /\ currentSequence = 0 /\ occupied = 0
    BY DEF Init
  <2>2. Layout(buf, readPos, 0, files, 1, 0, 0, 0)
    BY <2>1, InitIInv DEF IInv, Init
  <2>3. Spaced(files, 1, 0)
    BY DEF Spaced
  <2>4. AreFew(Chunks(0, 1, 0))
    BY <2>2, <2>3, LightIsFew
  <2> QED BY <2>1, <2>3, <2>4 DEF BoundInv
<1>2. IInv /\ BoundInv /\ [Next]_vars => BoundInv'
  <2> SUFFICES ASSUME IInv, BoundInv, [Next]_vars PROVE BoundInv'
    OBVIOUS
  <2>1. ASSUME UNCHANGED <<files, stats, currentSequence, occupied>> PROVE BoundInv'
    BY <2>1 DEF BoundInv
  <2>2. ASSUME NEW s \in Sizes, Push(s) PROVE BoundInv'
    BY <2>2, PushKeepsBound
  <2>3. CASE PopFromMemory \/ PopFromFile
    BY <2>3, PopKeepsBound
  <2>4. CASE PopTimesOut
    BY <2>1, <2>4 DEF PopTimesOut, memory, disk, counts
  <2>5. CASE SetProgressCallback
    BY <2>1, <2>5 DEF SetProgressCallback, memory, disk, counts
  <2>6. CASE UNCHANGED vars
    BY <2>1, <2>6 DEF vars, memory, disk, counts
  <2> QED BY <2>2, <2>3, <2>4, <2>5, <2>6, PopNeverFails DEF Next, Pop
<1>3. IInv /\ BoundInv => SizeIsBounded
  <2> SUFFICES ASSUME IInv, BoundInv PROVE SizeIsBounded
    OBVIOUS
  <2> DEFINE first == stats.files_destroyed + 1
             last == currentSequence
             chunks == Chunks(occupied, first, last)
  <2>1. /\ Layout(buf, readPos, occupied, files, first, last, currentSize, written)
        /\ Spaced(files, first, last) /\ AreFew(chunks)
    BY DEF IInv, BoundInv
  <2>2. /\ occupied \in Nat /\ occupied <= ChunkSize
        /\ currentSize \in Nat /\ written \in Nat
        /\ first \in Nat /\ last \in Nat /\ first <= last + 1
        /\ first > last => currentSize = occupied
        /\ first <= last => /\ Base(files[first]) = written - currentSize + occupied
                            /\ Limit(files[last]) = written
    BY <2>1 DEF Layout, ChunkLayout
  <2> HIDE DEF first, last
  <2>3. CASE first > last
    BY <2>2, <2>3 DEF SizeIsBounded
  <2>4. CASE first <= last
    <3> DEFINE count == last - first + 1
    <3>1. currentSize <= occupied + count * ChunkSize
      <4>1. Limit(files[last]) - Base(files[first]) <= count * ChunkSize
        BY <2>1, <2>2, <2>4 DEF Spaced
      <4>2. count * ChunkSize \in Int
        BY <2>2, Products
      <4> HIDE DEF count
      <4> QED BY <2>2, <2>4, <4>1, <4>2
    <3>2. chunks \in Int /\ count \in Int
      BY <2>2 DEF Chunks
    <3>3. currentSize <= chunks * ChunkSize
      <4>1. CASE occupied = 0
        <5>1. chunks = count
          BY <2>2, <4>1 DEF Chunks
        <5> HIDE DEF chunks, count
        <5>2. count * ChunkSize \in Int
          BY <3>2, Products
        <5> QED BY <2>2, <3>1, <4>1, <5>1, <5>2
      <4>2. CASE occupied > 0
        <5>1. chunks = count + 1
          BY <2>2, <4>2 DEF Chunks
        <5> HIDE DEF chunks, count
        <5>2. chunks * ChunkSize = count * ChunkSize + ChunkSize /\ count * ChunkSize \in Int
          BY <3>2, <5>1, Products
        <5> QED BY <2>2, <3>1, <5>2
      <4> QED BY <2>2, <4>1, <4>2
    <3> HIDE DEF chunks, count
    <3>4. chunks * ChunkSize = (chunks - 2) * ChunkSize + 2 * ChunkSize
      <4>1. ((chunks - 2) + 2) * ChunkSize = (chunks - 2) * ChunkSize + 2 * ChunkSize
        BY <3>2, Products
      <4>2. (chunks - 2) + 2 = chunks
        BY <3>2
      <4> QED BY <4>1, <4>2
    <3>5. (chunks - 2) * ChunkSize < 2 * MaxSize
      <4>1. CASE chunks >= 2
        <5>1. (chunks - 2) * ChunkSize <= (chunks - 2) * (ChunkSize + 1)
          <6>1. /\ (chunks - 2) * ChunkSize = ChunkSize * (chunks - 2)
                /\ (chunks - 2) * (ChunkSize + 1) = (ChunkSize + 1) * (chunks - 2)
            BY <3>2
          <6>2. ChunkSize * (chunks - 2) <= (ChunkSize + 1) * (chunks - 2)
            BY <3>2, <4>1, Products
          <6> QED BY <6>1, <6>2
        <5>2. (chunks - 2) * (ChunkSize + 1) < 2 * MaxSize
          BY <2>1 DEF AreFew
        <5>3. /\ (chunks - 2) * ChunkSize \in Int /\ (chunks - 2) * (ChunkSize + 1) \in Int
              /\ 2 * MaxSize \in Int
          BY <3>2, Products
        <5> QED BY <5>1, <5>2, <5>3
      <4>2. CASE chunks < 2
        <5>1. (chunks - 2) * ChunkSize <= 0 * ChunkSize
          BY <3>2, <4>2, Products
        <5>2. (chunks - 2) * ChunkSize \in Int /\ 0 * ChunkSize = 0
          BY <3>2, Products
        <5> QED BY <5>1, <5>2
      <4> QED BY <3>2, <4>1, <4>2
    <3>6. (chunks - 2) * ChunkSize \in Int /\ currentSize \in Int
      BY <2>2, <3>2, Products
    <3> QED BY <3>3, <3>4, <3>5, <3>6 DEF SizeIsBounded
  <2> QED BY <2>2, <2>3, <2>4
<1> QED BY <1>1, <1>2, <1>3, Invariance, PTL DEF Spec
=============================================================================

------------------------ MODULE RecordingExportsProofs ------------------------
(* Theorems about RecordingExports, for every value of its constants. *)
EXTENDS RecordingExports, TLAPS, FiniteSetTheorems

USE SizesAssumption, BoundsAssumption

--------------------------------------------------------------------------------
(* Offsets, chunks and units *)

LEMMA DivMod ==
    \A n \in Nat : /\ n \div ChunkSize \in Nat /\ n % ChunkSize \in 0..(ChunkSize - 1)
                   /\ n = (n \div ChunkSize) * ChunkSize + (n % ChunkSize)
OBVIOUS

LEMMA DivUnique ==
    ASSUME NEW q \in Nat, NEW m \in 0..(ChunkSize - 1)
    PROVE  /\ q * ChunkSize + m \in Nat
           /\ (q * ChunkSize + m) \div ChunkSize = q /\ (q * ChunkSize + m) % ChunkSize = m
OBVIOUS

LEMMA DivMono ==
    ASSUME NEW a \in Nat, NEW b \in Nat, a <= b
    PROVE  a \div ChunkSize <= b \div ChunkSize
OBVIOUS

LEMMA ChunksAre == \A o \in Offsets : o \div ChunkSize \in Chunks
BY DivMono, DivMod DEF Chunks, Offsets

\* The unit of a file at an offset.
UnitAt(ch, o) ==
    LET c == ch[o \div ChunkSize] n == (o % ChunkSize) + 1 IN IF n <= Len(c) THEN c[n] ELSE <<"missing">>

\* Where the file of a run that builds it ends, and its unit at an offset before: stored,
\* or still in the writer.
EndOf(x) == x.base * ChunkSize + Len(x.parts)
Built(x, ch, o) == IF o \div ChunkSize < x.base THEN UnitAt(ch, o) ELSE x.parts[(o % ChunkSize) + 1]

\* The runs there are: the writer's parts are less than a chunk, the unsaved results a batch
\* at most.
OKRun == {x \in Run : Len(x.parts) < ChunkSize /\ Cardinality(x.unsaved) <= CheckpointEvery}
OKFile == {ch \in [Chunks -> Seq(Units)] : \A c \in Chunks : Len(ch[c]) <= ChunkSize}

LEMMA ChunksBelow ==
    ASSUME NEW c \in Chunks
    PROVE  c \in Nat /\ \A d \in Nat : d <= c => d \in Chunks
<1> DEFINE m == (NumRecordings + 2) \div ChunkSize
<1>1. m \in Nat /\ c \in 0..m
  BY DivMod DEF Chunks
<1>2. \A d \in 0..m : d \in Chunks
  BY DEF Chunks
<1> HIDE DEF m
<1> QED BY <1>1, <1>2

LEMMA RunFields ==
    ASSUME NEW x \in OKRun
    PROVE  /\ x.base \in Chunks /\ x.base \in Nat /\ x.parts \in Seq(Units)
           /\ Len(x.parts) \in 0..(ChunkSize - 1) /\ EndOf(x) \in Nat
           /\ EndOf(x) \div ChunkSize = x.base /\ EndOf(x) % ChunkSize = Len(x.parts)
<1>1. x.base \in Chunks /\ x.parts \in Seq(Units) /\ Len(x.parts) < ChunkSize
  BY DEF OKRun, Run
<1>2. x.base \in Nat /\ Len(x.parts) \in 0..(ChunkSize - 1)
  BY <1>1 DEF Chunks
<1> QED BY <1>1, <1>2, DivUnique DEF EndOf

\* What comes before the end is in an earlier chunk, or in the writer.
LEMMA Before ==
    ASSUME NEW x \in OKRun, NEW o \in Nat, o < EndOf(x)
    PROVE  \/ o \div ChunkSize < x.base
           \/ o \div ChunkSize = x.base /\ (o % ChunkSize) + 1 \in 1..Len(x.parts)
<1> DEFINE q == o \div ChunkSize
<1>0. q \in Nat /\ x.base \in Nat /\ EndOf(x) \in Nat /\ EndOf(x) \div ChunkSize = x.base
  BY DivMod, RunFields
<1>1. q <= x.base
  <2>1. o <= EndOf(x)
    BY <1>0
  <2>2. o \div ChunkSize <= EndOf(x) \div ChunkSize
    BY <1>0, <2>1, DivMono
  <2> QED BY <1>0, <2>2
<1>2. CASE o \div ChunkSize = x.base
  <2>1. o = x.base * ChunkSize + (o % ChunkSize) /\ o % ChunkSize \in 0..(ChunkSize - 1)
    BY <1>2, DivMod
  <2> QED BY <1>2, <2>1, RunFields DEF EndOf
<1>3. q < x.base \/ q = x.base
  <2> HIDE DEF q
  <2> QED BY <1>0, <1>1
<1> QED BY <1>2, <1>3

\* A chunk that is stored puts in the file what was built, and changes nothing before it.
LEMMA Storing ==
    ASSUME NEW x \in OKRun, NEW ch \in OKFile, NEW s \in Seq(Units), Len(s) <= ChunkSize, Len(s) >= Len(x.parts),
           \A n \in 1..Len(x.parts) : s[n] = x.parts[n]
    PROVE  /\ [ch EXCEPT ![x.base] = s] \in OKFile
           /\ \A o \in Nat : o < EndOf(x) => UnitAt([ch EXCEPT ![x.base] = s], o) = Built(x, ch, o)
           /\ \A o \in Nat : o < EndOf(x) => Built(x, [ch EXCEPT ![x.base] = s], o) = Built(x, ch, o)
<1> DEFINE new == [ch EXCEPT ![x.base] = s]
<1>1. x.base \in Chunks /\ Len(x.parts) \in Nat
  BY RunFields
<1>2. new \in OKFile
  BY <1>1 DEF OKFile
<1>3. \A c \in Chunks : new[c] = IF c = x.base THEN s ELSE ch[c]
  BY <1>1 DEF OKFile
<1>4. ASSUME NEW o \in Nat, o < EndOf(x)
      PROVE  UnitAt(new, o) = Built(x, ch, o) /\ Built(x, new, o) = Built(x, ch, o)
  <2>1. CASE o \div ChunkSize < x.base
    <3>1. o \div ChunkSize \in Chunks
      <4>1. o \div ChunkSize \in Nat /\ x.base \in Nat
        BY <1>1, DivMod, ChunksBelow
      <4>2. o \div ChunkSize <= x.base
        BY <2>1, <4>1
      <4> QED BY <1>1, <4>1, <4>2, ChunksBelow
    <3>2. new[o \div ChunkSize] = ch[o \div ChunkSize]
      BY <1>1, <1>3, <2>1, <3>1 DEF Chunks
    <3> HIDE DEF new
    <3> QED BY <2>1, <3>2 DEF UnitAt, Built
  <2>2. CASE o \div ChunkSize = x.base /\ (o % ChunkSize) + 1 \in 1..Len(x.parts)
    <3>1. new[o \div ChunkSize] = s
      BY <1>1, <1>3, <2>2
    <3>2. (o % ChunkSize) + 1 <= Len(s) /\ s[(o % ChunkSize) + 1] = x.parts[(o % ChunkSize) + 1]
      BY <2>2, <1>1
    <3>3. ~ (o \div ChunkSize < x.base)
      BY <2>2, <1>1 DEF Chunks
    <3> HIDE DEF new
    <3> QED BY <3>1, <3>2, <3>3 DEF UnitAt, Built
  <2> QED BY <1>4, <2>1, <2>2, Before
<1> QED BY <1>2, <1>4

\* What comes before the end stays where it is, and is in the file if the file was written.
Kept(x, y, ch, new) ==
    /\ \A o \in Nat : o < EndOf(x) => Built(y, new, o) = Built(x, ch, o)
    /\ new = ch \/ \A o \in Nat : o < EndOf(x) => UnitAt(new, o) = Built(x, ch, o)

\* A unit is appended.
Grown(x, y, rest, ch, new, unit) ==
    /\ y \in OKRun /\ new \in OKFile
    /\ y.at = rest.at /\ y.todo = rest.todo /\ y.unsaved = rest.unsaved /\ y.entries = rest.entries
    /\ EndOf(y) = EndOf(x) + 1
    /\ Kept(x, y, ch, new)
    /\ Built(y, new, EndOf(x)) = unit
    /\ y.parts = <<>> => Len(new[y.base - 1]) = ChunkSize

LEMMA Putting ==
    ASSUME NEW r \in Runs, run[r] \in OKRun, chunk \in OKFile, NEW unit \in Units,
           NEW rest \in OKRun, rest.base = run[r].base, rest.parts = run[r].parts,
           EndOf(run[r]) <= NumRecordings + 1, Put(r, unit, rest)
    PROVE  \/ Goto(r, "release") /\ chunk' = chunk /\ job.status = "gone"
           \/ \E y : run' = [run EXCEPT ![r] = y] /\ Grown(run[r], y, rest, chunk, chunk', unit)
<1> DEFINE x == run[r]
           parts == Append(x.parts, unit)
<1>1. x.base \in Chunks /\ x.base \in Nat /\ x.parts \in Seq(Units) /\ Len(x.parts) \in 0..(ChunkSize - 1)
  BY RunFields
<1>6. EndOf(x) \in Nat /\ EndOf(x) \div ChunkSize = x.base /\ EndOf(x) % ChunkSize = Len(x.parts)
  BY RunFields
<1>2. /\ parts \in Seq(Units) /\ Len(parts) = Len(x.parts) + 1 /\ parts[Len(x.parts) + 1] = unit
      /\ \A n \in 1..Len(x.parts) : parts[n] = x.parts[n]
  BY <1>1
<1> HIDE DEF parts
<1>3. CASE Len(parts) < ChunkSize
  <2> DEFINE y == [rest EXCEPT !.parts = parts]
  <2>1. run' = [run EXCEPT ![r] = y] /\ chunk' = chunk
    BY <1>3 DEF Put, parts
  <2>2. /\ y \in OKRun /\ y.at = rest.at /\ y.todo = rest.todo /\ y.unsaved = rest.unsaved
        /\ y.entries = rest.entries /\ y.base = x.base /\ y.parts = parts
    BY <1>2, <1>3 DEF OKRun, Run
  <2> HIDE DEF y
  <2>3. EndOf(y) = EndOf(x) + 1
    <3>1. EndOf(y) = x.base * ChunkSize + (Len(x.parts) + 1) /\ EndOf(x) = x.base * ChunkSize + Len(x.parts)
      BY <1>2, <2>2 DEF EndOf
    <3> DEFINE k == x.base * ChunkSize
    <3>2. k \in Nat /\ Len(x.parts) \in Nat
      BY <1>1
    <3> HIDE DEF k
    <3> QED BY <3>1, <3>2 DEF k
  <2>4. ASSUME NEW o \in Nat, o < EndOf(x)
        PROVE  Built(y, chunk, o) = Built(x, chunk, o)
    <3>1. o \div ChunkSize < x.base \/ (o % ChunkSize) + 1 \in 1..Len(x.parts)
      BY <2>4, Before
    <3> QED BY <1>2, <2>2, <3>1 DEF Built
  <2>5. Built(y, chunk, EndOf(x)) = unit
    BY <1>1, <1>2, <1>6, <2>2 DEF Built
  <2>6. y.parts # <<>>
    BY <1>1, <1>2, <2>2
  <2>7. Grown(x, y, rest, chunk, chunk', unit)
    BY <2>1, <2>2, <2>3, <2>4, <2>5, <2>6 DEF Grown, Kept
  <2> QED BY <2>1, <2>7
<1>4. CASE ~ (Len(parts) < ChunkSize) /\ job.status = "gone"
  BY <1>4 DEF Put, parts
<1>5. CASE ~ (Len(parts) < ChunkSize) /\ job.status # "gone"
  <2> DEFINE y == [rest EXCEPT !.base = @ + 1, !.parts = <<>>]
             new == [chunk EXCEPT ![x.base] = parts]
  <2>1. run' = [run EXCEPT ![r] = y] /\ chunk' = new
    BY <1>5 DEF Put, parts
  <2>2. Len(parts) = ChunkSize
    BY <1>1, <1>2, <1>5
  <2>3. EndOf(x) + 1 = (x.base + 1) * ChunkSize
    <3>1. Len(x.parts) = ChunkSize - 1 /\ EndOf(x) = x.base * ChunkSize + Len(x.parts)
      BY <1>1, <1>2, <2>2 DEF EndOf
    <3> QED BY <1>1, <3>1
  <2>4. x.base + 1 \in Chunks
    <3>1. EndOf(x) + 1 \in Offsets
      BY <1>6 DEF Offsets
    <3>2. (EndOf(x) + 1) \div ChunkSize = x.base + 1
      <4>1. x.base + 1 \in Nat /\ 0 \in 0..(ChunkSize - 1)
        BY <1>1
      <4>2. ((x.base + 1) * ChunkSize + 0) \div ChunkSize = x.base + 1
        BY <4>1, DivUnique
      <4>3. (x.base + 1) * ChunkSize + 0 = EndOf(x) + 1
        BY <1>1, <1>6, <2>3
      <4> QED BY <4>2, <4>3
    <3> QED BY <3>1, <3>2, ChunksAre
  <2>5. /\ y \in OKRun /\ y.at = rest.at /\ y.todo = rest.todo /\ y.unsaved = rest.unsaved
        /\ y.entries = rest.entries /\ y.base = x.base + 1 /\ y.parts = <<>> /\ Len(y.parts) = 0
    <3>1. <<>> \in Seq(Units) /\ Len(<<>>) = 0 /\ 0 < ChunkSize /\ rest.base + 1 \in Chunks /\ rest.base = x.base
      BY <2>4
    <3>2. y \in Run /\ y.unsaved = rest.unsaved /\ y.parts = <<>> /\ y.base = rest.base + 1
      BY <3>1 DEF OKRun, Run
    <3>3. y.at = rest.at /\ y.todo = rest.todo /\ y.entries = rest.entries
      BY DEF OKRun, Run
    <3> QED BY <3>1, <3>2, <3>3 DEF OKRun
  <2>6. /\ new \in OKFile
        /\ \A o \in Nat : o < EndOf(x) => UnitAt(new, o) = Built(x, chunk, o)
    <3>1. Len(parts) <= ChunkSize /\ Len(parts) >= Len(x.parts)
      BY <1>1, <1>2, <2>2
    <3> QED BY <1>1, <1>2, <3>1, Storing
  <2>7. new[x.base] = parts
    BY <1>1 DEF OKFile
  <2> HIDE DEF y, new
  <2>8. EndOf(y) = EndOf(x) + 1
    BY <2>3, <2>5, <1>1, <1>6 DEF EndOf
  <2>9. ASSUME NEW o \in Nat, o < EndOf(x)
        PROVE  Built(y, new, o) = Built(x, chunk, o)
    <3>1. o \div ChunkSize < y.base
      <4>1. o \div ChunkSize \in Nat /\ (o \div ChunkSize < x.base \/ o \div ChunkSize = x.base)
        BY <2>9, Before, DivMod
      <4> QED BY <1>1, <2>5, <4>1
    <3> QED BY <2>6, <2>9, <3>1 DEF Built
  <2>10. Built(y, new, EndOf(x)) = unit
    <3>1. EndOf(x) \div ChunkSize < y.base
      BY <1>1, <1>6, <2>5
    <3>2. UnitAt(new, EndOf(x)) = unit
      BY <1>1, <1>2, <1>6, <2>7 DEF UnitAt
    <3> QED BY <3>1, <3>2 DEF Built
  <2>11. Len(new[y.base - 1]) = ChunkSize
    <3>1. y.base - 1 = x.base
      BY <1>1, <2>5
    <3> QED BY <2>2, <2>7, <3>1
  <2>12. Grown(x, y, rest, chunk, chunk', unit)
    BY <2>1, <2>5, <2>6, <2>8, <2>9, <2>10, <2>11 DEF Grown, Kept
  <2> QED BY <2>1, <2>12
<1> QED BY <1>3, <1>4, <1>5

\* The writer's parts are stored, and stay in the writer.
LEMMA Flushing ==
    ASSUME NEW r \in Runs, run[r] \in OKRun, chunk \in OKFile, NEW next, Flush(r, next)
    PROVE  \/ Goto(r, "release") /\ chunk' = chunk /\ job.status = "gone"
           \/ /\ Goto(r, next) /\ chunk' \in OKFile
              /\ \A o \in Nat : o < EndOf(run[r]) =>
                    /\ UnitAt(chunk', o) = Built(run[r], chunk, o)
                    /\ Built(run[r], chunk', o) = Built(run[r], chunk, o)
              /\ run[r].parts = <<>> => chunk' = chunk
              /\ run[r].parts # <<>> => chunk'[run[r].base] = run[r].parts
<1> DEFINE x == run[r]
<1>1. x.base \in Chunks /\ x.base \in Nat /\ x.parts \in Seq(Units) /\ Len(x.parts) \in 0..(ChunkSize - 1)
  BY RunFields
<1>2. CASE x.parts = <<>>
  <2>1. Goto(r, next) /\ chunk' = chunk
    BY <1>2 DEF Flush
  <2>2. ASSUME NEW o \in Nat, o < EndOf(x)
        PROVE  UnitAt(chunk, o) = Built(x, chunk, o)
    <3>1. o \div ChunkSize < x.base
      BY <1>2, <2>2, Before
    <3> QED BY <3>1 DEF Built
  <2> QED BY <1>2, <2>1, <2>2
<1>3. CASE x.parts # <<>> /\ job.status = "gone"
  BY <1>3 DEF Flush
<1>4. CASE x.parts # <<>> /\ job.status # "gone"
  <2> DEFINE new == [chunk EXCEPT ![x.base] = x.parts]
  <2>1. Goto(r, next) /\ chunk' = new
    BY <1>4 DEF Flush
  <2>2. /\ new \in OKFile
        /\ \A o \in Nat : o < EndOf(x) => UnitAt(new, o) = Built(x, chunk, o)
        /\ \A o \in Nat : o < EndOf(x) => Built(x, new, o) = Built(x, chunk, o)
    <3>1. Len(x.parts) <= ChunkSize /\ Len(x.parts) >= Len(x.parts)
      BY <1>1
    <3> QED BY <1>1, <3>1, Storing
  <2>3. new[x.base] = x.parts
    BY <1>1 DEF OKFile
  <2> HIDE DEF new
  <2> QED BY <1>4, <2>1, <2>2, <2>3
<1> QED BY <1>2, <1>3, <1>4

--------------------------------------------------------------------------------
(* What a run knows of the file *)

Gone == job.status = "gone"

\* The recordings a run has downloaded and not recorded yet, and all that are in its file.
DoneOf(x) == {<<u.i, u.row.at>> : u \in {v \in x.unsaved : v.row.status = "DONE"}}
All(x, E) == E \cup DoneOf(x)

\* Recordings fill a file up to n.
Dense(E, n) ==
    /\ \A e \in E : e[2] < n
    /\ \A o \in 0..(n - 1) : \E e \in E : e[2] = o

Batching == {"fetch", "save items", "save job"}
Ending == {"reload", "summary", "directory", "flush"}
Blank == {"idle", "again", "items"}
Over == {"fail", "release", "give up", "requeue"}

\* There is room for what is still to be appended.
Room(x) ==
    /\ x.at \in Batching => EndOf(x) + Cardinality(x.todo) <= NumRecordings
    /\ x.at \in {"reload", "summary"} => EndOf(x) <= NumRecordings
    /\ x.at = "directory" => EndOf(x) <= NumRecordings + 1
    /\ x.at \in {"flush", "finish"} => EndOf(x) <= NumRecordings + 2
    /\ x.at = "open" => \E n \in Nat : Dense(x.entries, n) /\ n + Cardinality(x.todo) <= NumRecordings

\* A recording is downloaded once: it is either recorded, or in the batch, or still to do.
Batch(x, E) ==
    /\ x.at \in {"open"} \cup Batching => \A e \in E : e[1] \notin x.todo
    /\ x.at \in Batching => \A u \in x.unsaved :
          /\ u.i \notin x.todo /\ u.row.status \in {"DONE", "FAILED"}
          /\ \A v \in x.unsaved : v.i = u.i => v = u
    /\ x.at \in {"fetch", "save items"} => \A e \in E, u \in x.unsaved : u.i # e[1]
    /\ x.at \in Blank \cup {"open"} \cup Ending => x.unsaved = {}

\* What is recorded, and what is going to be, is in the file at its offset; at the end of
\* the archive there are the summary and the directory of what is recorded.
OnFile(x, E, ch) ==
    /\ x.at = "open" => x.entries = E
    /\ x.at \in Batching \cup Ending =>
          \A e \in All(x, E) : e[2] < EndOf(x) /\ Built(x, ch, e[2]) = Audio(e[1])
    /\ x.at \in Batching => Dense(All(x, E), EndOf(x))
    /\ x.at = "save items" => \A e \in All(x, E) : UnitAt(ch, e[2]) = Audio(e[1])
    /\ x.at = "save job" => All(x, E) = E
    /\ x.at \in {"summary", "directory", "flush", "finish"} => x.entries = E /\ E # {}
    /\ x.at = "directory" => EndOf(x) >= 1 /\ Built(x, ch, EndOf(x) - 1) = Summary
    /\ x.at = "flush" => /\ EndOf(x) >= 2 /\ Built(x, ch, EndOf(x) - 1) = Directory(E)
                         /\ Built(x, ch, EndOf(x) - 2) = Summary
                         /\ (x.parts = <<>> => Len(ch[x.base - 1]) = ChunkSize)
    /\ x.at = "finish" => /\ UnitAt(ch, EndOf(x) - 1) = Directory(E)
                          /\ UnitAt(ch, EndOf(x) - 2) = Summary
                          /\ Len(ch[(EndOf(x) - 1) \div ChunkSize]) = ((EndOf(x) - 1) % ChunkSize) + 1

Good(x, E, ch, gone) == Room(x) /\ Batch(x, E) /\ (~ gone => OnFile(x, E, ch))

\* A run that does nothing to the file any more, or yet.
Inert(x) == x.at \in Over \/ (x.at \in Blank /\ x.unsaved = {})
LEMMA InertGood ==
    ASSUME NEW x, Inert(x)
    PROVE  \A E, ch, gone : Good(x, E, ch, gone)
BY DEF Inert, Good, Room, Batch, OnFile, Over, Blank, Batching, Ending

\* The shutdown's mark on a run is none of the file's business.
LEMMA Alike ==
    ASSUME NEW x, NEW y, y.at = x.at, y.base = x.base, y.parts = x.parts, y.todo = x.todo,
           y.unsaved = x.unsaved, y.entries = x.entries
    PROVE  \A E, ch, gone : Good(x, E, ch, gone) => Good(y, E, ch, gone)
<1>1. EndOf(y) = EndOf(x) /\ DoneOf(y) = DoneOf(x) /\ (\A E : All(y, E) = All(x, E))
      /\ (\A ch, o : Built(y, ch, o) = Built(x, ch, o))
  BY DEF EndOf, DoneOf, All, Built
<1>2. Room(x) => Room(y)
  BY <1>1 DEF Room
<1>3. \A E : Batch(x, E) => Batch(y, E)
  BY DEF Batch
<1>4. \A E, ch : OnFile(x, E, ch) => OnFile(y, E, ch)
  <2> SUFFICES ASSUME NEW E, NEW ch, OnFile(x, E, ch) PROVE OnFile(y, E, ch)
    OBVIOUS
  <2>1. All(y, E) = All(x, E) /\ \A o : Built(y, ch, o) = Built(x, ch, o)
    BY <1>1
  <2> QED BY <1>1, <2>1 DEF OnFile
<1> QED BY <1>2, <1>3, <1>4 DEF Good

--------------------------------------------------------------------------------
(* The invariant *)

Rest ==
    /\ queue \in 0..MaxMessages
    /\ sweep \in [Sweeps -> {"idle", "found", "enqueue"}]
    /\ client \in [Clients -> {"idle", "start", "reset", "requeue"}]
    /\ retries \in 0..MaxRetries
    /\ faults \in 0..MaxFaults
    /\ overridden \in BOOLEAN /\ shared \in BOOLEAN

\* One run is at work at most.
Alone == \A r, q \in Working : r = q

\* The file of a completed export.
Whole(E, ch, size) ==
    /\ E # {} /\ UnitAt(ch, size - 1) = Directory(E) /\ UnitAt(ch, size - 2) = Summary
    /\ Len(ch[(size - 1) \div ChunkSize]) = ((size - 1) % ChunkSize) + 1

\* The stored file, whoever is at work.
Filed(E, ch) ==
    /\ \A e \in E : UnitAt(ch, e[2]) = Audio(e[1])
    /\ \E n \in Nat : Dense(E, n)

Shapes == job \in Job /\ item \in [Recordings -> Item] /\ chunk \in OKFile /\ run \in [Runs -> OKRun] /\ Rest
Sound ==
    /\ Shapes
    /\ Alone /\ (job.status = "COMPLETED" => Working = {})
    /\ Filed(Entries, chunk)
    /\ Gone => Entries = {}
    /\ job.status = "COMPLETED" => Whole(Entries, chunk, job.size)
    /\ \A r \in Runs : Good(run[r], Entries, chunk, Gone)

LEMMA ShapesAreTypes == Shapes <=> TypeOK
<1>1. run \in [Runs -> OKRun] <=>
        run \in [Runs -> Run]
        /\ \A r \in Runs : Len(run[r].parts) < ChunkSize /\ Cardinality(run[r].unsaved) <= CheckpointEvery
  BY DEF OKRun
<1>2. chunk \in OKFile <=> chunk \in [Chunks -> Seq(Units)] /\ \A c \in Chunks : Len(chunk[c]) <= ChunkSize
  BY DEF OKFile
<1> QED BY <1>1, <1>2 DEF Shapes, TypeOK, Rest

LEMMA IdleRun == Idle \in OKRun /\ Inert(Idle) /\ Idle.at = "idle"
<1>1. 0 \in Chunks
  BY DivMod DEF Chunks
<1>2. Idle \in Run /\ Idle.parts = <<>> /\ Idle.unsaved = {} /\ Idle.at = "idle"
  BY <1>1 DEF Idle, Run, Phases
<1>3. Len(<<>>) = 0 /\ Cardinality({}) = 0
  BY FS_EmptySet
<1>4. Idle \in OKRun
  <2>1. Len(Idle.parts) < ChunkSize /\ Cardinality(Idle.unsaved) <= CheckpointEvery
    BY <1>2, <1>3
  <2> QED BY <1>2, <2>1 DEF OKRun
<1> QED BY <1>2, <1>4 DEF Inert, Blank

LEMMA AgainRun ==
    ASSUME NEW b \in BOOLEAN
    PROVE  /\ [Idle EXCEPT !.at = "again", !.leaving = b] \in OKRun
           /\ Inert([Idle EXCEPT !.at = "again", !.leaving = b])
           /\ [Idle EXCEPT !.at = "again", !.leaving = b].at = "again"
<1> DEFINE x == [Idle EXCEPT !.at = "again", !.leaving = b]
<1> SUFFICES x \in OKRun /\ Inert(x) /\ x.at = "again"
  OBVIOUS
<1>1. Idle \in OKRun /\ Idle.unsaved = {}
  BY IdleRun DEF Idle
<1>2. x \in Run /\ x.parts = Idle.parts /\ x.unsaved = Idle.unsaved /\ x.at = "again"
  BY <1>1 DEF OKRun, Run, Phases
<1> HIDE DEF x
<1>3. x \in OKRun
  BY <1>1, <1>2 DEF OKRun
<1> QED BY <1>1, <1>2, <1>3 DEF Inert, Blank

LEMMA GotoRun ==
    ASSUME Sound, NEW r \in Runs, NEW phase \in Phases
    PROVE  /\ [run[r] EXCEPT !.at = phase] \in OKRun /\ [run[r] EXCEPT !.at = phase].at = phase
           /\ Goto(r, phase) => run' = [run EXCEPT ![r] = [run[r] EXCEPT !.at = phase]]
<1>1. run[r] \in OKRun /\ run \in [Runs -> OKRun]
  BY DEF Sound, Shapes
<1>2. [run[r] EXCEPT !.at = phase] \in OKRun /\ [run[r] EXCEPT !.at = phase].at = phase
  BY <1>1 DEF OKRun, Run
<1> QED BY <1>2 DEF Goto

\* Another run than the one at work has nothing to do with the file.
LEMMA Bystanders ==
    ASSUME Sound, NEW r \in Working, NEW q \in Runs \ {r}
    PROVE  q \notin Working /\ Inert(run[q])
<1>1. q \notin Working
  BY DEF Sound, Alone
<1>2. run[q].at \in {"idle", "again"}
  BY <1>1 DEF Working, At
<1>3. run[q].unsaved = {}
  BY <1>2 DEF Sound, Good, Batch, Blank
<1> QED BY <1>1, <1>2, <1>3 DEF Inert, Blank

\* A step of the run at work keeps the invariant when it leaves the run, and the file, well.
LEMMA Works ==
    ASSUME Sound, NEW r \in Working, NEW x \in OKRun, run' = [run EXCEPT ![r] = x],
           job' \in Job, item' \in [Recordings -> Item], chunk' \in OKFile, Rest',
           Gone' <=> Gone, Gone => Entries' = {}, Filed(Entries', chunk'),
           job'.status = "COMPLETED" => x.at = "idle" /\ Whole(Entries', chunk', job'.size),
           Good(x, Entries', chunk', Gone)
    PROVE  Sound'
<1>1. r \in Runs /\ run \in [Runs -> OKRun]
  BY DEF Working, Sound, Shapes
<1>2. \A q \in Runs : run'[q] = IF q = r THEN x ELSE run[q]
  BY <1>1
<1>3. run' \in [Runs -> OKRun]
  BY <1>1
<1>4. \A q \in Runs : Good(run'[q], Entries', chunk', Gone')
  <2>1. \A q \in Runs \ {r} : Good(run[q], Entries', chunk', Gone')
    BY Bystanders, InertGood
  <2> QED BY <1>2, <2>1
<1>5. \A q \in Working' : q = r /\ x.at # "idle"
  <2>1. Working' = {q \in Runs : run'[q].at # "idle" /\ run'[q].at # "again"}
    BY DEF Working, At
  <2>2. \A q \in Runs \ {r} : ~ (run[q].at # "idle" /\ run[q].at # "again")
    BY Bystanders DEF Working, At
  <2> QED BY <1>2, <2>1, <2>2
<1>6. Alone' /\ (job'.status = "COMPLETED" => Working' = {})
  BY <1>5 DEF Alone
<1> QED BY <1>3, <1>4, <1>6 DEF Sound, Shapes, Gone

\* A step that does not touch the file, nor what the runs know of it.
LEMMA Frames ==
    ASSUME Sound, job' \in Job, run' \in [Runs -> OKRun], Rest', UNCHANGED <<item, chunk>>,
           Gone' <=> Gone,
           job'.status = "COMPLETED" => job.status = "COMPLETED" /\ job'.size = job.size,
           \A q \in Runs : Inert(run'[q]) \/ Good(run'[q], Entries, chunk, Gone),
           Working' \subseteq Working
    PROVE  Sound'
<1>1. Entries' = Entries
  BY DEF Entries
<1>2. \A q \in Runs : Good(run'[q], Entries', chunk', Gone')
  BY <1>1, InertGood
<1>3. Alone' /\ (job'.status = "COMPLETED" => Working' = {})
  BY DEF Alone, Sound
<1> QED BY <1>1, <1>2, <1>3 DEF Sound, Shapes, Gone

--------------------------------------------------------------------------------
(* Rows *)

LEMMA Rests ==
    ASSUME Sound, UNCHANGED <<sweep, client, retries, overridden, shared>>, UNCHANGED queue \/ queue' = Enqueued,
           UNCHANGED faults \/ Fault
    PROVE  Rest'
<1>1. Rest
  BY DEF Sound, Shapes
<1>2. queue' \in 0..MaxMessages
  BY <1>1 DEF Rest, Enqueued
<1>3. faults' \in 0..MaxFaults
  BY <1>1 DEF Rest, Fault
<1> QED BY <1>1, <1>2, <1>3 DEF Rest

LEMMA EntriesAre ==
    ASSUME item \in [Recordings -> Item]
    PROVE  /\ Entries \subseteq Recordings \X Offsets
           /\ \A i \in Recordings : item[i].status = "DONE" => <<i, item[i].at>> \in Entries
           /\ \A e \in Entries : item[e[1]].status = "DONE" /\ item[e[1]].at = e[2]
BY DEF Entries, Item

LEMMA JobWrites ==
    ASSUME Sound, NEW row \in Job, row.status # "gone", Write(row)
    PROVE  /\ job' \in Job /\ (Gone' <=> Gone)
           /\ job' = row \/ (Gone /\ job' = job)
BY DEF Sound, Shapes, Write, Gone

\* The recordings that are recorded and those still to do are no more than there are.
LEMMA Counted ==
    ASSUME item \in [Recordings -> Item], NEW n \in Nat, Dense(Entries, n)
    PROVE  /\ IsFiniteSet({i \in Recordings : item[i].status = "PENDING"})
           /\ n + Cardinality({i \in Recordings : item[i].status = "PENDING"}) <= NumRecordings
<1> DEFINE K == {i \in Recordings : item[i].status = "DONE"}
           P == {i \in Recordings : item[i].status = "PENDING"}
           f == [i \in K |-> item[i].at]
<1>1. /\ IsFiniteSet(Recordings) /\ Cardinality(Recordings) = NumRecordings
  BY FS_Interval DEF Recordings
<1>2. /\ IsFiniteSet(K) /\ IsFiniteSet(P) /\ Cardinality(K) \in Nat /\ Cardinality(P) \in Nat
      /\ K \cap P = {} /\ K \cup P \in SUBSET Recordings
  <2>1. K \in SUBSET Recordings /\ P \in SUBSET Recordings
    OBVIOUS
  <2> QED BY <1>1, <2>1, FS_Subset, FS_CardinalityType
<1>3. Cardinality(K \cup P) = Cardinality(K) + Cardinality(P) /\ Cardinality(K \cup P) <= NumRecordings
  <2>1. Cardinality(K \cup P) = Cardinality(K) + Cardinality(P) - Cardinality({})
    BY <1>2, FS_Union
  <2>2. Cardinality(K \cup P) <= Cardinality(Recordings)
    BY <1>1, <1>2, FS_Subset
  <2> QED BY <1>1, <1>2, <2>1, <2>2, FS_EmptySet
<1>4. f \in Surjection(K, 0..(n - 1))
  <2>1. \A i \in K : item[i].at \in 0..(n - 1)
    <3> TAKE i \in K
    <3>1. <<i, item[i].at>> \in Entries
      BY EntriesAre
    <3>2. item[i].at \in Nat /\ item[i].at < n
      BY <3>1 DEF Dense, Item, Offsets
    <3> QED BY <3>2
  <2>2. \A o \in 0..(n - 1) : \E i \in K : f[i] = o
    <3> TAKE o \in 0..(n - 1)
    <3>1. PICK e \in Entries : e[2] = o
      BY DEF Dense
    <3>2. e[1] \in K /\ item[e[1]].at = o
      BY <3>1, EntriesAre
    <3> QED BY <3>2
  <2>3. f \in [K -> 0..(n - 1)]
    BY <2>1
  <2> QED BY <2>2, <2>3 DEF Surjection
<1>5. Cardinality(0..(n - 1)) = n
  BY FS_Interval
<1>6. n <= Cardinality(K)
  BY <1>2, <1>4, <1>5, FS_Surjection
<1> HIDE DEF K, P
<1>7. n + Cardinality(P) <= NumRecordings
  BY <1>2, <1>3, <1>6
<1> QED BY <1>2, <1>7 DEF P

\* Where the recordings end.
LEMMA Resumes ==
    ASSUME NEW r, NEW n \in Nat, Dense(run[r].entries, n), run[r].entries \subseteq Recordings \X Offsets
    PROVE  Resume(r) = n
<1> DEFINE E == run[r].entries
           T == {e[2] + 1 : e \in E}
<1>1. CASE E = {}
  <2>1. ~ (0 \in 0..(n - 1))
    BY <1>1 DEF Dense
  <2>2. n = 0
    BY <2>1
  <2> QED BY <1>1, <2>2 DEF Resume
<1>2. CASE E # {}
  <2>1. \A e \in E : e[2] \in Nat /\ e[2] < n
    BY DEF Dense, Offsets
  <2>2. n - 1 \in 0..(n - 1)
    <3>1. PICK e \in E : TRUE
      BY <1>2
    <3> QED BY <2>1, <3>1
  <2>3. n \in T
    <3>1. PICK e \in E : e[2] = n - 1
      BY <2>2 DEF Dense
    <3> QED BY <3>1
  <2>4. \A t \in T : t \in Int /\ n >= t
    BY <2>1
  <2>5. Max(T) = n
    <3>1. \A m \in T : (\A t \in T : m >= t) => m = n
      <4> SUFFICES ASSUME NEW m \in T, \A t \in T : m >= t PROVE m = n
        OBVIOUS
      <4> QED BY <2>3, <2>4
    <3> HIDE DEF T
    <3> QED BY <2>3, <2>4, <3>1 DEF Max
  <2> QED BY <1>2, <2>5 DEF Resume
<1> QED BY <1>1, <1>2

--------------------------------------------------------------------------------
(* The steps of a run *)

\* What there is to know of a run at work.
LEMMA AtWork ==
    ASSUME Sound, NEW r \in Runs, ~ At(r, "idle"), ~ At(r, "again")
    PROVE  /\ r \in Working /\ run[r] \in OKRun /\ run[r] \in Run /\ Good(run[r], Entries, chunk, Gone)
           /\ job \in Job /\ job.status # "COMPLETED" /\ chunk \in OKFile /\ item \in [Recordings -> Item]
           /\ run \in [Runs -> OKRun]
<1>1. r \in Working
  BY DEF Working
<1>2. job.status # "COMPLETED"
  BY <1>1 DEF Sound
<1> QED BY <1>1, <1>2 DEF Sound, Shapes, OKRun

\* A step that only moves the run away from the file.
LEMMA LeavesFile ==
    ASSUME Sound, NEW r \in Working, NEW x \in OKRun, Inert(x), run' = [run EXCEPT ![r] = x],
           job' \in Job, UNCHANGED <<item, chunk>>, Rest', Gone' <=> Gone, job'.status # "COMPLETED"
    PROVE  Sound'
<1>1. Entries' = Entries
  BY DEF Entries
<1>2. Good(x, Entries', chunk', Gone)
  BY InertGood
<1> QED BY <1>1, <1>2, Works DEF Sound, Shapes

LEMMA ItemsFine == ASSUME Sound, NEW r \in Runs, Items(r) PROVE Sound'
<1> DEFINE todo == {i \in Recordings : item[i].status = "PENDING"}
           x == [run[r] EXCEPT !.at = "open", !.todo = todo, !.entries = Entries]
<1>1. /\ r \in Working /\ run[r] \in OKRun /\ Good(run[r], Entries, chunk, Gone) /\ run[r].at = "items"
      /\ item \in [Recordings -> Item] /\ job \in Job /\ job.status # "COMPLETED" /\ run \in [Runs -> OKRun]
  BY AtWork DEF Items, At
<1>2. run' = [run EXCEPT ![r] = x] /\ UNCHANGED <<job, item, chunk>>
  BY <1>1 DEF Items
<1>3. Rest'
  BY Rests DEF Items
<1>4. run[r].unsaved = {}
  BY <1>1 DEF Good, Batch, Blank
<1>5. todo \in SUBSET Recordings /\ Entries \in SUBSET (Recordings \X Offsets)
  BY <1>1, EntriesAre
<1>6. PICK n \in Nat : Dense(Entries, n)
  BY DEF Sound, Filed
<1>7. n + Cardinality(todo) <= NumRecordings
  BY <1>1, <1>6, Counted
<1>8. \A e \in Entries : e[1] \notin todo
  BY <1>1, EntriesAre
<1> HIDE DEF todo
<1>9. /\ x \in OKRun /\ x.at = "open" /\ x.todo = todo /\ x.entries = Entries /\ x.unsaved = {}
  <2>1. /\ x \in Run /\ x.at = "open" /\ x.todo = todo /\ x.entries = Entries /\ x.unsaved = run[r].unsaved
        /\ x.parts = run[r].parts
    BY <1>1, <1>5 DEF OKRun, Run, Phases
  <2> QED BY <1>1, <1>4, <2>1 DEF OKRun
<1> HIDE DEF x
<1>10. Good(x, Entries, chunk, Gone)
  <2>1. Room(x)
    BY <1>6, <1>7, <1>9 DEF Room, Batching
  <2>2. Batch(x, Entries)
    BY <1>8, <1>9 DEF Batch, Batching
  <2>3. OnFile(x, Entries, chunk)
    BY <1>9 DEF OnFile, Batching, Ending
  <2> QED BY <2>1, <2>2, <2>3 DEF Good
<1>11. Entries' = Entries /\ (Gone' <=> Gone)
  BY <1>2 DEF Entries, Gone
<1> QED BY <1>1, <1>2, <1>3, <1>9, <1>10, <1>11, Works DEF Sound, Shapes

\* What lies beyond an offset is dropped; what lies before stays.
Trimmed(ch, n) ==
    [c \in Chunks |-> IF c > n \div ChunkSize \/ (c = n \div ChunkSize /\ n % ChunkSize = 0) THEN <<>> ELSE ch[c]]
LEMMA Trimming ==
    ASSUME NEW ch \in OKFile, NEW n \in Nat, n <= NumRecordings
    PROVE  /\ Trimmed(ch, n) \in OKFile
           /\ \A o \in Nat : o < n => UnitAt(Trimmed(ch, n), o) = UnitAt(ch, o)
<1> DEFINE first == n \div ChunkSize
<1>1. first \in Nat /\ first \in Chunks
  <2>1. n \in Offsets
    BY DEF Offsets
  <2>2. first \in Chunks
    BY <2>1, ChunksAre
  <2> HIDE DEF first
  <2> QED BY <2>2, ChunksBelow
<1>2. Trimmed(ch, n) \in OKFile
  <2>1. <<>> \in Seq(Units) /\ Len(<<>>) <= ChunkSize
    <3>1. <<>> \in Seq(Units) /\ Len(<<>>) = 0
      OBVIOUS
    <3> QED BY <3>1
  <2> QED BY <2>1 DEF Trimmed, OKFile
<1>3. ASSUME NEW o \in Nat, o < n
      PROVE  UnitAt(Trimmed(ch, n), o) = UnitAt(ch, o)
  <2> DEFINE c == o \div ChunkSize
  <2>1. c \in Nat /\ c <= first
    BY <1>3, DivMod, DivMono
  <2>2. c = first => n % ChunkSize # 0
    <3>1. o = c * ChunkSize + (o % ChunkSize) /\ n = first * ChunkSize + (n % ChunkSize)
          /\ o % ChunkSize >= 0
      BY DivMod
    <3> QED BY <1>3, <3>1
  <2>3. c \in Chunks
    BY <1>1, <2>1, ChunksBelow
  <2> HIDE DEF c, first
  <2>4. ~ (c > first \/ (c = first /\ n % ChunkSize = 0))
    BY <1>1, <2>1, <2>2
  <2>5. Trimmed(ch, n)[c] = ch[c]
    BY <2>3, <2>4 DEF Trimmed, first
  <2> QED BY <2>5 DEF UnitAt, c
<1> QED BY <1>2, <1>3

LEMMA OpenFine == ASSUME Sound, NEW r \in Runs, Open(r) PROVE Sound'
<1>1. /\ r \in Working /\ run[r] \in OKRun /\ run[r] \in Run /\ Good(run[r], Entries, chunk, Gone)
      /\ run[r].at = "open" /\ chunk \in OKFile
      /\ item \in [Recordings -> Item] /\ job \in Job /\ job.status # "COMPLETED" /\ run \in [Runs -> OKRun]
  BY AtWork DEF Open, At
<1>2. PICK n \in Nat : Dense(run[r].entries, n) /\ n + Cardinality(run[r].todo) <= NumRecordings
  BY <1>1 DEF Good, Room
<1>3. Resume(r) = n
  <2>1. run[r].entries \subseteq Recordings \X Offsets
    BY <1>1 DEF Run
  <2> QED BY <1>2, <2>1, Resumes
<1>4. IsFiniteSet(run[r].todo) /\ Cardinality(run[r].todo) \in Nat
  <2>1. IsFiniteSet(Recordings)
    BY FS_Interval DEF Recordings
  <2>2. run[r].todo \in SUBSET Recordings
    BY <1>1 DEF Run
  <2> QED BY <2>1, <2>2, FS_Subset, FS_CardinalityType
<1>5. n <= NumRecordings
  BY <1>2, <1>4
<1> DEFINE first == n \div ChunkSize
           kept == n % ChunkSize
           parts == SubSeq(chunk[first], 1, kept)
           new == Trimmed(chunk, n)
           x == [run[r] EXCEPT !.at = "fetch", !.base = first, !.entries = {}, !.parts = parts]
<1>6. first \in Nat /\ first \in Chunks /\ kept \in 0..(ChunkSize - 1)
  <2>1. n \in Offsets
    BY <1>5 DEF Offsets
  <2>2. first \in Chunks
    BY <2>1, ChunksAre
  <2>3. first \in Nat /\ kept \in 0..(ChunkSize - 1)
    BY DivMod
  <2> QED BY <2>2, <2>3
<1>61. n = first * ChunkSize + kept
  BY DivMod
<1>7. chunk' = new /\ UNCHANGED <<job, item>>
  BY <1>3 DEF Open, Trimmed
<1>8. new \in OKFile /\ \A o \in Nat : o < n => UnitAt(new, o) = UnitAt(chunk, o)
  BY <1>1, <1>5, Trimming
<1>9. \/ Len(chunk[first]) < kept /\ Goto(r, "release")
      \/ ~ (Len(chunk[first]) < kept) /\ run' = [run EXCEPT ![r] = x]
  BY <1>1, <1>3 DEF Open
<1>10. Rest'
  BY Rests DEF Open
<1>11. Entries' = Entries /\ (Gone' <=> Gone)
  BY <1>7 DEF Entries, Gone
<1>12. ~ Gone => run[r].entries = Entries
  BY <1>1 DEF Good, OnFile
<1>13. \A e \in Entries : e[2] \in Nat
  BY <1>1, EntriesAre DEF Offsets
<1>14. Filed(Entries, new)
  <2>1. CASE Gone
    <3>1. Entries = {}
      BY <2>1 DEF Sound
    <3> QED BY <3>1 DEF Sound, Filed
  <2>2. CASE ~ Gone
    <3>1. \A e \in Entries : e[2] < n
      BY <1>2, <1>12, <2>2 DEF Dense
    <3> QED BY <1>8, <1>13, <3>1 DEF Sound, Filed
  <2> QED BY <2>1, <2>2
<1>15. CASE Len(chunk[first]) < kept /\ Goto(r, "release")
  <2> DEFINE y == [run[r] EXCEPT !.at = "release"]
  <2>1. y \in OKRun /\ y.at = "release" /\ run' = [run EXCEPT ![r] = y]
    BY <1>15, GotoRun DEF Phases
  <2> HIDE DEF y
  <2>2. Good(y, Entries, new, Gone)
    BY <2>1, InertGood DEF Inert, Over
  <2> HIDE DEF new
  <2> QED BY <1>1, <1>7, <1>8, <1>10, <1>11, <1>14, <2>1, <2>2, Works DEF Sound, Shapes
<1>16. CASE ~ (Len(chunk[first]) < kept) /\ run' = [run EXCEPT ![r] = x]
  <2>1. chunk[first] \in Seq(Units) /\ Len(chunk[first]) \in Nat /\ kept <= Len(chunk[first])
    <3>1. chunk[first] \in Seq(Units)
      BY <1>1, <1>6 DEF OKFile
    <3> HIDE DEF first, kept
    <3> QED BY <1>6, <1>16, <3>1
  <2>2. parts \in Seq(Units) /\ Len(parts) = kept /\ \A k \in 1..kept : parts[k] = chunk[first][k]
    <3>1. \A s \in Seq(Units), k \in Nat :
             k <= Len(s) => /\ SubSeq(s, 1, k) \in Seq(Units) /\ Len(SubSeq(s, 1, k)) = k
                            /\ \A j \in 1..k : SubSeq(s, 1, k)[j] = s[j]
      OBVIOUS
    <3> HIDE DEF first, kept
    <3> QED BY <1>6, <2>1, <3>1
  <2> HIDE DEF first, kept, parts
  <2>3. /\ x \in OKRun /\ x.at = "fetch" /\ x.base = first /\ x.parts = parts /\ x.todo = run[r].todo
        /\ x.unsaved = {}
    <3>1. run[r].unsaved = {}
      BY <1>1 DEF Good, Batch
    <3>2. /\ x \in Run /\ x.at = "fetch" /\ x.base = first /\ x.parts = parts /\ x.todo = run[r].todo
          /\ x.unsaved = run[r].unsaved
      BY <1>1, <1>6, <2>2 DEF Run, Phases
    <3> HIDE DEF x
    <3>3. Len(x.parts) < ChunkSize
      BY <1>6, <2>2, <3>2
    <3> QED BY <1>1, <3>1, <3>2, <3>3 DEF OKRun
  <2> HIDE DEF x
  <2>4. EndOf(x) = n
    BY <1>61, <2>2, <2>3 DEF EndOf
  <2>5. All(x, Entries) = Entries
    BY <2>3 DEF All, DoneOf
  <2>6. ASSUME NEW o \in Nat, o < n PROVE Built(x, new, o) = UnitAt(chunk, o)
    <3>1. CASE o \div ChunkSize < x.base
      BY <1>8, <2>6, <3>1 DEF Built
    <3>2. CASE o \div ChunkSize = x.base /\ (o % ChunkSize) + 1 \in 1..Len(x.parts)
      <4>1. ~ (o \div ChunkSize < x.base)
        BY <1>6, <2>3, <3>2
      <4>2. Built(x, new, o) = chunk[first][(o % ChunkSize) + 1] /\ (o % ChunkSize) + 1 <= Len(chunk[first])
        BY <2>1, <2>2, <2>3, <3>2, <4>1, <1>6 DEF Built
      <4> QED BY <2>3, <3>2, <4>2 DEF UnitAt
    <3> QED BY <2>3, <2>4, <2>6, <3>1, <3>2, Before
  <2> HIDE DEF new
  <2>7. Good(x, Entries, new, Gone)
    <3>1. Room(x)
      BY <1>2, <2>3, <2>4 DEF Room
    <3>2. Batch(x, Entries)
      BY <1>1, <2>3 DEF Batch, Good, Batching, Blank, Ending
    <3>3. ASSUME ~ Gone PROVE OnFile(x, Entries, new)
      <4>1. Dense(Entries, n)
        BY <1>2, <1>12, <3>3
      <4>2. \A e \in Entries : e[2] < n /\ Built(x, new, e[2]) = Audio(e[1])
        BY <1>13, <2>6, <4>1 DEF Dense, Sound, Filed
      <4> QED BY <2>3, <2>4, <2>5, <4>1, <4>2 DEF OnFile, Batching, Ending
    <3> QED BY <3>1, <3>2, <3>3 DEF Good
  <2> QED BY <1>1, <1>7, <1>8, <1>10, <1>11, <1>14, <1>16, <2>3, <2>7, Works DEF Sound, Shapes
<1> QED BY <1>9, <1>15, <1>16

\* A run that is told to stop, or has to, moves away from the file.
LEMMA Aborts ==
    ASSUME Sound, NEW r \in Working, NEW phase \in Over, Goto(r, phase), UNCHANGED <<job, item, chunk>>, Rest'
    PROVE  Sound'
<1> DEFINE y == [run[r] EXCEPT !.at = phase]
<1>1. r \in Runs /\ job \in Job /\ job.status # "COMPLETED" /\ phase \in Phases
  BY DEF Working, Sound, Shapes, Over, Phases
<1>2. y \in OKRun /\ y.at = phase /\ run' = [run EXCEPT ![r] = y]
  BY <1>1, GotoRun
<1> HIDE DEF y
<1>3. Inert(y)
  BY <1>2 DEF Inert
<1>4. Gone' <=> Gone
  BY DEF Gone
<1> QED BY <1>1, <1>2, <1>3, <1>4, LeavesFile

LEMMA ResultsFinite == IsFiniteSet([i : Recordings, row : Item])
<1> DEFINE S == {"none", "PENDING", "DONE", "FAILED"}
           P == Recordings \X (S \X Offsets)
           R == [i : Recordings, row : Item]
           f == [p \in P |-> [i |-> p[1], row |-> [status |-> p[2][1], at |-> p[2][2]]]]
<1>1. IsFiniteSet(P)
  <2>1. IsFiniteSet(Recordings) /\ IsFiniteSet(Offsets)
    BY FS_Interval DEF Recordings, Offsets
  <2>2. IsFiniteSet(S)
    <3>1. IsFiniteSet({"none"}) /\ IsFiniteSet({"PENDING"}) /\ IsFiniteSet({"DONE"}) /\ IsFiniteSet({"FAILED"})
      BY FS_Singleton
    <3>2. IsFiniteSet({"none"} \cup {"PENDING"}) /\ IsFiniteSet({"DONE"} \cup {"FAILED"})
      BY <3>1, FS_Union
    <3>3. IsFiniteSet(({"none"} \cup {"PENDING"}) \cup ({"DONE"} \cup {"FAILED"}))
      BY <3>2, FS_Union
    <3>4. S = ({"none"} \cup {"PENDING"}) \cup ({"DONE"} \cup {"FAILED"})
      OBVIOUS
    <3> QED BY <3>3, <3>4
  <2> HIDE DEF S
  <2>3. IsFiniteSet(S \X Offsets)
    BY <2>1, <2>2, FS_Product
  <2> QED BY <2>1, <2>3, FS_Product
<1>2. f \in Surjection(P, R)
  <2>1. f \in [P -> R]
    BY DEF Item
  <2>2. \A u \in R : \E p \in P : f[p] = u
    <3> TAKE u \in R
    <3>1. u.i \in Recordings /\ u.row \in Item /\ u = [i |-> u.i, row |-> u.row]
      OBVIOUS
    <3>2. u.row.status \in S /\ u.row.at \in Offsets /\ u.row = [status |-> u.row.status, at |-> u.row.at]
      BY <3>1 DEF Item
    <3>3. <<u.i, <<u.row.status, u.row.at>>>> \in P
      BY <3>1, <3>2
    <3> WITNESS <<u.i, <<u.row.status, u.row.at>>>> \in P
    <3> QED BY <3>1, <3>2, <3>3
  <2> QED BY <2>1, <2>2 DEF Surjection
<1> HIDE DEF P, R, f
<1> QED BY <1>1, <1>2, FS_Surjection DEF R

\* A recording goes from those to do into the batch.
Tried(x, i, row) == [x EXCEPT !.todo = @ \ {i}, !.unsaved = @ \cup {[i |-> i, row |-> row]}]
LEMMA Trying ==
    ASSUME NEW x \in OKRun, Cardinality(x.unsaved) < CheckpointEvery, NEW i \in x.todo, NEW row \in Item
    PROVE  LET y == Tried(x, i, row) IN
             /\ y \in OKRun /\ y.at = x.at /\ y.base = x.base /\ y.parts = x.parts /\ y.entries = x.entries
             /\ y.todo = x.todo \ {i} /\ y.unsaved = x.unsaved \cup {[i |-> i, row |-> row]}
             /\ Cardinality(x.todo) \in Nat /\ Cardinality(y.todo) = Cardinality(x.todo) - 1
             /\ Cardinality(y.todo) \in Nat
<1> DEFINE y == Tried(x, i, row)
           u == [i |-> i, row |-> row]
<1>1. x \in Run /\ x.todo \in SUBSET Recordings /\ x.unsaved \in SUBSET [i : Recordings, row : Item]
  BY DEF OKRun, Run
<1>2. u \in [i : Recordings, row : Item]
  BY <1>1
<1>3. /\ y \in Run /\ y.at = x.at /\ y.base = x.base /\ y.parts = x.parts /\ y.entries = x.entries
      /\ y.todo = x.todo \ {i} /\ y.unsaved = x.unsaved \cup {u}
  BY <1>1, <1>2 DEF Tried, Run
<1>4. IsFiniteSet(x.todo) /\ IsFiniteSet(x.unsaved)
  <2>1. IsFiniteSet(Recordings)
    BY FS_Interval DEF Recordings
  <2> QED BY <1>1, <2>1, ResultsFinite, FS_Subset
<1>5. Cardinality(x.unsaved \cup {u}) <= CheckpointEvery
  <2> HIDE DEF u
  <2>1. Cardinality(x.unsaved) \in Nat
    BY <1>4, FS_CardinalityType
  <2>2. Cardinality(x.unsaved \cup {u}) = Cardinality(x.unsaved)
        \/ Cardinality(x.unsaved \cup {u}) = Cardinality(x.unsaved) + 1
    BY <1>4, FS_AddElement
  <2> QED BY <2>1, <2>2
<1>6. /\ Cardinality(x.todo) \in Nat /\ Cardinality(x.todo \ {i}) \in Nat
      /\ Cardinality(x.todo \ {i}) = Cardinality(x.todo) - 1
  BY <1>4, FS_RemoveElement, FS_CardinalityType
<1> HIDE DEF y, u
<1>7. y \in OKRun
  BY <1>3, <1>5 DEF OKRun
<1> QED BY <1>3, <1>6, <1>7 DEF y, u

LEMMA AllAre ==
    ASSUME Sound, NEW r \in Runs
    PROVE  \A e \in All(run[r], Entries) : e[2] \in Nat
<1>1. \A e \in Entries : e[2] \in Nat
  BY EntriesAre DEF Sound, Shapes, Offsets
<1>2. \A u \in run[r].unsaved : u.row.at \in Nat
  BY DEF Sound, Shapes, OKRun, Run, Item, Offsets
<1> QED BY <1>1, <1>2 DEF All, DoneOf

\* Appending a unit leaves the recordings where they are.
LEMMA GrownFile ==
    ASSUME Sound, NEW r \in Runs, run[r].at \in Batching \cup Ending, NEW y, NEW rest, NEW unit,
           Grown(run[r], y, rest, chunk, chunk', unit)
    PROVE  /\ Filed(Entries, chunk')
           /\ ~ Gone => \A e \in All(run[r], Entries) :
                 e[2] < EndOf(run[r]) /\ Built(y, chunk', e[2]) = Audio(e[1])
<1>1. ~ Gone => \A e \in All(run[r], Entries) :
            /\ e[2] \in Nat /\ e[2] < EndOf(run[r]) /\ Built(run[r], chunk, e[2]) = Audio(e[1])
  BY AllAre DEF Sound, Good, OnFile
<1>2. Kept(run[r], y, chunk, chunk')
  BY DEF Grown
<1>3. Entries \subseteq All(run[r], Entries)
  BY DEF All
<1>4. \A e \in Entries : UnitAt(chunk', e[2]) = Audio(e[1])
  <2>1. CASE Gone
    BY <2>1 DEF Sound
  <2>2. CASE ~ Gone /\ chunk' = chunk
    BY <2>2 DEF Sound, Filed
  <2>3. CASE ~ Gone /\ chunk' # chunk
    BY <1>1, <1>2, <1>3, <2>3 DEF Kept
  <2> QED BY <2>1, <2>2, <2>3
<1> QED BY <1>1, <1>2, <1>4 DEF Kept, Sound, Filed

LEMMA FetchFine == ASSUME Sound, NEW r \in Runs, Fetch(r) PROVE Sound'
<1> DEFINE x == run[r]
<1>1. /\ r \in Working /\ x \in OKRun /\ x \in Run /\ Good(x, Entries, chunk, Gone)
      /\ x.at = "fetch" /\ chunk \in OKFile
      /\ item \in [Recordings -> Item] /\ job \in Job /\ job.status # "COMPLETED" /\ run \in [Runs -> OKRun]
  BY AtWork DEF Fetch, At
<1>2. PICK i \in x.todo :
         \/ Put(r, Audio(i), Tried(x, i, [status |-> "DONE", at |-> EndOf(x)]))
         \/ run' = [run EXCEPT ![r] = Tried(x, i, [status |-> "FAILED", at |-> 0])] /\ chunk' = chunk
  BY DEF Fetch, Tried, Offset, EndOf
<1>3. Rest' /\ UNCHANGED <<job, item>>
  BY Rests DEF Fetch
<1>4. Entries' = Entries /\ (Gone' <=> Gone)
  BY <1>3 DEF Entries, Gone
<1>5. Cardinality(x.unsaved) < CheckpointEvery
  <2>1. x.unsaved \in SUBSET [i : Recordings, row : Item]
    BY <1>1 DEF Run
  <2>2. Cardinality(x.unsaved) \in Nat
    BY <2>1, ResultsFinite, FS_Subset, FS_CardinalityType
  <2> QED BY <2>2 DEF Fetch, Full
<1>6. i \in Recordings /\ EndOf(x) \in Nat
  BY <1>1, <1>2, RunFields DEF Run
<1>7. EndOf(x) + Cardinality(x.todo) <= NumRecordings
  BY <1>1 DEF Good, Room, Batching
<1>8. /\ \A e \in Entries : e[1] \notin x.todo /\ \A u \in x.unsaved : u.i # e[1]
      /\ \A u \in x.unsaved : /\ u.i \notin x.todo /\ u.row.status \in {"DONE", "FAILED"}
                              /\ \A v \in x.unsaved : v.i = u.i => v = u
  BY <1>1 DEF Good, Batch, Batching
<1>9. ASSUME NEW row \in Item, row.status \in {"DONE", "FAILED"}, NEW y,
             y.at = "fetch", y.todo = x.todo \ {i}, y.unsaved = x.unsaved \cup {[i |-> i, row |-> row]}
      PROVE  Batch(y, Entries)
  <2>1. \A u \in y.unsaved : u \in x.unsaved \/ (u.i = i /\ u.row = row /\ u = [i |-> i, row |-> row])
    BY <1>9
  <2>2. \A u \in x.unsaved : u.i # i
    BY <1>2, <1>8
  <2>3. \A u \in y.unsaved : /\ u.i \notin y.todo /\ u.row.status \in {"DONE", "FAILED"}
                             /\ \A v \in y.unsaved : v.i = u.i => v = u
    BY <1>8, <1>9, <2>1, <2>2
  <2>4. \A e \in Entries : e[1] \notin y.todo /\ \A u \in y.unsaved : u.i # e[1]
    BY <1>2, <1>8, <1>9, <2>1
  <2> QED BY <1>9, <2>3, <2>4 DEF Batch, Batching, Blank, Ending
<1>10. CASE Put(r, Audio(i), Tried(x, i, [status |-> "DONE", at |-> EndOf(x)]))
  <2> DEFINE row == [status |-> "DONE", at |-> EndOf(x)]
             rest == Tried(x, i, row)
  <2>1. Cardinality(x.todo) \in Nat \ {0}
    <3>1. IsFiniteSet(Recordings) /\ x.todo \in SUBSET Recordings
      BY <1>1, FS_Interval DEF Recordings, Run
    <3>2. IsFiniteSet(x.todo) /\ x.todo # {}
      BY <1>2, <3>1, FS_Subset
    <3> QED BY <3>2, FS_EmptySet, FS_CardinalityType
  <2>2. EndOf(x) < NumRecordings
    BY <1>6, <1>7, <2>1
  <2>3. row \in Item /\ row.status = "DONE" /\ row.at = EndOf(x)
    BY <1>6, <2>2 DEF Item, Offsets
  <2> HIDE DEF row
  <2>4. /\ rest \in OKRun /\ rest.at = "fetch" /\ rest.base = x.base /\ rest.parts = x.parts
        /\ rest.todo = x.todo \ {i} /\ rest.unsaved = x.unsaved \cup {[i |-> i, row |-> row]}
        /\ Cardinality(x.todo) \in Nat /\ Cardinality(rest.todo) = Cardinality(x.todo) - 1
    BY <1>1, <1>2, <1>5, <2>3, Trying
  <2> HIDE DEF rest
  <2>5. Audio(i) \in Units /\ EndOf(x) <= NumRecordings + 1
    BY <1>6, <2>2 DEF Units
  <2>6. Put(r, Audio(i), rest)
    BY <1>10 DEF rest, row
  <2>7. \/ Goto(r, "release") /\ chunk' = chunk
        \/ \E y : run' = [run EXCEPT ![r] = y] /\ Grown(x, y, rest, chunk, chunk', Audio(i))
    BY <1>1, <2>4, <2>5, <2>6, Putting
  <2>8. CASE Goto(r, "release") /\ chunk' = chunk
    <3>1. UNCHANGED <<job, item, chunk>> /\ "release" \in Over
      BY <1>3, <2>8 DEF Over
    <3> QED BY <1>1, <1>3, <2>8, <3>1, Aborts
  <2>9. CASE \E y : run' = [run EXCEPT ![r] = y] /\ Grown(x, y, rest, chunk, chunk', Audio(i))
    <3>1. PICK y : run' = [run EXCEPT ![r] = y] /\ Grown(x, y, rest, chunk, chunk', Audio(i))
      BY <2>9
    <3>2. /\ y \in OKRun /\ chunk' \in OKFile /\ y.at = "fetch" /\ y.todo = x.todo \ {i}
          /\ y.unsaved = x.unsaved \cup {[i |-> i, row |-> row]}
          /\ EndOf(y) = EndOf(x) + 1 /\ Built(y, chunk', EndOf(x)) = Audio(i)
          /\ Cardinality(y.todo) = Cardinality(x.todo) - 1
      BY <2>4, <3>1 DEF Grown
    <3>3. /\ Filed(Entries, chunk')
          /\ ~ Gone => \A e \in All(x, Entries) : e[2] < EndOf(x) /\ Built(y, chunk', e[2]) = Audio(e[1])
      BY <1>1, <3>1, GrownFile DEF Batching
    <3>4. \A e \in All(x, Entries) : e[2] \in Nat
      BY AllAre
    <3>5. All(y, Entries) = All(x, Entries) \cup {<<i, EndOf(x)>>}
      <4>1. DoneOf(y) = DoneOf(x) \cup {<<i, EndOf(x)>>}
        <5> DEFINE u == [i |-> i, row |-> row]
        <5>1. u.i = i /\ u.row.status = "DONE" /\ u.row.at = EndOf(x)
          BY <2>3
        <5> HIDE DEF u
        <5>2. y.unsaved = x.unsaved \cup {u}
          BY <3>2 DEF u
        <5> QED BY <5>1, <5>2 DEF DoneOf
      <4> QED BY <4>1 DEF All
    <3>6. Room(y)
      BY <1>6, <1>7, <2>4, <3>2 DEF Room, Batching
    <3>7. Batch(y, Entries)
      BY <1>9, <2>3, <3>2
    <3>8. ASSUME ~ Gone PROVE OnFile(y, Entries, chunk')
      <4>1. \A e \in All(y, Entries) : e[2] < EndOf(y) /\ Built(y, chunk', e[2]) = Audio(e[1])
        <5> TAKE e \in All(y, Entries)
        <5>1. CASE e \in All(x, Entries)
          BY <1>6, <3>2, <3>3, <3>4, <3>8, <5>1
        <5>2. CASE e = <<i, EndOf(x)>>
          BY <1>6, <3>2, <5>2
        <5> QED BY <3>5, <5>1, <5>2
      <4>2. Dense(All(x, Entries), EndOf(x))
        BY <1>1, <3>8 DEF Good, OnFile, Batching
      <4>3. Dense(All(y, Entries), EndOf(y))
        <5>1. \A e \in All(y, Entries) : e[2] < EndOf(y)
          BY <4>1
        <5>2. \A o \in 0..(EndOf(y) - 1) : \E e \in All(y, Entries) : e[2] = o
          <6> TAKE o \in 0..(EndOf(y) - 1)
          <6>1. CASE o = EndOf(x)
            <7>1. <<i, EndOf(x)>> \in All(y, Entries) /\ <<i, EndOf(x)>>[2] = EndOf(x)
              BY <3>5
            <7> QED BY <6>1, <7>1
          <6>2. CASE o # EndOf(x)
            <7>1. o \in 0..(EndOf(x) - 1)
              BY <1>6, <3>2, <6>2
            <7> QED BY <3>5, <4>2, <7>1 DEF Dense
          <6> QED BY <6>1, <6>2
        <5> QED BY <5>1, <5>2 DEF Dense
      <4> QED BY <3>2, <4>1, <4>3 DEF OnFile, Batching, Ending
    <3>9. Good(y, Entries', chunk', Gone)
      BY <1>4, <3>6, <3>7, <3>8 DEF Good
    <3> QED BY <1>1, <1>3, <1>4, <3>1, <3>2, <3>3, <3>9, Works DEF Sound, Shapes
  <2> QED BY <2>7, <2>8, <2>9
<1>11. CASE run' = [run EXCEPT ![r] = Tried(x, i, [status |-> "FAILED", at |-> 0])] /\ chunk' = chunk
  <2> DEFINE row == [status |-> "FAILED", at |-> 0]
             y == Tried(x, i, row)
  <2>1. row \in Item /\ row.status = "FAILED"
    BY DEF Item, Offsets
  <2> HIDE DEF row
  <2>2. /\ y \in OKRun /\ y.at = "fetch" /\ y.base = x.base /\ y.parts = x.parts
        /\ y.todo = x.todo \ {i} /\ y.unsaved = x.unsaved \cup {[i |-> i, row |-> row]}
        /\ Cardinality(x.todo) \in Nat /\ Cardinality(y.todo) = Cardinality(x.todo) - 1
    BY <1>1, <1>2, <1>5, <2>1, Trying
  <2>3. run' = [run EXCEPT ![r] = y] /\ chunk' = chunk
    BY <1>11 DEF row
  <2> HIDE DEF y
  <2>4. EndOf(y) = EndOf(x) /\ (\A o : Built(y, chunk, o) = Built(x, chunk, o))
    BY <2>2 DEF EndOf, Built
  <2>5. All(y, Entries) = All(x, Entries)
    <3> DEFINE u == [i |-> i, row |-> row]
    <3>1. u.row.status # "DONE"
      BY <2>1
    <3> HIDE DEF u
    <3>2. y.unsaved = x.unsaved \cup {u}
      BY <2>2 DEF u
    <3> QED BY <3>1, <3>2 DEF All, DoneOf
  <2>6. Room(y)
    BY <1>6, <1>7, <2>2, <2>4 DEF Room, Batching
  <2>7. Batch(y, Entries)
    BY <1>9, <2>1, <2>2
  <2>8. ~ Gone => OnFile(y, Entries, chunk)
    BY <1>1, <2>2, <2>4, <2>5 DEF Good, OnFile, Batching, Ending
  <2>9. Good(y, Entries', chunk', Gone)
    BY <1>4, <2>3, <2>6, <2>7, <2>8 DEF Good
  <2>10. Filed(Entries', chunk') /\ (Gone => Entries' = {})
    BY <1>4, <2>3 DEF Sound
  <2> QED BY <1>1, <1>3, <1>4, <2>2, <2>3, <2>9, <2>10, Works DEF Sound, Shapes
<1> QED BY <1>2, <1>10, <1>11

\* What stays of a run that goes on to its next phase.
LEMMA Moves ==
    ASSUME Sound, NEW r \in Runs, NEW phase \in Phases
    PROVE  LET y == [run[r] EXCEPT !.at = phase] IN
             /\ y \in OKRun /\ y.at = phase /\ y.base = run[r].base /\ y.parts = run[r].parts
             /\ y.todo = run[r].todo /\ y.unsaved = run[r].unsaved /\ y.entries = run[r].entries
             /\ EndOf(y) = EndOf(run[r]) /\ (\A E : All(y, E) = All(run[r], E))
             /\ \A ch, o : Built(y, ch, o) = Built(run[r], ch, o)
<1> DEFINE y == [run[r] EXCEPT !.at = phase]
<1> SUFFICES /\ y \in OKRun /\ y.at = phase /\ y.base = run[r].base /\ y.parts = run[r].parts
             /\ y.todo = run[r].todo /\ y.unsaved = run[r].unsaved /\ y.entries = run[r].entries
             /\ EndOf(y) = EndOf(run[r]) /\ (\A E : All(y, E) = All(run[r], E))
             /\ \A ch, o : Built(y, ch, o) = Built(run[r], ch, o)
  OBVIOUS
<1>1. run[r] \in OKRun
  BY DEF Sound, Shapes
<1>2. /\ y \in OKRun /\ y.at = phase /\ y.base = run[r].base /\ y.parts = run[r].parts
      /\ y.todo = run[r].todo /\ y.unsaved = run[r].unsaved /\ y.entries = run[r].entries
  <2>1. y \in OKRun /\ y.at = phase
    BY GotoRun
  <2>2. /\ y.base = run[r].base /\ y.parts = run[r].parts /\ y.todo = run[r].todo
        /\ y.unsaved = run[r].unsaved /\ y.entries = run[r].entries
    BY <1>1 DEF OKRun, Run
  <2> QED BY <2>1, <2>2
<1> HIDE DEF y
<1> QED BY <1>2 DEF EndOf, All, DoneOf, Built

LEMMA CheckpointFine == ASSUME Sound, NEW r \in Runs, Checkpoint(r) PROVE Sound'
<1> DEFINE x == run[r]
           y == [x EXCEPT !.at = "save items"]
<1>1. /\ r \in Working /\ x \in OKRun /\ Good(x, Entries, chunk, Gone) /\ x.at = "fetch" /\ chunk \in OKFile
      /\ item \in [Recordings -> Item] /\ job \in Job /\ job.status # "COMPLETED"
  BY AtWork DEF Checkpoint, At
<1>2. Rest' /\ UNCHANGED <<job, item>>
  BY Rests DEF Checkpoint
<1>3. Entries' = Entries /\ (Gone' <=> Gone)
  BY <1>2 DEF Entries, Gone
<1>4. \/ Goto(r, "release") /\ chunk' = chunk
      \/ /\ Goto(r, "save items") /\ chunk' \in OKFile
         /\ \A o \in Nat : o < EndOf(x) => /\ UnitAt(chunk', o) = Built(x, chunk, o)
                                           /\ Built(x, chunk', o) = Built(x, chunk, o)
  BY <1>1, Flushing DEF Checkpoint
<1>5. CASE Goto(r, "release") /\ chunk' = chunk
  <2>1. UNCHANGED <<job, item, chunk>> /\ "release" \in Over
    BY <1>2, <1>5 DEF Over
  <2> QED BY <1>1, <1>2, <1>5, <2>1, Aborts
<1>6. CASE /\ Goto(r, "save items") /\ chunk' \in OKFile
           /\ \A o \in Nat : o < EndOf(x) => /\ UnitAt(chunk', o) = Built(x, chunk, o)
                                             /\ Built(x, chunk', o) = Built(x, chunk, o)
  <2>1. /\ y \in OKRun /\ y.at = "save items" /\ y.todo = x.todo /\ y.unsaved = x.unsaved
        /\ EndOf(y) = EndOf(x) /\ All(y, Entries) = All(x, Entries)
        /\ \A o : Built(y, chunk', o) = Built(x, chunk', o)
    <3>1. "save items" \in Phases
      BY DEF Phases
    <3>2. /\ y \in OKRun /\ y.at = "save items" /\ y.todo = x.todo /\ y.unsaved = x.unsaved
          /\ EndOf(y) = EndOf(x) /\ (\A E : All(y, E) = All(x, E))
          /\ \A ch, o : Built(y, ch, o) = Built(x, ch, o)
      BY <3>1, Moves
    <3> QED BY <3>2
  <2>2. run' = [run EXCEPT ![r] = y]
    BY <1>6, GotoRun DEF Phases
  <2> HIDE DEF y
  <2>3. ~ Gone => \A e \in All(x, Entries) :
            /\ e[2] < EndOf(x) /\ Built(x, chunk', e[2]) = Audio(e[1]) /\ UnitAt(chunk', e[2]) = Audio(e[1])
    <3>1. ~ Gone => \A e \in All(x, Entries) : e[2] < EndOf(x) /\ Built(x, chunk, e[2]) = Audio(e[1])
      BY <1>1 DEF Good, OnFile, Batching
    <3> QED BY <1>6, <3>1, AllAre
  <2>4. Filed(Entries, chunk')
    <3>1. Entries \subseteq All(x, Entries)
      BY DEF All
    <3>2. Gone => Entries = {}
      BY DEF Sound
    <3> QED BY <2>3, <3>1, <3>2 DEF Sound, Filed
  <2>5. Room(y) /\ Batch(y, Entries)
    BY <1>1, <2>1 DEF Good, Room, Batch, Batching, Blank, Ending
  <2>6. ~ Gone => OnFile(y, Entries, chunk')
    <3>1. ~ Gone => Dense(All(x, Entries), EndOf(x))
      BY <1>1 DEF Good, OnFile, Batching
    <3> QED BY <2>1, <2>3, <3>1 DEF OnFile, Batching, Ending
  <2>7. Good(y, Entries', chunk', Gone)
    BY <1>3, <2>5, <2>6 DEF Good
  <2> QED BY <1>1, <1>2, <1>3, <1>6, <2>1, <2>2, <2>4, <2>7, Works DEF Sound, Shapes
<1> QED BY <1>4, <1>5, <1>6

LEMMA SaveItemsFine == ASSUME Sound, NEW r \in Runs, SaveItems(r) PROVE Sound'
<1> DEFINE x == run[r]
           y == [x EXCEPT !.at = "save job"]
<1>1. /\ r \in Working /\ x \in OKRun /\ x \in Run /\ Good(x, Entries, chunk, Gone) /\ x.at = "save items"
      /\ item \in [Recordings -> Item] /\ job \in Job /\ job.status # "COMPLETED" /\ chunk \in OKFile
  BY AtWork DEF SaveItems, At
<1>2. Rest' /\ UNCHANGED <<job, chunk>>
  BY Rests DEF SaveItems
<1>3. Gone' <=> Gone
  BY <1>2 DEF Gone
<1>4. /\ y \in OKRun /\ y.at = "save job" /\ y.todo = x.todo /\ y.unsaved = x.unsaved
      /\ EndOf(y) = EndOf(x) /\ (\A E : All(y, E) = All(x, E))
      /\ \A ch, o : Built(y, ch, o) = Built(x, ch, o)
  <2>1. "save job" \in Phases
    BY DEF Phases
  <2> QED BY <2>1, Moves
<1>5. run' = [run EXCEPT ![r] = y]
  BY GotoRun DEF SaveItems, Phases
<1> HIDE DEF y
<1>6. /\ \A e \in Entries : e[1] \notin x.todo /\ \A u \in x.unsaved : u.i # e[1]
      /\ \A u \in x.unsaved : /\ u.i \notin x.todo /\ u.row.status \in {"DONE", "FAILED"}
                              /\ \A v \in x.unsaved : v.i = u.i => v = u
  BY <1>1 DEF Good, Batch, Batching
<1>7. CASE Gone
  <2>1. item' = item
    BY <1>7 DEF SaveItems, Gone
  <2>2. Entries' = {}
    BY <1>7, <2>1 DEF Entries, Sound
  <2>3. Good(y, Entries', chunk', Gone)
    BY <1>1, <1>4, <1>6, <1>7, <2>2 DEF Good, Room, Batch, Batching, Blank, Ending
  <2>4. Filed(Entries', chunk')
    <3>1. Entries' = Entries /\ chunk' = chunk
      BY <1>2, <2>1 DEF Entries
    <3> QED BY <3>1 DEF Sound
  <2> QED BY <1>1, <1>2, <1>3, <1>4, <1>5, <2>1, <2>2, <2>3, <2>4, Works DEF Sound, Shapes
<1>8. CASE ~ Gone
  <2> DEFINE Row(i) == (CHOOSE u \in x.unsaved : u.i = i).row
  <2>1. item' = [i \in Recordings |-> IF \E u \in x.unsaved : u.i = i THEN Row(i) ELSE item[i]]
    BY <1>8 DEF SaveItems, Gone
  <2>2. \A u \in x.unsaved : Row(u.i) = u.row
    BY <1>6
  <2> HIDE DEF Row
  <2>3. \A u \in x.unsaved : u.i \in Recordings /\ u.row \in Item
    BY <1>1 DEF Run
  <2>4. \A u \in x.unsaved : item'[u.i] = u.row
    BY <2>1, <2>2, <2>3
  <2>5. \A i \in Recordings : (\A u \in x.unsaved : u.i # i) => item'[i] = item[i]
    BY <2>1
  <2>6. item' \in [Recordings -> Item]
    <3>1. \A i \in Recordings : item'[i] \in Item
      <4> TAKE i \in Recordings
      <4>1. CASE \E u \in x.unsaved : u.i = i
        BY <2>3, <2>4, <4>1
      <4>2. CASE ~ \E u \in x.unsaved : u.i = i
        BY <1>1, <2>5, <4>2
      <4> QED BY <4>1, <4>2
    <3> QED BY <2>1, <3>1
  <2>7. Entries' = All(x, Entries)
    <3>1. ASSUME NEW e \in Entries' PROVE e \in All(x, Entries)
      <4>1. PICK i \in Recordings : item'[i].status = "DONE" /\ e = <<i, item'[i].at>>
        BY DEF Entries
      <4>2. CASE \E u \in x.unsaved : u.i = i
        <5>1. PICK u \in x.unsaved : u.i = i
          BY <4>2
        <5>2. u.row.status = "DONE" /\ e = <<u.i, u.row.at>>
          BY <2>4, <4>1, <5>1
        <5> QED BY <5>2 DEF All, DoneOf
      <4>3. CASE ~ \E u \in x.unsaved : u.i = i
        BY <2>5, <4>1, <4>3 DEF All, Entries
      <4> QED BY <4>2, <4>3
    <3>2. ASSUME NEW e \in All(x, Entries) PROVE e \in Entries'
      <4>1. CASE e \in Entries
        <5>1. PICK i \in Recordings : item[i].status = "DONE" /\ e = <<i, item[i].at>>
          BY <4>1 DEF Entries
        <5>2. e[1] = i
          BY <5>1
        <5>3. item'[i] = item[i]
          BY <1>6, <2>5, <4>1, <5>2
        <5> QED BY <5>1, <5>3 DEF Entries
      <4>2. CASE e \in DoneOf(x)
        <5>1. PICK u \in x.unsaved : u.row.status = "DONE" /\ e = <<u.i, u.row.at>>
          BY <4>2 DEF DoneOf
        <5>2. u.i \in Recordings /\ item'[u.i] = u.row
          BY <2>3, <2>4
        <5> QED BY <5>1, <5>2 DEF Entries
      <4> QED BY <3>2, <4>1, <4>2 DEF All
    <3> QED BY <3>1, <3>2
  <2>8. \A e \in DoneOf(x) : \E u \in x.unsaved : e[1] = u.i
    BY DEF DoneOf
  <2>9. Room(y) /\ Batch(y, Entries')
    <3>1. \A e \in All(x, Entries) : e[1] \notin x.todo
      BY <1>6, <2>8 DEF All
    <3> QED BY <1>1, <1>4, <1>6, <2>7, <3>1 DEF Good, Room, Batch, Batching, Blank, Ending
  <2>10. /\ \A e \in All(x, Entries) : /\ e[2] < EndOf(x) /\ Built(x, chunk, e[2]) = Audio(e[1])
                                       /\ UnitAt(chunk, e[2]) = Audio(e[1])
         /\ Dense(All(x, Entries), EndOf(x))
    BY <1>1, <1>8 DEF Good, OnFile, Batching
  <2>11. OnFile(y, Entries', chunk')
    <3>1. All(y, Entries') = Entries'
      BY <1>4, <2>7 DEF All
    <3> QED BY <1>2, <1>4, <2>7, <2>10, <3>1 DEF OnFile, Batching, Ending
  <2>12. Filed(Entries', chunk')
    <3>1. EndOf(x) \in Nat
      BY <1>1, RunFields
    <3> QED BY <1>2, <2>7, <2>10, <3>1 DEF Filed
  <2>13. Good(y, Entries', chunk', Gone)
    BY <2>9, <2>11 DEF Good
  <2> QED BY <1>1, <1>2, <1>3, <1>4, <1>5, <1>8, <2>6, <2>12, <2>13, Works DEF Sound, Shapes
<1> QED BY <1>7, <1>8

LEMMA SaveJobFine == ASSUME Sound, NEW r \in Runs, SaveJob(r) PROVE Sound'
<1> DEFINE x == run[r]
           row == [job EXCEPT !.failed = \E i \in Recordings : item[i].status = "FAILED", !.beat = "fresh"]
           next == IF Full(r) \/ x.todo # {} THEN "fetch" ELSE "reload"
           y == [x EXCEPT !.at = next, !.unsaved = {}]
<1>1. /\ r \in Working /\ x \in OKRun /\ x \in Run /\ Good(x, Entries, chunk, Gone) /\ x.at = "save job"
      /\ item \in [Recordings -> Item] /\ job \in Job /\ job.status # "COMPLETED" /\ chunk \in OKFile
  BY AtWork DEF SaveJob, At
<1>2. Rest' /\ UNCHANGED <<item, chunk>>
  BY Rests DEF SaveJob
<1>3. job' \in Job /\ (Gone' <=> Gone) /\ job'.status # "COMPLETED"
  <2>1. row \in Job /\ row.status = job.status
    BY <1>1 DEF Job
  <2>2. Write(row)
    BY DEF SaveJob
  <2> HIDE DEF row
  <2> QED BY <1>1, <2>1, <2>2 DEF Write, Gone
<1>4. Entries' = Entries
  BY <1>2 DEF Entries
<1>5. CASE Gone
  <2>1. run' = [run EXCEPT ![r] = Idle]
    BY <1>5 DEF SaveJob, Gone, End
  <2> QED BY <1>1, <1>2, <1>3, <2>1, IdleRun, LeavesFile
<1>6. CASE ~ Gone
  <2>1. run' = [run EXCEPT ![r] = y]
    BY <1>6 DEF SaveJob, Gone
  <2>2. /\ y.at = next /\ y.base = x.base /\ y.parts = x.parts /\ y.todo = x.todo /\ y.unsaved = {}
        /\ y.entries = x.entries /\ y \in Run
    BY <1>1 DEF Run, Phases
  <2>3. next \in {"fetch", "reload"} /\ (next = "reload" => x.todo = {})
    OBVIOUS
  <2> HIDE DEF next, y
  <2>4. y \in OKRun
    <3>1. Cardinality({}) = 0
      BY FS_EmptySet
    <3>2. Len(y.parts) < ChunkSize /\ Cardinality(y.unsaved) <= CheckpointEvery
      <4>1. Len(x.parts) < ChunkSize
        BY <1>1 DEF OKRun
      <4> QED BY <2>2, <3>1, <4>1
    <3> QED BY <2>2, <3>2 DEF OKRun
  <2>5. /\ EndOf(y) = EndOf(x) /\ EndOf(x) \in Nat
        /\ \A o : Built(y, chunk, o) = Built(x, chunk, o)
    BY <1>1, <2>2, RunFields DEF EndOf, Built
  <2>6. All(y, Entries) = Entries
    BY <2>2 DEF All, DoneOf
  <2>7. Room(y)
    <3>1. EndOf(x) + Cardinality(x.todo) <= NumRecordings
      BY <1>1 DEF Good, Room, Batching
    <3>2. x.todo = {} => Cardinality(x.todo) = 0
      BY FS_EmptySet
    <3>3. y.at \in Batching => EndOf(y) + Cardinality(y.todo) <= NumRecordings
      BY <2>2, <2>5, <3>1
    <3>4. y.at = "reload" => EndOf(y) <= NumRecordings
      BY <2>2, <2>3, <2>5, <3>1, <3>2
    <3> QED BY <2>2, <2>3, <3>3, <3>4 DEF Room
  <2>8. Batch(y, Entries)
    BY <1>1, <2>2, <2>3 DEF Good, Batch, Batching, Blank, Ending
  <2>9. OnFile(y, Entries, chunk)
    <3>1. /\ \A e \in Entries : e[2] < EndOf(x) /\ Built(x, chunk, e[2]) = Audio(e[1])
          /\ Dense(Entries, EndOf(x))
      BY <1>1, <1>6 DEF Good, OnFile, Batching
    <3> QED BY <2>2, <2>3, <2>5, <2>6, <3>1 DEF OnFile, Batching, Ending
  <2>10. Good(y, Entries', chunk', Gone)
    BY <1>2, <1>4, <2>7, <2>8, <2>9 DEF Good
  <2> QED BY <1>1, <1>2, <1>3, <1>4, <1>6, <2>1, <2>4, <2>10, Works DEF Sound, Shapes
<1> QED BY <1>5, <1>6

LEMMA ReloadFine == ASSUME Sound, NEW r \in Runs, Reload(r) PROVE Sound'
<1> DEFINE x == run[r]
           next == IF Entries = {} THEN "fail" ELSE "summary"
           y == [x EXCEPT !.at = next, !.entries = Entries]
<1>1. /\ r \in Working /\ x \in OKRun /\ x \in Run /\ Good(x, Entries, chunk, Gone) /\ x.at = "reload"
      /\ item \in [Recordings -> Item] /\ job \in Job /\ job.status # "COMPLETED" /\ chunk \in OKFile
  BY AtWork DEF Reload, At
<1>2. Rest' /\ UNCHANGED <<job, item, chunk>>
  BY Rests DEF Reload
<1>3. Entries' = Entries /\ (Gone' <=> Gone)
  BY <1>2 DEF Entries, Gone
<1>4. run' = [run EXCEPT ![r] = y]
  BY DEF Reload
<1>5. Entries \in SUBSET (Recordings \X Offsets)
  BY <1>1, EntriesAre
<1>6. /\ y.at = next /\ y.base = x.base /\ y.parts = x.parts /\ y.todo = x.todo /\ y.unsaved = x.unsaved
      /\ y.entries = Entries /\ y \in Run
  BY <1>1, <1>5 DEF Run, Phases
<1>7. next \in {"fail", "summary"} /\ (next = "summary" => Entries # {})
  OBVIOUS
<1> HIDE DEF next, y
<1>8. y \in OKRun
  BY <1>1, <1>6 DEF OKRun
<1>9. CASE next = "fail"
  <2>1. Inert(y)
    BY <1>6, <1>9 DEF Inert, Over
  <2> QED BY <1>1, <1>2, <1>3, <1>4, <1>8, <2>1, LeavesFile
<1>10. CASE next = "summary"
  <2>1. /\ EndOf(y) = EndOf(x) /\ All(y, Entries) = All(x, Entries)
        /\ \A o : Built(y, chunk, o) = Built(x, chunk, o)
    BY <1>6 DEF EndOf, All, DoneOf, Built
  <2>2. Room(y) /\ Batch(y, Entries)
    BY <1>1, <1>6, <1>10, <2>1 DEF Good, Room, Batch, Batching, Blank, Ending
  <2>3. ~ Gone => OnFile(y, Entries, chunk)
    BY <1>1, <1>6, <1>7, <1>10, <2>1 DEF Good, OnFile, Batching, Ending
  <2>4. Good(y, Entries', chunk', Gone)
    BY <1>2, <1>3, <2>2, <2>3 DEF Good
  <2> QED BY <1>1, <1>2, <1>3, <1>4, <1>8, <2>4, Works DEF Sound, Shapes
<1> QED BY <1>7, <1>9, <1>10

LEMMA PutSummaryFine == ASSUME Sound, NEW r \in Runs, PutSummary(r) PROVE Sound'
<1> DEFINE x == run[r]
           rest == [x EXCEPT !.at = "directory"]
<1>1. /\ r \in Working /\ x \in OKRun /\ Good(x, Entries, chunk, Gone) /\ x.at = "summary"
      /\ item \in [Recordings -> Item] /\ job \in Job /\ job.status # "COMPLETED" /\ chunk \in OKFile
  BY AtWork DEF PutSummary, At
<1>2. Rest' /\ UNCHANGED <<job, item>>
  BY Rests DEF PutSummary
<1>3. Entries' = Entries /\ (Gone' <=> Gone)
  BY <1>2 DEF Entries, Gone
<1>4. /\ rest \in OKRun /\ rest.at = "directory" /\ rest.base = x.base /\ rest.parts = x.parts
      /\ rest.todo = x.todo /\ rest.unsaved = x.unsaved /\ rest.entries = x.entries
  <2>1. "directory" \in Phases
    BY DEF Phases
  <2> QED BY <2>1, Moves
<1>5. EndOf(x) \in Nat /\ EndOf(x) <= NumRecordings
  BY <1>1, RunFields DEF Good, Room
<1>6. x.unsaved = {}
  BY <1>1 DEF Good, Batch, Ending
<1>7. \/ Goto(r, "release") /\ chunk' = chunk
      \/ \E y : run' = [run EXCEPT ![r] = y] /\ Grown(x, y, rest, chunk, chunk', Summary)
  <2>1. Summary \in Units /\ EndOf(x) <= NumRecordings + 1 /\ Put(r, Summary, rest)
    BY <1>5 DEF Units, PutSummary
  <2> HIDE DEF rest
  <2> QED BY <1>1, <1>4, <2>1, Putting
<1> HIDE DEF rest
<1>8. CASE Goto(r, "release") /\ chunk' = chunk
  <2>1. UNCHANGED <<job, item, chunk>> /\ "release" \in Over
    BY <1>2, <1>8 DEF Over
  <2> QED BY <1>1, <1>2, <1>8, <2>1, Aborts
<1>9. CASE \E y : run' = [run EXCEPT ![r] = y] /\ Grown(x, y, rest, chunk, chunk', Summary)
  <2>1. PICK y : run' = [run EXCEPT ![r] = y] /\ Grown(x, y, rest, chunk, chunk', Summary)
    BY <1>9
  <2>2. /\ y \in OKRun /\ chunk' \in OKFile /\ y.at = "directory" /\ y.todo = x.todo /\ y.unsaved = {}
        /\ y.entries = x.entries /\ EndOf(y) = EndOf(x) + 1 /\ Built(y, chunk', EndOf(x)) = Summary
    BY <1>4, <1>6, <2>1 DEF Grown
  <2>3. Filed(Entries, chunk')
    BY <1>1, <2>1, GrownFile DEF Ending
  <2>4. Room(y) /\ Batch(y, Entries)
    BY <1>5, <2>2 DEF Room, Batch, Batching, Blank, Ending
  <2>5. ~ Gone => \A e \in Entries : e[2] < EndOf(y) /\ Built(y, chunk', e[2]) = Audio(e[1])
    <3>1. ~ Gone => \A e \in All(x, Entries) : e[2] < EndOf(x) /\ Built(y, chunk', e[2]) = Audio(e[1])
      BY <1>1, <2>1, GrownFile DEF Ending
    <3>2. \A e \in All(x, Entries) : e[2] \in Nat
      BY AllAre
    <3>3. Entries \subseteq All(x, Entries)
      BY DEF All
    <3> QED BY <1>5, <2>2, <3>1, <3>2, <3>3
  <2>6. ~ Gone => OnFile(y, Entries, chunk')
    <3>1. All(y, Entries) = Entries
      BY <2>2 DEF All, DoneOf
    <3>2. EndOf(y) >= 1 /\ Built(y, chunk', EndOf(y) - 1) = Summary
      <4>1. EndOf(y) - 1 = EndOf(x) /\ EndOf(y) >= 1
        BY <1>5, <2>2
      <4> QED BY <2>2, <4>1
    <3>3. ~ Gone => y.entries = Entries /\ Entries # {}
      BY <1>1, <2>2 DEF Good, OnFile
    <3> QED BY <2>2, <2>5, <3>1, <3>2, <3>3 DEF OnFile, Batching, Ending
  <2>7. Good(y, Entries', chunk', Gone)
    BY <1>3, <2>4, <2>6 DEF Good
  <2> QED BY <1>1, <1>2, <1>3, <2>1, <2>2, <2>3, <2>7, Works DEF Sound, Shapes
<1> QED BY <1>7, <1>8, <1>9

LEMMA PutDirectoryFine == ASSUME Sound, NEW r \in Runs, PutDirectory(r) PROVE Sound'
<1> DEFINE x == run[r]
           rest == [x EXCEPT !.at = "flush"]
           unit == Directory(x.entries)
<1>1. /\ r \in Working /\ x \in OKRun /\ x \in Run /\ Good(x, Entries, chunk, Gone) /\ x.at = "directory"
      /\ item \in [Recordings -> Item] /\ job \in Job /\ job.status # "COMPLETED" /\ chunk \in OKFile
  BY AtWork DEF PutDirectory, At
<1>2. Rest' /\ UNCHANGED <<job, item>>
  BY Rests DEF PutDirectory
<1>3. Entries' = Entries /\ (Gone' <=> Gone)
  BY <1>2 DEF Entries, Gone
<1>4. /\ rest \in OKRun /\ rest.at = "flush" /\ rest.base = x.base /\ rest.parts = x.parts
      /\ rest.todo = x.todo /\ rest.unsaved = x.unsaved /\ rest.entries = x.entries
  <2>1. "flush" \in Phases
    BY DEF Phases
  <2> QED BY <2>1, Moves
<1>5. EndOf(x) \in Nat /\ EndOf(x) <= NumRecordings + 1
  BY <1>1, RunFields DEF Good, Room
<1>6. x.unsaved = {}
  BY <1>1 DEF Good, Batch, Ending
<1>7. \/ Goto(r, "release") /\ chunk' = chunk
      \/ \E y : run' = [run EXCEPT ![r] = y] /\ Grown(x, y, rest, chunk, chunk', unit)
  <2>1. unit \in Units /\ Put(r, unit, rest)
    BY <1>1 DEF Units, PutDirectory, Run
  <2> HIDE DEF rest, unit
  <2> QED BY <1>1, <1>4, <1>5, <2>1, Putting
<1> HIDE DEF rest
<1>8. CASE Goto(r, "release") /\ chunk' = chunk
  <2>1. UNCHANGED <<job, item, chunk>> /\ "release" \in Over
    BY <1>2, <1>8 DEF Over
  <2> QED BY <1>1, <1>2, <1>8, <2>1, Aborts
<1>9. CASE \E y : run' = [run EXCEPT ![r] = y] /\ Grown(x, y, rest, chunk, chunk', unit)
  <2>1. PICK y : run' = [run EXCEPT ![r] = y] /\ Grown(x, y, rest, chunk, chunk', unit)
    BY <1>9
  <2>2. /\ y \in OKRun /\ chunk' \in OKFile /\ y.at = "flush" /\ y.todo = x.todo /\ y.unsaved = {}
        /\ y.entries = x.entries /\ EndOf(y) = EndOf(x) + 1 /\ Built(y, chunk', EndOf(x)) = unit
        /\ y.parts = <<>> => Len(chunk'[y.base - 1]) = ChunkSize
    BY <1>4, <1>6, <2>1 DEF Grown
  <2>3. Filed(Entries, chunk')
    BY <1>1, <2>1, GrownFile DEF Ending
  <2>4. Room(y) /\ Batch(y, Entries)
    BY <1>5, <2>2 DEF Room, Batch, Batching, Blank, Ending
  <2>5. ~ Gone => \A e \in Entries : e[2] < EndOf(y) /\ Built(y, chunk', e[2]) = Audio(e[1])
    <3>1. ~ Gone => \A e \in All(x, Entries) : e[2] < EndOf(x) /\ Built(y, chunk', e[2]) = Audio(e[1])
      BY <1>1, <2>1, GrownFile DEF Ending
    <3>2. \A e \in All(x, Entries) : e[2] \in Nat
      BY AllAre
    <3>3. Entries \subseteq All(x, Entries)
      BY DEF All
    <3> QED BY <1>5, <2>2, <3>1, <3>2, <3>3
  <2>6. ASSUME ~ Gone PROVE OnFile(y, Entries, chunk')
    <3>1. All(y, Entries) = Entries
      BY <2>2 DEF All, DoneOf
    <3>2. y.entries = Entries /\ Entries # {} /\ unit = Directory(Entries)
      BY <1>1, <2>2, <2>6 DEF Good, OnFile
    <3>3. EndOf(x) >= 1 /\ Built(x, chunk, EndOf(x) - 1) = Summary
      BY <1>1, <2>6 DEF Good, OnFile
    <3>4. /\ EndOf(y) >= 2 /\ EndOf(y) - 1 = EndOf(x) /\ EndOf(y) - 2 = EndOf(x) - 1
          /\ EndOf(x) - 1 \in Nat /\ EndOf(x) - 1 < EndOf(x)
      BY <1>5, <2>2, <3>3
    <3>5. Built(y, chunk', EndOf(x) - 1) = Summary
      BY <2>1, <3>3, <3>4 DEF Grown, Kept
    <3> HIDE DEF unit
    <3> QED BY <2>2, <2>5, <2>6, <3>1, <3>2, <3>4, <3>5 DEF OnFile, Batching, Ending
  <2>7. Good(y, Entries', chunk', Gone)
    BY <1>3, <2>4, <2>6 DEF Good
  <2> QED BY <1>1, <1>2, <1>3, <2>1, <2>2, <2>3, <2>7, Works DEF Sound, Shapes
<1> QED BY <1>7, <1>8, <1>9

LEMMA LastFlushFine == ASSUME Sound, NEW r \in Runs, LastFlush(r) PROVE Sound'
<1> DEFINE x == run[r]
           y == [x EXCEPT !.at = "finish"]
           n == EndOf(x)
<1>1. /\ r \in Working /\ x \in OKRun /\ Good(x, Entries, chunk, Gone) /\ x.at = "flush" /\ chunk \in OKFile
      /\ item \in [Recordings -> Item] /\ job \in Job /\ job.status # "COMPLETED"
  BY AtWork DEF LastFlush, At
<1>2. Rest' /\ UNCHANGED <<job, item>>
  BY Rests DEF LastFlush
<1>3. Entries' = Entries /\ (Gone' <=> Gone)
  BY <1>2 DEF Entries, Gone
<1>4. \/ Goto(r, "release") /\ chunk' = chunk
      \/ /\ Goto(r, "finish") /\ chunk' \in OKFile
         /\ \A o \in Nat : o < n => UnitAt(chunk', o) = Built(x, chunk, o)
         /\ x.parts = <<>> => chunk' = chunk
         /\ x.parts # <<>> => chunk'[x.base] = x.parts
  <2>1. Flush(r, "finish")
    BY DEF LastFlush
  <2>2. \/ Goto(r, "release") /\ chunk' = chunk /\ job.status = "gone"
        \/ /\ Goto(r, "finish") /\ chunk' \in OKFile
           /\ \A o \in Nat : o < EndOf(x) => /\ UnitAt(chunk', o) = Built(x, chunk, o)
                                             /\ Built(x, chunk', o) = Built(x, chunk, o)
           /\ x.parts = <<>> => chunk' = chunk
           /\ x.parts # <<>> => chunk'[x.base] = x.parts
    BY <1>1, <2>1, Flushing
  <2> QED BY <2>2
<1>5. CASE Goto(r, "release") /\ chunk' = chunk
  <2>1. UNCHANGED <<job, item, chunk>> /\ "release" \in Over
    BY <1>2, <1>5 DEF Over
  <2> QED BY <1>1, <1>2, <1>5, <2>1, Aborts
<1>6. CASE /\ Goto(r, "finish") /\ chunk' \in OKFile
           /\ \A o \in Nat : o < n => UnitAt(chunk', o) = Built(x, chunk, o)
           /\ x.parts = <<>> => chunk' = chunk
           /\ x.parts # <<>> => chunk'[x.base] = x.parts
  <2>1. y \in OKRun /\ y.at = "finish" /\ y.unsaved = x.unsaved /\ y.entries = x.entries /\ EndOf(y) = n
    <3>1. "finish" \in Phases
      BY DEF Phases
    <3> QED BY <3>1, Moves
  <2>2. run' = [run EXCEPT ![r] = y]
    BY <1>6, GotoRun DEF Phases
  <2> HIDE DEF y
  <2>3. x.base \in Nat /\ x.parts \in Seq(Units) /\ Len(x.parts) \in 0..(ChunkSize - 1) /\ n \in Nat
    BY <1>1, RunFields
  <2>4. Filed(Entries, chunk')
    <3>1. ~ Gone => \A e \in Entries : e[2] < n /\ Built(x, chunk, e[2]) = Audio(e[1])
      BY <1>1 DEF Good, OnFile, Ending, All
    <3>2. \A e \in Entries : e[2] \in Nat
      BY <1>1, EntriesAre DEF Offsets
    <3>3. Gone => Entries = {}
      BY DEF Sound
    <3> HIDE DEF n
    <3> QED BY <1>6, <3>1, <3>2, <3>3 DEF Sound, Filed
  <2>5. Room(y) /\ Batch(y, Entries)
    BY <1>1, <2>1 DEF Good, Room, Batch, Batching, Blank, Ending
  <2>6. ASSUME ~ Gone PROVE OnFile(y, Entries, chunk')
    <3>1. /\ n >= 2 /\ Built(x, chunk, n - 1) = Directory(Entries) /\ Built(x, chunk, n - 2) = Summary
          /\ x.parts = <<>> => Len(chunk[x.base - 1]) = ChunkSize
          /\ x.entries = Entries /\ Entries # {}
      BY <1>1, <2>6 DEF Good, OnFile
    <3>2. UnitAt(chunk', n - 1) = Directory(Entries) /\ UnitAt(chunk', n - 2) = Summary
      <4>1. n - 1 \in Nat /\ n - 2 \in Nat /\ n - 1 < n /\ n - 2 < n
        BY <2>3, <3>1
      <4> HIDE DEF n
      <4> QED BY <1>6, <3>1, <4>1
    <3>3. Len(chunk'[(n - 1) \div ChunkSize]) = ((n - 1) % ChunkSize) + 1
      <4>1. CASE x.parts = <<>>
        <5>1. Len(x.parts) = 0 /\ n = x.base * ChunkSize
          BY <2>3, <4>1 DEF EndOf
        <5>2. x.base - 1 \in Nat /\ ChunkSize - 1 \in 0..(ChunkSize - 1)
          <6>1. x.base # 0
            BY <3>1, <5>1
          <6> QED BY <2>3, <6>1
        <5>3. n - 1 = (x.base - 1) * ChunkSize + (ChunkSize - 1)
          BY <2>3, <5>1
        <5>4. (n - 1) \div ChunkSize = x.base - 1 /\ (n - 1) % ChunkSize = ChunkSize - 1
          <6> DEFINE q == x.base - 1
                     m == ChunkSize - 1
          <6>1. q \in Nat /\ m \in 0..(ChunkSize - 1)
            BY <5>2
          <6>2. (q * ChunkSize + m) \div ChunkSize = q /\ (q * ChunkSize + m) % ChunkSize = m
            <7> HIDE DEF q, m
            <7> QED BY <6>1, DivUnique
          <6>3. n - 1 = q * ChunkSize + m
            BY <5>3
          <6> HIDE DEF n, q, m
          <6>4. (n - 1) \div ChunkSize = q /\ (n - 1) % ChunkSize = m
            BY <6>2, <6>3
          <6> QED BY <6>4 DEF q, m
        <5> HIDE DEF n
        <5> QED BY <1>6, <3>1, <4>1, <5>4
      <4>2. CASE x.parts # <<>>
        <5>1. Len(x.parts) - 1 \in 0..(ChunkSize - 1)
          BY <2>3, <4>2
        <5>2. n - 1 = x.base * ChunkSize + (Len(x.parts) - 1)
          <6> DEFINE k == x.base * ChunkSize
          <6>1. n = k + Len(x.parts)
            BY DEF EndOf
          <6>2. k \in Nat
            BY <2>3
          <6>3. n - 1 = k + (Len(x.parts) - 1)
            <7> HIDE DEF k, n
            <7> QED BY <2>3, <6>1, <6>2
          <6> QED BY <6>3
        <5>3. (n - 1) \div ChunkSize = x.base /\ (n - 1) % ChunkSize = Len(x.parts) - 1
          <6> DEFINE m == Len(x.parts) - 1
          <6>1. (x.base * ChunkSize + m) \div ChunkSize = x.base /\ (x.base * ChunkSize + m) % ChunkSize = m
            <7>1. m \in 0..(ChunkSize - 1)
              BY <5>1
            <7> HIDE DEF m
            <7> QED BY <2>3, <7>1, DivUnique
          <6>2. n - 1 = x.base * ChunkSize + m
            BY <5>2
          <6> HIDE DEF n, m
          <6>3. (n - 1) \div ChunkSize = x.base /\ (n - 1) % ChunkSize = m
            BY <6>1, <6>2
          <6> QED BY <6>3 DEF m
        <5> HIDE DEF n
        <5> QED BY <1>6, <2>3, <4>2, <5>3
      <4> QED BY <4>1, <4>2
    <3> HIDE DEF n
    <3> QED BY <2>1, <3>1, <3>2, <3>3 DEF OnFile, Batching, Ending
  <2>7. Good(y, Entries', chunk', Gone)
    BY <1>3, <2>5, <2>6 DEF Good
  <2> QED BY <1>1, <1>2, <1>3, <1>6, <2>1, <2>2, <2>4, <2>7, Works DEF Sound, Shapes
<1> QED BY <1>4, <1>5, <1>6

LEMMA FinishFine == ASSUME Sound, NEW r \in Runs, Finish(r) PROVE Sound'
<1> DEFINE x == run[r]
           row == [job EXCEPT !.status = "COMPLETED", !.size = EndOf(x)]
<1>1. /\ r \in Working /\ x \in OKRun /\ Good(x, Entries, chunk, Gone) /\ x.at = "finish" /\ chunk \in OKFile
      /\ item \in [Recordings -> Item] /\ job \in Job /\ job.status # "COMPLETED"
  BY AtWork DEF Finish, At
<1>2. Rest' /\ UNCHANGED <<item, chunk>> /\ run' = [run EXCEPT ![r] = Idle]
  BY Rests DEF Finish, End
<1>3. Entries' = Entries
  BY <1>2 DEF Entries
<1>4. row \in Job /\ row.status = "COMPLETED" /\ row.size = EndOf(x)
  <2>1. EndOf(x) \in Nat /\ EndOf(x) <= NumRecordings + 2
    BY <1>1, RunFields DEF Good, Room
  <2>2. EndOf(x) \in Offsets
    BY <2>1 DEF Offsets
  <2> QED BY <1>1, <2>2 DEF Job
<1>5. job' = IF Gone THEN job ELSE row
  BY DEF Finish, Write, Gone, Offset, EndOf
<1> HIDE DEF row
<1>6. job' \in Job /\ (Gone' <=> Gone)
  BY <1>1, <1>4, <1>5 DEF Gone
<1>7. ~ Gone => Whole(Entries, chunk, EndOf(x))
  BY <1>1 DEF Good, OnFile, Whole
<1>8. job'.status = "COMPLETED" => Idle.at = "idle" /\ Whole(Entries', chunk', job'.size)
  BY <1>1, <1>2, <1>3, <1>4, <1>5, <1>7, IdleRun DEF Whole
<1>9. Good(Idle, Entries', chunk', Gone)
  BY IdleRun, InertGood
<1> QED BY <1>1, <1>2, <1>3, <1>6, <1>8, <1>9, IdleRun, Works DEF Sound, Shapes

\* A run that ends, or is to be followed by another, leaves the file to itself.
LEMMA Retires ==
    ASSUME Sound, NEW r \in Runs, NEW x \in OKRun, Inert(x), x.at \in {"idle", "again"},
           run' = [run EXCEPT ![r] = x], job' \in Job, UNCHANGED <<item, chunk>>, Rest', Gone' <=> Gone,
           job'.status = "COMPLETED" => job.status = "COMPLETED" /\ job'.size = job.size
    PROVE  Sound'
<1>1. run \in [Runs -> OKRun]
  BY DEF Sound, Shapes
<1>2. run' \in [Runs -> OKRun] /\ \A q \in Runs : run'[q] = IF q = r THEN x ELSE run[q]
  BY <1>1
<1>3. \A q \in Runs : Inert(run'[q]) \/ Good(run'[q], Entries, chunk, Gone)
  BY <1>2 DEF Sound
<1>4. Working' \subseteq Working
  <2>1. Working' = {q \in Runs : run'[q].at # "idle" /\ run'[q].at # "again"}
    BY DEF Working, At
  <2> QED BY <1>2, <2>1 DEF Working, At
<1> QED BY <1>2, <1>3, <1>4, Frames

\* Only the job is written to.
LEMMA JobOnly ==
    ASSUME Sound, job' \in Job, UNCHANGED <<item, chunk, run>>, Rest', Gone' <=> Gone,
           job'.status = "COMPLETED" => job.status = "COMPLETED" /\ job'.size = job.size
    PROVE  Sound'
<1>1. run' \in [Runs -> OKRun] /\ \A q \in Runs : Good(run'[q], Entries, chunk, Gone)
  BY DEF Sound, Shapes
<1>2. Working' \subseteq Working
  BY DEF Working, At
<1> QED BY <1>1, <1>2, Frames

LEMMA FailFine == ASSUME Sound, NEW r \in Runs, Fail(r) PROVE Sound'
<1> DEFINE row == [job EXCEPT !.status = "FAILED"]
<1>1. job \in Job /\ Rest' /\ UNCHANGED <<item, chunk>> /\ run' = [run EXCEPT ![r] = Idle] /\ Write(row)
  BY Rests DEF Sound, Shapes, Fail, End
<1>2. row \in Job /\ row.status = "FAILED"
  BY <1>1 DEF Job
<1> HIDE DEF row
<1>3. job' \in Job /\ (Gone' <=> Gone) /\ job'.status # "COMPLETED"
  BY <1>1, <1>2 DEF Write, Gone
<1> QED BY <1>1, <1>3, IdleRun, Retires

LEMMA ReleaseFine == ASSUME Sound, NEW r \in Runs, Release(r) PROVE Sound'
<1>1. r \in Working /\ job \in Job /\ job.status # "COMPLETED"
  BY AtWork DEF Release, At
<1>2. Rest' /\ UNCHANGED <<job, item, chunk>>
  BY Rests DEF Release
<1>3. CASE Gone
  <2>1. run' = [run EXCEPT ![r] = Idle] /\ (Gone' <=> Gone) /\ job' \in Job
    BY <1>1, <1>2, <1>3 DEF Release, Gone, End
  <2> QED BY <1>1, <1>2, <2>1, IdleRun, Retires
<1>4. CASE ~ Gone
  <2>1. Goto(r, "give up") \/ Goto(r, "requeue")
    BY <1>4 DEF Release, Gone
  <2>2. "give up" \in Over /\ "requeue" \in Over
    BY DEF Over
  <2> QED BY <1>1, <1>2, <2>1, <2>2, Aborts
<1> QED BY <1>3, <1>4

LEMMA RequeueFine == ASSUME Sound, NEW r \in Runs, Requeue(r) PROVE Sound'
<1> DEFINE row == [job EXCEPT !.status = "QUEUED", !.beat = "fresh"]
           x == [Idle EXCEPT !.at = "again", !.leaving = run[r].leaving]
<1>1. /\ job \in Job /\ Rest' /\ UNCHANGED <<item, chunk>> /\ run' = [run EXCEPT ![r] = x] /\ Write(row)
      /\ run[r].leaving \in BOOLEAN
  <2>1. run[r].leaving \in BOOLEAN
    BY DEF Sound, Shapes, OKRun, Run
  <2> QED BY <2>1, Rests DEF Sound, Shapes, Requeue
<1>2. row \in Job /\ row.status = "QUEUED"
  BY <1>1 DEF Job, Active
<1>3. x \in OKRun /\ Inert(x) /\ x.at = "again"
  BY <1>1, AgainRun
<1> HIDE DEF row, x
<1>4. job' \in Job /\ (Gone' <=> Gone) /\ job'.status # "COMPLETED"
  BY <1>1, <1>2 DEF Write, Gone
<1> QED BY <1>1, <1>3, <1>4, Retires

LEMMA AgainFine == ASSUME Sound, NEW r \in Runs, Again(r) PROVE Sound'
<1>1. job \in Job /\ Rest' /\ UNCHANGED <<job, item, chunk>> /\ run' = [run EXCEPT ![r] = Idle]
  BY Rests DEF Sound, Shapes, Again, End
<1>2. job' \in Job /\ (Gone' <=> Gone)
  BY <1>1 DEF Gone
<1> QED BY <1>1, <1>2, IdleRun, Retires

--------------------------------------------------------------------------------
(* What befalls a run, and the job *)

LEMMA InterruptedFine == ASSUME Sound, NEW r \in Runs, Interrupted(r) PROVE Sound'
<1>1. r \in Working
  BY DEF Interrupted, Working, At
<1>2. Rest' /\ UNCHANGED <<job, item, chunk>> /\ Goto(r, "release") /\ "release" \in Over
  BY Rests DEF Interrupted, Over
<1> QED BY <1>1, <1>2, Aborts

LEMMA NotReleasedFine == ASSUME Sound, NEW r \in Runs, NotReleased(r) PROVE Sound'
<1> DEFINE x == [Idle EXCEPT !.at = "again", !.leaving = run[r].leaving]
<1>1. job \in Job /\ Rest' /\ UNCHANGED <<job, item, chunk>>
  BY Rests DEF Sound, Shapes, NotReleased
<1>2. x \in OKRun /\ Inert(x) /\ x.at = "again"
  <2>1. run[r].leaving \in BOOLEAN
    BY DEF Sound, Shapes, OKRun, Run
  <2> QED BY <2>1, AgainRun
<1>3. run' = [run EXCEPT ![r] = Idle] \/ run' = [run EXCEPT ![r] = x]
  BY DEF NotReleased, End
<1> HIDE DEF x
<1>4. job' \in Job /\ (Gone' <=> Gone)
  BY <1>1 DEF Gone
<1> QED BY <1>1, <1>2, <1>3, <1>4, IdleRun, Retires

LEMMA StopFine == ASSUME Sound, NEW r \in Runs, Stop(r) PROVE Sound'
<1>1. job \in Job /\ UNCHANGED <<job, item, chunk>> /\ run' = [run EXCEPT ![r] = Idle]
  BY DEF Sound, Shapes, Stop, End
<1>2. Rest'
  BY Rests DEF Stop
<1>3. job' \in Job /\ (Gone' <=> Gone)
  BY <1>1 DEF Gone
<1> QED BY <1>1, <1>2, <1>3, IdleRun, Retires

\* A write to the job, whether or not it takes the export from the run at work.
LEMMA Overrides ==
    ASSUME Sound, NEW row \in Job, row.status # "COMPLETED", Override(row)
    PROVE  job' \in Job /\ (row.status # "gone" => (Gone' <=> Gone)) /\ overridden' \in BOOLEAN
           /\ job'.status # "COMPLETED"
<1>1. job \in Job /\ overridden \in BOOLEAN
  BY DEF Sound, Shapes, Rest
<1>2. job' = (IF Gone THEN job ELSE row) /\ overridden' \in BOOLEAN
  BY <1>1 DEF Override, Write, Gone
<1> QED BY <1>1, <1>2 DEF Gone

LEMMA TerminateFine == ASSUME Sound, NEW r \in Runs, Terminate(r) PROVE Sound'
<1> DEFINE row == [job EXCEPT !.status = "QUEUED", !.beat = "stale"]
           x == [run[r] EXCEPT !.leaving = TRUE]
<1>1. /\ job \in Job /\ Rest /\ run \in [Runs -> OKRun] /\ run[r] \in OKRun /\ run[r] \in Run
      /\ Good(run[r], Entries, chunk, Gone)
  BY DEF Sound, Shapes, OKRun
<1>2. row \in Job /\ row.status = "QUEUED" /\ Override(row)
  BY <1>1 DEF Job, Active, Terminate
<1> HIDE DEF row
<1>3. job' \in Job /\ (Gone' <=> Gone) /\ job'.status # "COMPLETED" /\ overridden' \in BOOLEAN
  BY <1>2, Overrides
<1>4. run' = [run EXCEPT ![r] = x] /\ UNCHANGED <<item, chunk>>
  BY DEF Terminate
<1>5. Rest'
  BY <1>1, <1>3 DEF Rest, Terminate, Fault
<1>6. /\ x.at = run[r].at /\ x.base = run[r].base /\ x.parts = run[r].parts /\ x.todo = run[r].todo
      /\ x.unsaved = run[r].unsaved /\ x.entries = run[r].entries /\ x \in Run
  BY <1>1 DEF Run
<1> HIDE DEF x
<1>7. x \in OKRun /\ Good(x, Entries, chunk, Gone)
  BY <1>1, <1>6, Alike DEF OKRun
<1>8. \A q \in Runs : run'[q] = IF q = r THEN x ELSE run[q]
  BY <1>1, <1>4
<1>9. run' \in [Runs -> OKRun] /\ \A q \in Runs : Good(run'[q], Entries, chunk, Gone)
  BY <1>1, <1>4, <1>7, <1>8 DEF Sound
<1>10. Working' \subseteq Working
  <2>1. Working' = {q \in Runs : run'[q].at # "idle" /\ run'[q].at # "again"}
    BY DEF Working, At
  <2> QED BY <1>6, <1>8, <2>1 DEF Working, At
<1> QED BY <1>3, <1>4, <1>5, <1>9, <1>10, Frames

LEMMA BeatFine == ASSUME Sound, NEW r \in Runs, Beat(r) PROVE Sound'
<1> DEFINE row == [job EXCEPT !.beat = "fresh"]
<1>1. job \in Job /\ Rest' /\ UNCHANGED <<item, chunk, run>> /\ Write(row) /\ job.status = "PROCESSING"
  BY Rests DEF Sound, Shapes, Beat
<1>2. row \in Job /\ row.status = "PROCESSING"
  BY <1>1 DEF Job
<1> HIDE DEF row
<1>3. job' \in Job /\ (Gone' <=> Gone) /\ job'.status # "COMPLETED"
  BY <1>1, <1>2 DEF Write, Gone
<1> QED BY <1>1, <1>3, JobOnly

LEMMA StallFine == ASSUME Sound, Stall PROVE Sound'
<1> DEFINE row == [job EXCEPT !.beat = "stale"]
<1>1. job \in Job /\ Rest /\ UNCHANGED <<item, chunk, run>> /\ Override(row) /\ job.status = "PROCESSING"
  BY DEF Sound, Shapes, Stall
<1>2. row \in Job /\ row.status = "PROCESSING"
  BY <1>1 DEF Job
<1> HIDE DEF row
<1>3. job' \in Job /\ (Gone' <=> Gone) /\ job'.status # "COMPLETED" /\ overridden' \in BOOLEAN
  BY <1>1, <1>2, Overrides
<1>4. Rest'
  BY <1>1, <1>3 DEF Rest, Stall, Fault
<1> QED BY <1>1, <1>3, <1>4, JobOnly

LEMMA AgeFine == ASSUME Sound, Age PROVE Sound'
<1> DEFINE row == [job EXCEPT !.beat = "stale"]
<1>1. /\ job \in Job /\ Rest' /\ UNCHANGED <<item, chunk, run>> /\ job' = row
      /\ job.status \in {"QUEUED", "PROCESSING"}
  BY Rests DEF Sound, Shapes, Age
<1>2. row \in Job /\ row.status = job.status
  BY <1>1 DEF Job
<1> HIDE DEF row
<1>3. job' \in Job /\ (Gone' <=> Gone) /\ job'.status # "COMPLETED"
  BY <1>1, <1>2 DEF Gone
<1> QED BY <1>1, <1>3, JobOnly

\* A claim that finds no other run at work.
LEMMA TakeFine == ASSUME Sound, NEW r \in Runs, Take(r), ~ shared' PROVE Sound'
<1>1. /\ job \in Job /\ Rest /\ run \in [Runs -> OKRun] /\ run[r] \in OKRun /\ run[r] \in Run
      /\ Good(run[r], Entries, chunk, Gone) /\ run[r].at = "idle"
  BY DEF Sound, Shapes, OKRun, Take, At
<1>2. UNCHANGED <<item, chunk, sweep, client, retries, faults, overridden>>
  BY DEF Take
<1>3. Rest'
  <2>1. shared' \in BOOLEAN
    BY <1>1 DEF Rest, Take
  <2>2. queue' \in 0..MaxMessages
    BY <1>1 DEF Rest, Take
  <2> QED BY <1>1, <1>2, <2>1, <2>2 DEF Rest
<1>4. CASE ~ Claimable
  <2>1. UNCHANGED <<job, run>>
    BY <1>4 DEF Take
  <2> QED BY <1>1, <1>2, <1>3, <2>1, JobOnly DEF Gone
<1>5. CASE Claimable
  <2> DEFINE row == [job EXCEPT !.status = "PROCESSING", !.beat = "fresh",
                                !.attempts = IF @ < MaxAttempts THEN @ + 1 ELSE @]
             x == [run[r] EXCEPT !.at = "items"]
  <2>1. job' = row /\ Goto(r, "items") /\ Working = {}
    BY <1>5 DEF Take
  <2>2. x \in OKRun /\ x.at = "items" /\ x.unsaved = run[r].unsaved /\ run' = [run EXCEPT ![r] = x]
    <3>1. "items" \in Phases
      BY DEF Phases
    <3> QED BY <2>1, <3>1, Moves, GotoRun
  <2> HIDE DEF x
  <2>3. row \in Job /\ row.status = "PROCESSING"
    <3>1. job.attempts \in 0..MaxAttempts
      BY <1>1 DEF Job
    <3>2. (IF job.attempts < MaxAttempts THEN job.attempts + 1 ELSE job.attempts) \in 0..MaxAttempts
      BY <3>1
    <3> QED BY <1>1, <3>2 DEF Job, Active
  <2> HIDE DEF row
  <2>4. job' \in Job /\ job'.status = "PROCESSING" /\ ~ Gone' /\ ~ Gone
    BY <1>5, <2>1, <2>3 DEF Gone, Claimable
  <2>5. \A q \in Runs : run'[q] = IF q = r THEN x ELSE run[q]
    BY <1>1, <2>2
  <2>6. Inert(x)
    BY <1>1, <2>2 DEF Good, Batch, Inert, Blank
  <2>7. \A q \in Runs : Good(run'[q], Entries', chunk', Gone')
    <3>1. Entries' = Entries
      BY <1>2 DEF Entries
    <3>2. Good(x, Entries', chunk', Gone')
      BY <2>6, InertGood
    <3>3. \A q \in Runs : Good(run[q], Entries', chunk', Gone')
      BY <1>2, <2>4, <3>1 DEF Sound, Good
    <3> QED BY <2>5, <3>2, <3>3
  <2>8. Alone'
    <3>1. Working' = {q \in Runs : run'[q].at # "idle" /\ run'[q].at # "again"}
      BY DEF Working, At
    <3>2. \A q \in Working' : q = r
      BY <2>1, <2>5, <3>1 DEF Working, At
    <3> QED BY <3>2 DEF Alone
  <2>9. Shapes'
    BY <1>1, <1>2, <1>3, <2>2, <2>4 DEF Sound, Shapes
  <2>10. Filed(Entries, chunk)' 
    BY <1>2 DEF Sound, Entries
  <2> QED BY <2>4, <2>7, <2>8, <2>9, <2>10 DEF Sound, Gone
<1> QED BY <1>4, <1>5

--------------------------------------------------------------------------------
(* Maintenance and the requests of users *)

LEMMA FindFine == ASSUME Sound, NEW s \in Sweeps, Find(s) PROVE Sound'
<1>1. job \in Job /\ Rest /\ UNCHANGED <<job, item, chunk, run>>
  BY DEF Sound, Shapes, Find
<1>2. Rest'
  BY <1>1 DEF Rest, Find
<1> QED BY <1>1, <1>2, JobOnly DEF Gone

LEMMA HandBackFine == ASSUME Sound, NEW s \in Sweeps, HandBack(s) PROVE Sound'
<1> DEFINE row == [job EXCEPT !.status = "QUEUED", !.beat = "fresh"]
<1>1. job \in Job /\ Rest /\ UNCHANGED <<item, chunk, run>> /\ Override(row)
  BY DEF Sound, Shapes, HandBack
<1>2. row \in Job /\ row.status = "QUEUED"
  BY <1>1 DEF Job, Active
<1> HIDE DEF row
<1>3. job' \in Job /\ (Gone' <=> Gone) /\ job'.status # "COMPLETED" /\ overridden' \in BOOLEAN
  BY <1>1, <1>2, Overrides
<1>4. Rest'
  BY <1>1, <1>3 DEF Rest, HandBack
<1> QED BY <1>1, <1>3, <1>4, JobOnly

LEMMA EnqueueFine == ASSUME Sound, NEW s \in Sweeps, Enqueue(s) PROVE Sound'
<1>1. job \in Job /\ Rest /\ UNCHANGED <<job, item, chunk, run>>
  BY DEF Sound, Shapes, Enqueue
<1>2. queue' \in 0..MaxMessages /\ faults' \in 0..MaxFaults
  BY <1>1 DEF Rest, Enqueue, Enqueued, Fault
<1>3. Rest'
  BY <1>1, <1>2 DEF Rest, Enqueue
<1> QED BY <1>1, <1>3, JobOnly DEF Gone

LEMMA ExpireFine == ASSUME Sound, Expire PROVE Sound'
<1>1. job \in Job /\ Rest /\ run \in [Runs -> OKRun] /\ UNCHANGED <<queue, run, sweep, client, retries, faults, overridden, shared>>
  BY DEF Sound, Shapes, Expire
<1>2. Rest'
  BY <1>1 DEF Rest
<1>3. job' \in Job /\ job'.status = "gone" /\ Gone'
  <2>1. 0 \in Offsets /\ 0 \in 0..MaxAttempts
    BY DEF Offsets
  <2> QED BY <1>1, <2>1 DEF Expire, Job, Gone
<1>4. item' \in [Recordings -> Item] /\ Entries' = {}
  <2>1. item' = [i \in Recordings |-> [status |-> "none", at |-> 0]] /\ 0 \in Offsets
    BY DEF Expire, Offsets
  <2> QED BY <2>1 DEF Item, Entries
<1>5. chunk' \in OKFile
  <2>1. <<>> \in Seq(Units) /\ Len(<<>>) <= ChunkSize
    <3>1. <<>> \in Seq(Units) /\ Len(<<>>) = 0
      OBVIOUS
    <3> QED BY <3>1
  <2>2. chunk' = [c \in Chunks |-> <<>>]
    BY DEF Expire
  <2> QED BY <2>1, <2>2 DEF OKFile
<1>6. Filed(Entries', chunk')
  <2>1. 0 \in Nat /\ Dense({}, 0)
    BY DEF Dense
  <2> QED BY <1>4, <2>1 DEF Filed
<1>7. \A q \in Runs : Good(run'[q], Entries', chunk', Gone')
  <2> TAKE q \in Runs
  <2>1. Room(run[q]) /\ Batch(run[q], Entries)
    BY DEF Sound, Good
  <2>2. Batch(run[q], {})
    BY <2>1 DEF Batch
  <2> QED BY <1>1, <1>3, <1>4, <2>1, <2>2 DEF Good
<1>8. Alone'
  <2>1. Working' = Working
    BY <1>1 DEF Working, At
  <2> QED BY <2>1 DEF Alone, Sound
<1> QED BY <1>1, <1>2, <1>3, <1>4, <1>5, <1>6, <1>7, <1>8 DEF Sound, Shapes

LEMMA StartFine == ASSUME Sound, NEW c \in Clients, Start(c) PROVE Sound'
<1> DEFINE row == [job EXCEPT !.status = "FAILED"]
<1>1. job \in Job /\ Rest /\ UNCHANGED <<item, chunk, run>>
  BY DEF Sound, Shapes, Start
<1>2. row \in Job /\ row.status = "FAILED"
  BY <1>1 DEF Job
<1>3. UNCHANGED <<job, overridden>> \/ Override(row)
  BY DEF Start
<1> HIDE DEF row
<1>4. /\ job' \in Job /\ (Gone' <=> Gone) /\ overridden' \in BOOLEAN
      /\ job'.status = "COMPLETED" => job' = job
  <2>1. CASE UNCHANGED <<job, overridden>>
    BY <1>1, <2>1 DEF Rest, Gone
  <2>2. CASE Override(row)
    BY <1>2, <2>2, Overrides
  <2> QED BY <1>3, <2>1, <2>2
<1>5. Rest'
  <2>1. queue' \in 0..MaxMessages /\ faults' \in 0..MaxFaults
    BY <1>1 DEF Rest, Start, Enqueued, Fault
  <2>2. client' \in [Clients -> {"idle", "start", "reset", "requeue"}]
    BY <1>1 DEF Rest, Start, Reply
  <2>3. UNCHANGED <<sweep, retries, shared>>
    BY DEF Start
  <2> QED BY <1>1, <1>4, <2>1, <2>2, <2>3 DEF Rest
<1> QED BY <1>1, <1>4, <1>5, JobOnly

LEMMA RetryFine == ASSUME Sound, NEW c \in Clients, Retry(c) PROVE Sound'
<1>1. job \in Job /\ Rest /\ UNCHANGED <<job, item, chunk, run>>
  BY DEF Sound, Shapes, Retry
<1>2. Rest'
  <2>1. retries' \in 0..MaxRetries
    BY <1>1 DEF Rest, Retry
  <2> QED BY <1>1, <2>1 DEF Rest, Retry, Reply
<1> QED BY <1>1, <1>2, JobOnly DEF Gone

LEMMA LostFine == ASSUME Sound, NEW c \in Clients, Lost(c) PROVE Sound'
<1>1. Rest /\ UNCHANGED <<job, item, chunk, run>>
  BY DEF Sound, Shapes, Lost
<1>2. Rest'
  BY <1>1 DEF Rest, Lost, Reply
<1> QED BY <1>1, <1>2, JobOnly DEF Gone, Sound, Shapes

\* What is recorded as downloaded stays as it is.
LEMMA ResetKeeps ==
    ASSUME Sound, NEW c \in Clients, Reset(c)
    PROVE  /\ item' \in [Recordings -> Item] /\ Entries' = Entries
           /\ \A i \in Recordings : item[i].status = "DONE" => item'[i] = item[i]
<1>1. item \in [Recordings -> Item]
  BY DEF Sound, Shapes
<1>2. item' = [i \in Recordings |->
                 IF item[i].status = "FAILED" THEN [item[i] EXCEPT !.status = "PENDING"] ELSE item[i]]
  BY DEF Reset
<1>3. \A i \in Recordings : [item[i] EXCEPT !.status = "PENDING"] \in Item
                            /\ [item[i] EXCEPT !.status = "PENDING"].status = "PENDING"
  BY <1>1 DEF Item
<1>4. item' \in [Recordings -> Item]
  BY <1>1, <1>2, <1>3
<1>5. \A i \in Recordings : item'[i] = item[i] \/ (item[i].status = "FAILED" /\ item'[i].status = "PENDING")
  BY <1>2, <1>3
<1>6. Entries' = Entries
  BY <1>5 DEF Entries
<1> QED BY <1>4, <1>5, <1>6

LEMMA ResetFine == ASSUME Sound, NEW c \in Clients, Reset(c) PROVE Sound'
<1>1. Rest /\ UNCHANGED <<job, chunk, run>>
  BY DEF Sound, Shapes, Reset
<1>2. Rest'
  BY <1>1 DEF Rest, Reset, Reply
<1>3. item' \in [Recordings -> Item] /\ Entries' = Entries
  BY ResetKeeps
<1>4. Working' = Working /\ Gone' = Gone
  BY <1>1 DEF Working, At, Gone
<1>5. Alone' /\ (job'.status = "COMPLETED" => Working' = {})
  BY <1>1, <1>4 DEF Sound, Alone
<1>6. Shapes'
  BY <1>1, <1>2, <1>3 DEF Sound, Shapes
<1>7. Filed(Entries', chunk') /\ (Gone' => Entries' = {})
  BY <1>1, <1>3, <1>4 DEF Sound
<1>8. job'.status = "COMPLETED" => Whole(Entries', chunk', job'.size)
  BY <1>1, <1>3 DEF Sound
<1>9. \A q \in Runs : Good(run'[q], Entries', chunk', Gone')
  BY <1>1, <1>3, <1>4 DEF Sound
<1> QED BY <1>5, <1>6, <1>7, <1>8, <1>9 DEF Sound

LEMMA ReopenFine == ASSUME Sound, NEW c \in Clients, Reopen(c) PROVE Sound'
<1> DEFINE row == [job EXCEPT !.status = "QUEUED", !.beat = "fresh", !.attempts = 0]
<1>1. job \in Job /\ Rest /\ UNCHANGED <<item, chunk, run>> /\ Override(row)
  BY DEF Sound, Shapes, Reopen
<1>2. row \in Job /\ row.status = "QUEUED"
  <2>1. 0 \in 0..MaxAttempts
    OBVIOUS
  <2> QED BY <1>1, <2>1 DEF Job, Active
<1> HIDE DEF row
<1>3. job' \in Job /\ (Gone' <=> Gone) /\ job'.status # "COMPLETED" /\ overridden' \in BOOLEAN
  BY <1>1, <1>2, Overrides
<1>4. Rest'
  BY <1>1, <1>3 DEF Rest, Reopen, Reply
<1> QED BY <1>1, <1>3, <1>4, JobOnly

--------------------------------------------------------------------------------
(* The theorems *)

LEMMA InitFine == ASSUME Init PROVE Sound /\ overridden = FALSE /\ shared = FALSE
<1>1. PICK unavailable \in SUBSET Recordings :
        /\ item = [i \in Recordings |->
                     [status |-> IF i \in unavailable THEN "FAILED" ELSE "PENDING", at |-> 0]]
        /\ job = [status |-> "QUEUED", beat |-> "fresh", attempts |-> 0,
                  failed |-> unavailable # {}, size |-> 0]
  BY DEF Init
<1>2. 0 \in Offsets /\ 0 \in 0..MaxAttempts
  BY DEF Offsets
<1>3. job \in Job /\ job.status = "QUEUED"
  BY <1>1, <1>2 DEF Job, Active
<1>4. item \in [Recordings -> Item] /\ \A i \in Recordings : item[i].status # "DONE"
  BY <1>1, <1>2 DEF Item
<1>5. Entries = {}
  BY <1>4 DEF Entries
<1>6. chunk \in OKFile
  <2>1. <<>> \in Seq(Units) /\ Len(<<>>) <= ChunkSize
    <3>1. <<>> \in Seq(Units) /\ Len(<<>>) = 0
      OBVIOUS
    <3> QED BY <3>1
  <2>2. chunk = [c \in Chunks |-> <<>>]
    BY DEF Init
  <2> QED BY <2>1, <2>2 DEF OKFile
<1>7. run = [r \in Runs |-> Idle]
  BY DEF Init
<1>8. run \in [Runs -> OKRun] /\ Working = {} /\ \A r \in Runs : Good(run[r], Entries, chunk, Gone)
  BY <1>7, IdleRun, InertGood DEF Working, At
<1>9. Rest
  <2>1. queue = 0 /\ retries = 0 /\ faults = 0 /\ overridden = FALSE /\ shared = FALSE
    BY DEF Init
  <2>2. 0 \in 0..MaxMessages /\ 0 \in 0..MaxRetries /\ 0 \in 0..MaxFaults
    OBVIOUS
  <2>3. sweep \in [Sweeps -> {"idle", "found", "enqueue"}]
    BY DEF Init
  <2>4. client \in [Clients -> {"idle", "start", "reset", "requeue"}]
    BY DEF Init
  <2> QED BY <2>1, <2>2, <2>3, <2>4 DEF Rest
<1>10. Filed(Entries, chunk)
  <2>1. 0 \in Nat /\ Dense({}, 0)
    BY DEF Dense
  <2> QED BY <1>5, <2>1 DEF Filed
<1> QED BY <1>3, <1>4, <1>5, <1>6, <1>8, <1>9, <1>10 DEF Sound, Shapes, Alone, Init

LEMMA StepFine == ASSUME Sound, NEW r \in Runs, Step(r) PROVE Sound'
BY ItemsFine, OpenFine, FetchFine, CheckpointFine, SaveItemsFine, SaveJobFine, ReloadFine, PutSummaryFine,
   PutDirectoryFine, LastFlushFine, FinishFine, FailFine, ReleaseFine, RequeueFine, AgainFine DEF Step

LEMMA NextFine == ASSUME Sound, [Next]_vars, ~ shared' PROVE Sound'
<1>1. CASE \E r \in Runs : Take(r) \/ Step(r) \/ Interrupted(r) \/ NotReleased(r) \/ Stop(r)
                            \/ Terminate(r) \/ Beat(r)
  BY <1>1, TakeFine, StepFine, InterruptedFine, NotReleasedFine, StopFine, TerminateFine, BeatFine
<1>2. CASE Stall \/ Age \/ Expire
  BY <1>2, StallFine, AgeFine, ExpireFine
<1>3. CASE \E s \in Sweeps : Sweep(s)
  BY <1>3, FindFine, HandBackFine, EnqueueFine DEF Sweep
<1>4. CASE \E c \in Clients : Retry(c) \/ Request(c) \/ Lost(c)
  BY <1>4, RetryFine, StartFine, ResetFine, ReopenFine, LostFine DEF Request
<1>5. CASE UNCHANGED vars
  <2>1. UNCHANGED <<job, item, chunk, run>> /\ Rest'
    BY <1>5 DEF vars, Sound, Shapes, Rest
  <2> QED BY <2>1, JobOnly DEF Sound, Shapes, Gone
<1> QED BY <1>1, <1>2, <1>3, <1>4, <1>5 DEF Next

LEMMA SharedStays == ASSUME [Next]_vars, shared PROVE shared'
BY DEF Next, vars, Take, Step, Items, Open, Fetch, Checkpoint, SaveItems, SaveJob, Reload, PutSummary,
       PutDirectory, LastFlush, Finish, Fail, Release, Requeue, Again, Interrupted, NotReleased, Stop,
       Terminate, Beat, Stall, Age, Expire, Sweep, Find, HandBack, Enqueue, Retry, Request, Start, Reset, Reopen, Lost

\* As long as no run at work lost its claim, the claim is seen to be held.
Held == Working # {} => Gone \/ (job.status = "PROCESSING" /\ job.beat = "fresh")

\* The job is as it was, or its heartbeat was refreshed.
LEMMA StillHeld ==
    ASSUME Held, Working' # {} => Working # {},
           job' = job \/ (job'.status = job.status /\ job'.beat = "fresh")
    PROVE  Held'
BY DEF Held, Gone

\* The only run at work is done.
LEMMA NobodyLeft ==
    ASSUME Sound, NEW r \in Runs, NEW x \in OKRun, x.at \in {"idle", "again"}, run' = [run EXCEPT ![r] = x]
    PROVE  Working' \subseteq Working /\ (r \in Working => Working' = {})
<1>1. run \in [Runs -> OKRun]
  BY DEF Sound, Shapes
<1>2. \A q \in Runs : run'[q] = IF q = r THEN x ELSE run[q]
  BY <1>1
<1>3. Working' = {q \in Runs : run'[q].at # "idle" /\ run'[q].at # "again"}
  BY DEF Working, At
<1>4. Working' \subseteq Working \ {r}
  BY <1>2, <1>3 DEF Working, At
<1> QED BY <1>4 DEF Sound, Alone

LEMMA NoWork == ASSUME UNCHANGED run PROVE Working' = Working
BY DEF Working, At

\* A write that took the claim from a run at work is noted.
LEMMA OverrideNoted ==
    ASSUME Held, ~ overridden, NEW row, Override(row), ~ overridden', Working' = Working
    PROVE  Held'
<1>1. Working = {} \/ job.status # "PROCESSING"
  BY DEF Override
<1>2. Working = {} \/ Gone
  BY <1>1 DEF Held
<1>3. Gone => Gone'
  BY DEF Override, Write, Gone
<1> QED BY <1>2, <1>3 DEF Held

LEMMA StepHeld ==
    ASSUME Sound, Held, NEW r \in Runs, Step(r)
    PROVE  Held'
<1> DEFINE again == [Idle EXCEPT !.at = "again", !.leaving = run[r].leaving]
<1>1. CASE Items(r) \/ Open(r) \/ Fetch(r) \/ Checkpoint(r) \/ SaveItems(r) \/ Reload(r) \/ PutSummary(r)
            \/ PutDirectory(r) \/ LastFlush(r) \/ Release(r)
  <2>1. job' = job
    BY <1>1 DEF Items, Open, Fetch, Checkpoint, SaveItems, Reload, PutSummary, PutDirectory, LastFlush, Release
  <2>2. ~ At(r, "idle") /\ ~ At(r, "again")
    BY <1>1 DEF At, Items, Open, Fetch, Checkpoint, SaveItems, Reload, PutSummary, PutDirectory, LastFlush, Release
  <2>3. Working # {}
    BY <2>2 DEF Working
  <2> QED BY <2>1, <2>3, StillHeld
<1>2. CASE SaveJob(r)
  <2>1. r \in Working
    BY <1>2 DEF Working, At, SaveJob
  <2>2. job \in Job
    BY DEF Sound, Shapes
  <2>3. job' = job \/ (job'.status = job.status /\ job'.beat = "fresh")
    <3> DEFINE row == [job EXCEPT !.failed = \E i \in Recordings : item[i].status = "FAILED", !.beat = "fresh"]
    <3>1. row.status = job.status /\ row.beat = "fresh"
      BY <2>2 DEF Job
    <3>2. Write(row)
      BY <1>2 DEF SaveJob
    <3> HIDE DEF row
    <3> QED BY <3>1, <3>2 DEF Write
  <2> QED BY <2>1, <2>3, StillHeld
<1>3. CASE Finish(r) \/ Fail(r)
  <2>1. run' = [run EXCEPT ![r] = Idle] /\ r \in Working
    BY <1>3 DEF Finish, Fail, End, Working, At
  <2>2. Idle \in OKRun /\ Idle.at \in {"idle", "again"}
    BY IdleRun
  <2>3. Working' = {}
    BY <2>1, <2>2, NobodyLeft
  <2> QED BY <2>3 DEF Held
<1>4. CASE Requeue(r)
  <2>1. run' = [run EXCEPT ![r] = again] /\ r \in Working
    BY <1>4 DEF Requeue, Working, At
  <2>2. again \in OKRun /\ again.at \in {"idle", "again"}
    <3>1. run[r].leaving \in BOOLEAN
      BY DEF Sound, Shapes, OKRun, Run
    <3> QED BY <3>1, AgainRun
  <2> HIDE DEF again
  <2>3. Working' = {}
    BY <2>1, <2>2, NobodyLeft
  <2> QED BY <2>3 DEF Held
<1>5. CASE Again(r)
  <2>1. run' = [run EXCEPT ![r] = Idle] /\ job' = job
    BY <1>5 DEF Again, End
  <2>2. Idle \in OKRun /\ Idle.at \in {"idle", "again"}
    BY IdleRun
  <2>3. Working' \subseteq Working
    BY <2>1, <2>2, NobodyLeft
  <2> QED BY <2>1, <2>3, StillHeld
<1> QED BY <1>1, <1>2, <1>3, <1>4, <1>5 DEF Step

LEMMA NextHeld ==
    ASSUME Sound, Held, ~ overridden, ~ shared, [Next]_vars, ~ overridden'
    PROVE  Held' /\ ~ shared'
<1>1. CASE \E r \in Runs : Take(r)
  <2>1. PICK r \in Runs : Take(r)
    BY <1>1
  <2>2. CASE Claimable
    <3>1. Working = {}
      BY <2>2 DEF Held, Claimable, Gone
    <3>2. job \in Job
      BY DEF Sound, Shapes
    <3>3. job'.status = "PROCESSING" /\ job'.beat = "fresh"
      BY <2>1, <2>2, <3>2 DEF Take, Job
    <3>4. shared' = (shared \/ Working # {})
      BY <2>1, <2>2 DEF Take
    <3> QED BY <3>1, <3>3, <3>4 DEF Held
  <2>3. CASE ~ Claimable
    <3>1. UNCHANGED <<job, run, shared>>
      BY <2>1, <2>3 DEF Take
    <3> QED BY <3>1, NoWork, StillHeld
  <2> QED BY <2>2, <2>3
<1>2. CASE \E r \in Runs : Step(r)
  <2>1. shared' = shared
    BY <1>2 DEF Step, Items, Open, Fetch, Checkpoint, SaveItems, SaveJob, Reload, PutSummary,
       PutDirectory, LastFlush, Finish, Fail, Release, Requeue, Again
  <2> QED BY <1>2, <2>1, StepHeld
<1>3. CASE \E r \in Runs : Interrupted(r) \/ NotReleased(r) \/ Stop(r)
  <2>1. PICK r \in Runs : Interrupted(r) \/ NotReleased(r) \/ Stop(r)
    BY <1>3
  <2>2. job' = job /\ shared' = shared
    BY <2>1 DEF Interrupted, NotReleased, Stop
  <2>3. Working' # {} => Working # {}
    <3>1. CASE Interrupted(r)
      <4>1. r \in Working
        BY <3>1 DEF Interrupted, Working, At
      <4> QED BY <4>1
    <3>2. CASE NotReleased(r) \/ Stop(r)
      <4> DEFINE again == [Idle EXCEPT !.at = "again", !.leaving = run[r].leaving]
      <4>1. run' = [run EXCEPT ![r] = Idle] \/ run' = [run EXCEPT ![r] = again]
        BY <3>2 DEF NotReleased, Stop, End
      <4>2. again \in OKRun /\ again.at = "again" /\ Idle \in OKRun /\ Idle.at = "idle"
        <5>1. run[r].leaving \in BOOLEAN
          BY DEF Sound, Shapes, OKRun, Run
        <5> QED BY <5>1, AgainRun, IdleRun
      <4> HIDE DEF again
      <4>3. Working' \subseteq Working
        BY <4>1, <4>2, NobodyLeft
      <4> QED BY <4>3
    <3> QED BY <2>1, <3>1, <3>2
  <2> QED BY <2>2, <2>3, StillHeld
<1>4. CASE (\E r \in Runs : Terminate(r)) \/ Stall
  <2>1. Working # {} /\ job.status = "PROCESSING"
    BY <1>4 DEF Terminate, Stall
  <2>2. overridden'
    BY <1>4, <2>1 DEF Terminate, Stall, Override
  <2> QED BY <2>2
<1>5. CASE \E r \in Runs : Beat(r)
  <2>1. job \in Job
    BY DEF Sound, Shapes
  <2>2. UNCHANGED <<run, shared>> /\ Write([job EXCEPT !.beat = "fresh"])
    BY <1>5 DEF Beat
  <2>3. job' = job \/ (job'.status = job.status /\ job'.beat = "fresh")
    BY <2>1, <2>2 DEF Write, Job
  <2> QED BY <2>2, <2>3, NoWork, StillHeld
<1>6. CASE Age
  <2>1. UNCHANGED <<run, shared>> /\ (job.status = "QUEUED" \/ Working = {})
    BY <1>6 DEF Age
  <2>2. Working = {}
    BY <2>1 DEF Held, Gone
  <2> QED BY <2>1, <2>2, NoWork DEF Held
<1>7. CASE Expire
  <2>1. UNCHANGED shared /\ job'.status = "gone"
    <3>1. job \in Job
      BY DEF Sound, Shapes
    <3> QED BY <1>7, <3>1 DEF Expire, Job
  <2> QED BY <2>1 DEF Held, Gone
<1>8. CASE (\E s \in Sweeps : Sweep(s)) \/ (\E c \in Clients : Retry(c) \/ Request(c) \/ Lost(c))
  <2>1. UNCHANGED <<run, shared>>
    BY <1>8 DEF Sweep, Find, HandBack, Enqueue, Retry, Request, Start, Reset, Reopen, Lost
  <2>2. job' = job \/ \E row : Override(row)
    BY <1>8 DEF Sweep, Find, HandBack, Enqueue, Retry, Request, Start, Reset, Reopen, Lost
  <2>3. CASE job' = job
    BY <2>1, <2>3, NoWork, StillHeld
  <2>4. CASE \E row : Override(row)
    BY <2>1, <2>4, NoWork, OverrideNoted
  <2> QED BY <2>1, <2>2, <2>3, <2>4
<1>9. CASE UNCHANGED vars
  <2>1. UNCHANGED <<job, run, shared>>
    BY <1>9 DEF vars
  <2> QED BY <2>1, NoWork, StillHeld
<1> QED BY <1>1, <1>2, <1>3, <1>4, <1>5, <1>6, <1>7, <1>8, <1>9 DEF Next

LEMMA OverriddenStays == ASSUME [Next]_vars, overridden PROVE overridden'
BY DEF Next, vars, Take, Step, Items, Open, Fetch, Checkpoint, SaveItems, SaveJob, Reload, PutSummary,
       PutDirectory, LastFlush, Finish, Fail, Release, Requeue, Again, Interrupted, NotReleased, Stop,
       Terminate, Beat, Stall, Age, Expire, Sweep, Find, HandBack, Enqueue, Retry, Request, Start, Reset, Reopen, Lost,
       Override

\* Sound as long as two runs have never been at work at once, which they have not been as
\* long as none lost its claim.
Inv == (~ shared => Sound) /\ (~ overridden => ~ shared /\ Held)

LEMMA Invariant == Spec => []Inv
<1>1. Init => Inv
  <2> SUFFICES ASSUME Init PROVE Inv
    OBVIOUS
  <2>1. Working = {}
    BY IdleRun DEF Init, Working, At
  <2> QED BY <2>1, InitFine DEF Inv, Held
<1>2. Inv /\ [Next]_vars => Inv'
  <2> SUFFICES ASSUME Inv, [Next]_vars PROVE Inv'
    OBVIOUS
  <2>1. ~ shared' => Sound'
    BY SharedStays, NextFine DEF Inv
  <2>2. ~ overridden' => ~ shared' /\ Held'
    BY OverriddenStays, NextHeld DEF Inv
  <2> QED BY <2>1, <2>2 DEF Inv
<1> QED BY <1>1, <1>2, PTL DEF Spec

\* The type invariant, until two runs work on one export at once: then their units may
\* outgrow the file.
THEOREM TypeCorrect == Spec => [](~ shared => TypeOK)
<1>1. Inv => (~ shared => TypeOK)
  BY ShapesAreTypes DEF Inv, Sound
<1> QED BY <1>1, Invariant, PTL

\* A claim excludes all others (claimExport): two runs are at work on one export only after
\* one lost its claim, to a write that did not look at the job again or to late heartbeats.
THEOREM OneRunAlways == Spec => []OneRunPerClaim
<1>1. Inv => OneRunPerClaim
  BY DEF Inv, OneRunPerClaim
<1> QED BY <1>1, Invariant, PTL

\* What is recorded as downloaded (saveItemResults) is in the stored file at its offset,
\* however often the export is interrupted, resumed or retried.
THEOREM StoredAlways == Spec => []RecordedIsStored
<1>1. Inv => RecordedIsStored
  <2> SUFFICES ASSUME Sound, NEW i \in Recordings, item[i].status = "DONE"
               PROVE  Stored(item[i].at) = Audio(i)
    BY DEF Inv, RecordedIsStored
  <2>1. <<i, item[i].at>> \in Entries
    BY DEF Entries
  <2>2. UnitAt(chunk, item[i].at) = Audio(i)
    BY <2>1 DEF Sound, Filed
  <2> QED BY <2>2 DEF Stored, UnitAt
<1> QED BY <1>1, Invariant, PTL

\* The file of a completed export (finishExport) ends with the directory of exactly the
\* recordings that are recorded as downloaded, after the summary, and with nothing behind it.
THEOREM WholeAlways == Spec => []CompletedIsWhole
<1>1. Inv => CompletedIsWhole
  <2> DEFINE last == job.size - 1
  <2> SUFFICES ASSUME Sound, job.status = "COMPLETED"
               PROVE  /\ Entries # {} /\ Stored(last) = Directory(Entries) /\ Stored(last - 1) = Summary
                      /\ Len(chunk[last \div ChunkSize]) = (last % ChunkSize) + 1
    BY DEF Inv, CompletedIsWhole
  <2>1. Whole(Entries, chunk, job.size)
    BY DEF Sound
  <2>2. last - 1 = job.size - 2
    BY DEF Sound, Shapes, Job, Offsets
  <2>3. Stored(last) = UnitAt(chunk, job.size - 1) /\ Stored(last - 1) = UnitAt(chunk, job.size - 2)
    BY <2>2 DEF Stored, UnitAt
  <2> QED BY <2>1, <2>3 DEF Whole
<1> QED BY <1>1, Invariant, PTL

\* Saving a batch records nothing that is recorded already.
LEMMA SaveItemsKeeps ==
    ASSUME Sound, NEW r \in Runs, SaveItems(r), NEW i \in Recordings, item[i].status = "DONE"
    PROVE  item'[i] = item[i]
<1>1. Good(run[r], Entries, chunk, Gone) /\ run[r].at = "save items"
  BY DEF Sound, SaveItems, At
<1>2. <<i, item[i].at>> \in Entries
  BY DEF Entries
<1>3. \A u \in run[r].unsaved : u.i # i
  BY <1>1, <1>2 DEF Good, Batch
<1> QED BY <1>3 DEF SaveItems

\* A recording inside the archive is neither downloaded again nor moved until the export
\* expires: no run's batch holds it, and a retry resets only what failed.
THEOREM DownloadedOnceAlways == Spec => DownloadedOnce
<1>1. ASSUME Inv, [Next]_vars, ~ shared', NEW i \in Recordings, item[i].status = "DONE"
      PROVE  item'[i] = item[i] \/ job'.status = "gone"
  <2>1. Sound
    BY <1>1, SharedStays DEF Inv
  <2>2. CASE UNCHANGED item
    BY <2>2
  <2>3. CASE \E r \in Runs : SaveItems(r)
    BY <1>1, <2>1, <2>3, SaveItemsKeeps
  <2>4. CASE \E c \in Clients : Reset(c)
    BY <1>1, <2>1, <2>4, ResetKeeps
  <2>5. CASE Expire
    BY <2>1, <2>5 DEF Expire, Sound, Shapes, Job
  <2>6. UNCHANGED item \/ (\E r \in Runs : SaveItems(r)) \/ (\E c \in Clients : Reset(c)) \/ Expire
    BY <1>1 DEF Next, vars, Take, Step, Items, Open, Fetch, Checkpoint, SaveJob, Reload, PutSummary,
       PutDirectory, LastFlush, Finish, Fail, Release, Requeue, Again, Interrupted, NotReleased, Stop,
       Terminate, Beat, Stall, Age, Sweep, Find, HandBack, Enqueue, Retry, Request, Start, Reopen, Lost
  <2> QED BY <2>2, <2>3, <2>4, <2>5, <2>6
<1>2. Inv /\ [Next]_vars =>
        [~ shared' => \A i \in Recordings :
           item[i].status = "DONE" => item'[i] = item[i] \/ job'.status = "gone"]_vars
  BY <1>1
<1>3. Spec => [][Next]_vars /\ []Inv
  BY Invariant, PTL DEF Spec
<1> QED BY <1>2, <1>3, PTL DEF DownloadedOnce
================================================================================

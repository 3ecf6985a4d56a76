--------------------------- MODULE DummyTaskProofs ---------------------------
(***************************************************************************)
(* Theorems about the tasks of a graph, for any number of tasks,           *)
(* algorithms, frames, cache entries and parameter values: outputs are of  *)
(* the frame that was asked for, staging memory is not touched under       *)
(* pending work, and a task that could be started is complete.             *)
(*                                                                         *)
(* One wait makes the outputs right because of what it waits for: the      *)
(* stream still holds the end of the program of this execution, and every  *)
(* operation before that has done its part (Pending).  That there is       *)
(* nothing of an earlier execution before it is because a stream is left   *)
(* with work only by a failed wait, after which the cache grants nothing   *)
(* (StreamFits).                                                           *)
(***************************************************************************)
EXTENDS DummyTask, SequenceTheorems, TLAPS

-----------------------------------------------------------------------------
(* The inductive invariant.                                                *)

States == {"Constructed", "Registered", "Loaded", "Started", "Stopped", "Failed", "Unloaded"}
Kinds == {"read", "fill", "private"}
Bytes == 0..FrameCount
Ops == [op : {"H2D", "kernel", "D2H"}, algo : 0..AlgoCount, source : Bytes]
Executing == [pc : {"idle", "leased", "submitted", "synchronized"}, ok : BOOLEAN, frame : Bytes,
              outputs : [Algos -> Bytes]]

Registries == [name : Names \cup {Unset}, blob : Blobs \cup {Unset}, revision : Nat, sealed : BOOLEAN]

BufferTypes ==
    /\ h_in \in [Tasks -> Bytes] /\ writable \in [Tasks -> Bytes]
    /\ d_out \in [Tasks -> [Algos -> Bytes]] /\ h_out \in [Tasks -> [Algos -> Bytes]]
    /\ stream \in [Tasks -> Seq(Ops)]
CacheTypes ==
    /\ broken \in BOOLEAN
    /\ published \subseteq {Frame(f) : f \in Frames}
    /\ payload \in [Frames -> Bytes]
    /\ DOMAIN lease = Tasks
LifecycleTypes ==
    /\ state \in [Tasks -> States]
    /\ DOMAIN owned = Tasks /\ DOMAIN algorithms = Tasks /\ DOMAIN applied = Tasks
    /\ registry \in Registries
TypeOK ==
    /\ BufferTypes /\ CacheTypes /\ LifecycleTypes
    /\ exec \in [Tasks -> Executing] /\ model \in {"Batched", "Interleaved"}

\* A task executes, with a lease on its frame, only while it is started.
ExecFits(t) ==
    /\ exec[t].pc = "idle" => lease[t] = Cache!Nothing
    /\ exec[t].pc # "idle" =>
        /\ state[t] = "Started" /\ exec[t].frame \in Frames
        /\ \E kind \in Kinds : lease[t] = Cache!Lease(kind, Frame(exec[t].frame))

\* Work on a stream outside the submitted part of an execution is left over
\* from a failed wait, which the cache knows and the execution reports.
StreamFits(t) ==
    stream[t] # <<>> =>
        /\ state[t] \notin {"Constructed", "Registered"}
        /\ exec[t].pc # "leased"
        /\ exec[t].pc = "idle" => broken
        /\ exec[t].pc = "synchronized" => broken /\ ~exec[t].ok

\* What an operation of task t leaves behind, for frame f.
HasDone(t, o, f) ==
    /\ o.op = "H2D" => writable[t] = f
    /\ o.op = "kernel" => d_out[t][o.algo] = f
    /\ o.op = "D2H" => h_out[t][o.algo] = f

\* The stream holds the end of the program, and the rest of it is done.
Pending(t) ==
    LET f == exec[t].frame
        program == Program(lease[t].kind, f)
        done == Len(program) - Len(stream[t]) IN
    /\ done >= 0
    /\ \A i \in 1..Len(stream[t]) : stream[t][i] = program[done + i]
    /\ \A i \in 1..done : HasDone(t, program[i], f)
    /\ lease[t].kind # "read" => h_in[t] = f

\* After the wait everything of this frame is there.
Done(t) ==
    /\ h_out[t] = [a \in Algos |-> exec[t].frame]
    /\ lease[t].kind = "fill" => writable[t] = exec[t].frame

\* What holds of every task, and of a frame that it reads.
TaskFits(t) ==
    /\ ExecFits(t) /\ StreamFits(t)
    /\ lease[t].kind = "read" => payload[exec[t].frame] = exec[t].frame
    /\ exec[t].pc = "submitted" /\ exec[t].ok => Pending(t)
    /\ exec[t].pc = "synchronized" /\ exec[t].ok => Done(t)
    /\ exec[t].pc = "idle" /\ exec[t].ok => exec[t].outputs = [a \in Algos |-> exec[t].frame]

\* A published frame holds its own bytes.
PublishedFits == \A f \in Frames : Frame(f) \in published => payload[f] = f

ExecInv == TypeOK /\ PublishedFits /\ \A t \in Tasks : TaskFits(t)

\* Every snapshot has both values it was taken for.
SnapshotsAreWhole == \A s \in snapshots : s.name = s.askedFor.name /\ s.blob = s.askedFor.blob

\* As long as a task has yet to load, the registry is as it was configured.
RegistryIsWhole ==
    registry.sealed /\ (\E t \in Tasks : state[t] \in {"Constructed", "Registered"}) =>
        \E s \in snapshots : s.name = registry.name /\ s.blob = registry.blob /\ s.revision = registry.revision

\* A task that could be started has all handles, and all its algorithms use the
\* values of one snapshot.
Algorithms(pair) == [a \in Algos |-> [initialized |-> TRUE, params |-> pair]]
Uses(t, s) ==
    /\ owned[t] = Handles /\ applied[t] = s.revision
    /\ algorithms[t] = Algorithms(<<s.name, s.blob>>)
UsableFits == \A t \in Tasks : state[t] \in Usable => \E s \in snapshots : Uses(t, s)

ParamInv == LifecycleTypes /\ SnapshotsAreWhole /\ RegistryIsWhole /\ UsableFits

IInv == ExecInv /\ ParamInv

-----------------------------------------------------------------------------
(* The program of an execution.                                            *)

\* The sizes are positive numbers.
LEMMA SizeFacts ==
  /\ AlgoCount \in Nat /\ AlgoCount >= 1 /\ FrameCount \in Nat /\ FrameCount >= 1
  /\ 0 \in Bytes /\ Frames \subseteq Bytes /\ Algos \subseteq 0..AlgoCount
BY TaskSizes DEF Bytes, Frames, Algos

\* The operations and their parts.
LEMMA OpFacts ==
  ASSUME NEW a \in Algos, NEW f \in Bytes
  PROVE  /\ H2D \in Ops /\ H2D.op = "H2D"
         /\ Kernel(a, f) \in Ops /\ Kernel(a, f).op = "kernel" /\ Kernel(a, f).algo = a /\ Kernel(a, f).source = f
         /\ D2H(a) \in Ops /\ D2H(a).op = "D2H" /\ D2H(a).algo = a
BY SizeFacts DEF Ops, H2D, Kernel, D2H

\* What the kernels and copies of an execution are and how they are ordered.
Chain(s, source) ==
  /\ s \in Seq(Ops)
  /\ \A i \in 1..Len(s) :
      /\ s[i].op \in {"kernel", "D2H"} /\ s[i].algo \in Algos
      /\ s[i].op = "kernel" => s[i].source = source
      /\ s[i].op = "D2H" => \E j \in 1..(i - 1) : s[j].op = "kernel" /\ s[j].algo = s[i].algo
  /\ \A a \in Algos : \E i \in 1..Len(s) : s[i].op = "D2H" /\ s[i].algo = a

\* All kernels, then all copies: a copy follows its kernel.
LEMMA BatchedChain ==
  ASSUME NEW source \in Bytes
  PROVE  Chain([a \in Algos |-> Kernel(a, source)] \o [a \in Algos |-> D2H(a)], source)
<1> DEFINE k == [a \in Algos |-> Kernel(a, source)]
           d == [a \in Algos |-> D2H(a)]
           s == k \o d
<1>1. k \in Seq(Ops) /\ Len(k) = AlgoCount /\ d \in Seq(Ops) /\ Len(d) = AlgoCount
  BY SizeFacts, OpFacts DEF Algos
<1>2. \A a \in Algos : k[a] = Kernel(a, source) /\ d[a] = D2H(a)
  OBVIOUS
<1> HIDE DEF k, d
<1>3. /\ s \in Seq(Ops) /\ Len(s) = AlgoCount + AlgoCount
      /\ \A i \in 1..(AlgoCount + AlgoCount) : s[i] = IF i <= AlgoCount THEN k[i] ELSE d[i - AlgoCount]
  <2>1. /\ s \in Seq(Ops) /\ Len(s) = Len(k) + Len(d)
        /\ \A i \in 1..(Len(k) + Len(d)) : s[i] = IF i <= Len(k) THEN k[i] ELSE d[i - Len(k)]
    BY <1>1, ConcatProperties
  <2> HIDE DEF s
  <2> QED BY <1>1, <2>1
<1> HIDE DEF s
<1>4. \A a \in Algos : s[a] = Kernel(a, source) /\ s[AlgoCount + a] = D2H(a)
  BY <1>2, <1>3, SizeFacts DEF Algos
<1>5. ASSUME NEW i \in 1..Len(s)
      PROVE  \E a \in Algos : (i = a /\ s[i] = Kernel(a, source)) \/ (i = AlgoCount + a /\ s[i] = D2H(a))
  <2>1. CASE i <= AlgoCount
    <3>1. i \in Algos
      BY <1>3, <2>1 DEF Algos
    <3> QED BY <1>4, <3>1
  <2>2. CASE i > AlgoCount
    <3>1. i - AlgoCount \in Algos /\ i = AlgoCount + (i - AlgoCount)
      BY <1>3, <2>2, SizeFacts DEF Algos
    <3> QED BY <1>4, <3>1
  <2> QED BY <1>3, <2>1, <2>2, SizeFacts
<1>6. ASSUME NEW i \in 1..Len(s)
      PROVE  /\ s[i].op \in {"kernel", "D2H"} /\ s[i].algo \in Algos
             /\ s[i].op = "kernel" => s[i].source = source
             /\ s[i].op = "D2H" => \E j \in 1..(i - 1) : s[j].op = "kernel" /\ s[j].algo = s[i].algo
  <2>1. PICK a \in Algos : (i = a /\ s[i] = Kernel(a, source)) \/ (i = AlgoCount + a /\ s[i] = D2H(a))
    BY <1>5
  <2>2. CASE s[i] = Kernel(a, source)
    BY <2>2, OpFacts
  <2>3. CASE i = AlgoCount + a /\ s[i] = D2H(a)
    <3>1. a \in 1..(i - 1) /\ s[a] = Kernel(a, source)
      BY <1>4, <2>3, SizeFacts DEF Algos
    <3> QED BY <2>3, <3>1, OpFacts
  <2> QED BY <2>1, <2>2, <2>3
<1>7. ASSUME NEW a \in Algos PROVE \E i \in 1..Len(s) : s[i].op = "D2H" /\ s[i].algo = a
  <2>1. AlgoCount + a \in 1..Len(s)
    BY <1>3, SizeFacts DEF Algos
  <2> QED BY <1>4, <2>1, OpFacts, SizeFacts
<1>8. Chain(s, source)
  BY <1>3, <1>6, <1>7 DEF Chain
<1> QED BY <1>8 DEF s, k, d

\* A kernel and its copy, algorithm by algorithm.
LEMMA InterleavedChain ==
  ASSUME NEW source \in Bytes
  PROVE  Chain([i \in 1..(2 * AlgoCount) |->
                   IF i % 2 = 1 THEN Kernel((i + 1) \div 2, source) ELSE D2H(i \div 2)], source)
<1> DEFINE s == [i \in 1..(2 * AlgoCount) |->
                   IF i % 2 = 1 THEN Kernel((i + 1) \div 2, source) ELSE D2H(i \div 2)]
<1>1. \A i \in 1..(2 * AlgoCount) :
        /\ i % 2 = 1 => (i + 1) \div 2 \in Algos
        /\ i % 2 # 1 => i \div 2 \in Algos /\ i - 1 \in 1..(i - 1) /\ i - 1 \in 1..(2 * AlgoCount)
                        /\ (i - 1) % 2 = 1 /\ ((i - 1) + 1) \div 2 = i \div 2
  BY SizeFacts DEF Algos
<1>2. \A i \in 1..(2 * AlgoCount) :
        /\ i % 2 = 1 => s[i] = Kernel((i + 1) \div 2, source)
        /\ i % 2 # 1 => s[i] = D2H(i \div 2)
  OBVIOUS
<1>3. \A i \in 1..(2 * AlgoCount) : s[i] \in Ops
  BY <1>1, <1>2, OpFacts
<1>4. s \in Seq(Ops) /\ Len(s) = 2 * AlgoCount
  <2>1. 2 * AlgoCount \in Nat
    BY SizeFacts
  <2>2. s \in [1..(2 * AlgoCount) -> Ops]
    BY <1>3
  <2> QED BY <2>1, <2>2
<1> HIDE DEF s
<1>5. ASSUME NEW i \in 1..Len(s)
      PROVE  /\ s[i].op \in {"kernel", "D2H"} /\ s[i].algo \in Algos
             /\ s[i].op = "kernel" => s[i].source = source
             /\ s[i].op = "D2H" => \E j \in 1..(i - 1) : s[j].op = "kernel" /\ s[j].algo = s[i].algo
  <2>1. CASE i % 2 = 1
    <3>1. PICK a \in Algos : s[i] = Kernel(a, source)
      BY <1>1, <1>2, <1>4, <2>1
    <3> QED BY <3>1, OpFacts
  <2>2. CASE i % 2 # 1
    <3>1. PICK a \in Algos : a = i \div 2
      BY <1>1, <1>4, <2>2
    <3>2. s[i] = D2H(a)
      BY <1>2, <1>4, <2>2, <3>1
    <3>3. PICK j \in 1..(i - 1) : j \in 1..(2 * AlgoCount) /\ j % 2 = 1 /\ (j + 1) \div 2 = a
      BY <1>1, <1>4, <2>2, <3>1
    <3>4. s[j] = Kernel(a, source)
      BY <1>2, <3>3
    <3> QED BY <3>2, <3>4, OpFacts
  <2> QED BY <2>1, <2>2
<1>6. ASSUME NEW a \in Algos PROVE \E i \in 1..Len(s) : s[i].op = "D2H" /\ s[i].algo = a
  <2>1. PICK i \in 1..(2 * AlgoCount) : i % 2 # 1 /\ i \div 2 = a
    <3>1. 2 * a \in 1..(2 * AlgoCount) /\ (2 * a) % 2 # 1 /\ (2 * a) \div 2 = a
      BY SizeFacts DEF Algos
    <3> QED BY <3>1
  <2>2. s[i] = D2H(a)
    BY <1>2, <2>1
  <2> QED BY <1>4, <2>2, OpFacts
<1>7. Chain(s, source)
  BY <1>4, <1>5, <1>6 DEF Chain
<1> QED BY <1>7 DEF s

\* The program of an execution: the upload comes first unless the frame is
\* read from the cache, every copy follows its kernel, and every algorithm has
\* one.
LEMMA ProgramFacts ==
  ASSUME NEW kind \in Kinds, NEW f \in Frames, model \in {"Batched", "Interleaved"}
  PROVE  /\ Program(kind, f) \in Seq(Ops)
         /\ \A i \in 1..Len(Program(kind, f)) :
             /\ Program(kind, f)[i].op = "H2D" <=> kind # "read" /\ i = 1
             /\ Program(kind, f)[i].op # "H2D" => Program(kind, f)[i].algo \in Algos
             /\ Program(kind, f)[i].op = "kernel" =>
                 Program(kind, f)[i].source = IF kind = "read" THEN f ELSE 0
             /\ Program(kind, f)[i].op = "D2H" =>
                 \E j \in 1..(i - 1) : /\ Program(kind, f)[j].op = "kernel"
                                       /\ Program(kind, f)[j].algo = Program(kind, f)[i].algo
         /\ \A a \in Algos : \E i \in 1..Len(Program(kind, f)) :
                Program(kind, f)[i].op = "D2H" /\ Program(kind, f)[i].algo = a
         /\ kind # "read" => Len(Program(kind, f)) >= 1
<1> DEFINE source == IF kind = "read" THEN f ELSE 0
           upload == IF kind = "read" THEN <<>> ELSE <<H2D>>
           rest == IF model = "Batched"
                   THEN [a \in Algos |-> Kernel(a, source)] \o [a \in Algos |-> D2H(a)]
                   ELSE [i \in 1..(2 * AlgoCount) |->
                           IF i % 2 = 1 THEN Kernel((i + 1) \div 2, source) ELSE D2H(i \div 2)]
           p == Program(kind, f)
<1>1. source \in Bytes
  BY SizeFacts
<1>2. p = upload \o rest
  BY DEF Program
<1>3. upload \in Seq(Ops) /\ Len(upload) = (IF kind = "read" THEN 0 ELSE 1)
      /\ (kind # "read" => upload[1] = H2D)
  BY SizeFacts, OpFacts, 1 \in Algos DEF Algos
<1> HIDE DEF source
<1>4. Chain(rest, source)
  BY <1>1, BatchedChain, InterleavedChain
<1> HIDE DEF rest, upload
<1>5. rest \in Seq(Ops) /\ Len(rest) \in Nat
  BY <1>4 DEF Chain
<1>6. /\ p \in Seq(Ops) /\ Len(p) = Len(upload) + Len(rest)
      /\ \A i \in 1..(Len(upload) + Len(rest)) : p[i] = IF i <= Len(upload) THEN upload[i] ELSE rest[i - Len(upload)]
  BY <1>2, <1>3, <1>5, ConcatProperties
<1> HIDE DEF p
<1>7. PICK n \in {0, 1} : n = Len(upload) /\ (n = 0 <=> kind = "read") /\ (n = 1 => p[1] = H2D)
  BY <1>3, <1>5, <1>6
<1>8. \A i \in 1..Len(rest) : i + n \in 1..Len(p) /\ p[i + n] = rest[i]
  BY <1>5, <1>6, <1>7
<1>9. \A i \in 1..Len(p) : i > n => i - n \in 1..Len(rest) /\ p[i] = rest[i - n]
  BY <1>5, <1>6, <1>7
<1>10. ASSUME NEW i \in 1..Len(p)
       PROVE  /\ p[i].op = "H2D" <=> kind # "read" /\ i = 1
              /\ p[i].op # "H2D" => p[i].algo \in Algos
              /\ p[i].op = "kernel" => p[i].source = source
              /\ p[i].op = "D2H" => \E j \in 1..(i - 1) : p[j].op = "kernel" /\ p[j].algo = p[i].algo
  <2>1. CASE i <= n
    <3>1. n = 1 /\ i = 1 /\ p[i] = H2D
      BY <1>7, <2>1
    <3> QED BY <1>7, <3>1 DEF H2D
  <2>2. CASE i > n
    <3>1. PICK k \in 1..Len(rest) : k = i - n /\ p[i] = rest[k]
      BY <1>9, <2>2
    <3>2. rest[k].op \in {"kernel", "D2H"} /\ rest[k].algo \in Algos
          /\ (rest[k].op = "kernel" => rest[k].source = source)
      BY <1>4 DEF Chain
    <3>3. ASSUME p[i].op = "D2H" PROVE \E j \in 1..(i - 1) : p[j].op = "kernel" /\ p[j].algo = p[i].algo
      <4>1. PICK j \in 1..(k - 1) : rest[j].op = "kernel" /\ rest[j].algo = rest[k].algo
        BY <1>4, <3>1, <3>3 DEF Chain
      <4>2. j \in 1..Len(rest) /\ j + n \in 1..(i - 1)
        BY <1>5, <3>1
      <4> QED BY <1>8, <3>1, <4>1, <4>2
    <3>4. ~(kind # "read" /\ i = 1)
      BY <1>7, <2>2
    <3> QED BY <3>1, <3>2, <3>3, <3>4
  <2> QED BY <1>6, <2>1, <2>2
<1>11. ASSUME NEW a \in Algos PROVE \E i \in 1..Len(p) : p[i].op = "D2H" /\ p[i].algo = a
  <2>1. PICK i \in 1..Len(rest) : rest[i].op = "D2H" /\ rest[i].algo = a
    BY <1>4 DEF Chain
  <2> QED BY <1>8, <2>1
<1>12. kind # "read" => Len(p) >= 1
  BY <1>5, <1>6, <1>7
<1> QED BY <1>6, <1>10, <1>11, <1>12 DEF p, source

-----------------------------------------------------------------------------
(* Parameters and lifecycle.                                               *)

\* A change of one value and the revision changes nothing else.
LEMMA RecordFacts ==
  ASSUME NEW N, NEW B, NEW V, NEW Z, NEW r \in [name : N, blob : B, revision : V, sealed : Z],
         NEW n \in N, NEW b \in B, NEW v \in V
  PROVE  /\ [r EXCEPT !["name"] = n, !.revision = v] \in [name : N, blob : B, revision : V, sealed : Z]
         /\ [r EXCEPT !["name"] = n, !.revision = v].name = n
         /\ [r EXCEPT !["name"] = n, !.revision = v].sealed = r.sealed
         /\ [r EXCEPT !["blob"] = b, !.revision = v] \in [name : N, blob : B, revision : V, sealed : Z]
         /\ [r EXCEPT !["blob"] = b, !.revision = v].name = r.name
         /\ [r EXCEPT !["blob"] = b, !.revision = v].blob = b
         /\ [r EXCEPT !["blob"] = b, !.revision = v].sealed = r.sealed
<1>1. ASSUME NEW g, g = [r EXCEPT !["name"] = n, !.revision = v]
      PROVE  g \in [name : N, blob : B, revision : V, sealed : Z] /\ g.name = n /\ g.sealed = r.sealed
  BY <1>1, Zenon
<1>2. ASSUME NEW g, g = [r EXCEPT !["blob"] = b, !.revision = v]
      PROVE  /\ g \in [name : N, blob : B, revision : V, sealed : Z]
             /\ g.name = r.name /\ g.blob = b /\ g.sealed = r.sealed
  BY <1>2, Zenon
<1> QED BY <1>1, <1>2, Zenon

\* setString and setBytes: an accepted change leaves both values in the
\* registry, any change leaves the seal alone.
LEMMA SetFacts ==
  ASSUME registry \in Registries, NEW p \in Pairs
  PROVE  /\ SetBoth(p) \in Registries
         /\ SetBoth(p).sealed = registry.sealed
         /\ SetBothAccepts(p) => SetBoth(p).name = p.name /\ SetBoth(p).blob = p.blob
<1>1. p.name \in Names /\ p.blob \in Blobs
  BY DEF Pairs
<1>2. ASSUME NEW r \in Registries
      PROVE  /\ SetValue(r, "name", p.name) \in Registries /\ SetValue(r, "name", p.name).sealed = r.sealed
             /\ SetValue(r, "name", p.name).name = p.name
             /\ SetValue(r, "blob", p.blob) \in Registries /\ SetValue(r, "blob", p.blob).sealed = r.sealed
             /\ SetValue(r, "blob", p.blob).blob = p.blob /\ SetValue(r, "blob", p.blob).name = r.name
  <2>1. r \in [name : Names \cup {Unset}, blob : Blobs \cup {Unset}, revision : Nat, sealed : BOOLEAN]
    BY DEF Registries
  <2>2. r.revision \in Nat
    BY <2>1
  <2>3. PICK w \in Nat : w = r.revision + 1
    BY <2>2
  <2>4. SetValue(r, "name", p.name) = IF r["name"] = p.name THEN r ELSE [r EXCEPT !["name"] = p.name, !.revision = w]
    BY <2>3 DEF SetValue
  <2>5. SetValue(r, "blob", p.blob) = IF r["blob"] = p.blob THEN r ELSE [r EXCEPT !["blob"] = p.blob, !.revision = w]
    BY <2>3 DEF SetValue
  <2>6. r["name"] = r.name /\ r["blob"] = r.blob
    BY <2>1
  <2>7. p.name \in Names \cup {Unset} /\ p.blob \in Blobs \cup {Unset}
    BY <1>1
  <2>8. ASSUME NEW g, g = [r EXCEPT !["name"] = p.name, !.revision = w]
        PROVE  g \in Registries /\ g.name = p.name /\ g.sealed = r.sealed
    BY <2>1, <2>3, <2>7, <2>8, RecordFacts, Zenon DEF Registries
  <2>9. ASSUME NEW g, g = [r EXCEPT !["blob"] = p.blob, !.revision = w]
        PROVE  g \in Registries /\ g.name = r.name /\ g.blob = p.blob /\ g.sealed = r.sealed
    BY <2>1, <2>3, <2>7, <2>9, RecordFacts, Zenon DEF Registries
  <2>10. SetValue(r, "name", p.name) \in Registries /\ SetValue(r, "name", p.name).sealed = r.sealed
         /\ SetValue(r, "name", p.name).name = p.name
    BY <2>4, <2>6, <2>8, Zenon
  <2>11. SetValue(r, "blob", p.blob) \in Registries /\ SetValue(r, "blob", p.blob).sealed = r.sealed
         /\ SetValue(r, "blob", p.blob).blob = p.blob /\ SetValue(r, "blob", p.blob).name = r.name
    BY <2>5, <2>6, <2>9, Zenon
  <2> QED BY <2>10, <2>11, Zenon
<1>3. NamedRegistry(p) \in Registries /\ NamedRegistry(p).sealed = registry.sealed
      /\ (SetBothAccepts(p) => NamedRegistry(p).name = p.name)
  BY <1>2 DEF NamedRegistry, SetBothAccepts
<1> QED BY <1>2, <1>3 DEF SetBoth

\* applyParameters gives every algorithm the values of the snapshot.
LEMMA AppliedFacts ==
  ASSUME NEW s, NEW pair
  PROVE  Applied(Algorithms(pair), s) = Algorithms(<<s.name, s.blob>>)
<1>1. PICK yes : yes = TRUE
  OBVIOUS
<1>2. PICK algos : algos = Algorithms(pair)
  OBVIOUS
<1>3. DOMAIN algos = Algos
  BY <1>2 DEF Algorithms
<1>4. \A a \in Algos : algos[a] = [initialized |-> yes, params |-> pair]
  BY <1>1, <1>2 DEF Algorithms
<1>5. PICK new : new = <<s.name, s.blob>>
  OBVIOUS
<1>6. \A a \in Algos : [algos[a] EXCEPT !.params = new] = [initialized |-> yes, params |-> new]
  BY <1>4
<1> QED BY <1>1, <1>2, <1>3, <1>5, <1>6, Zenon DEF Applied, Algorithms

\* The parts of a snapshot.
LEMMA SnapshotFacts ==
  ASSUME NEW r, NEW p
  PROVE  /\ Snapshot(r, p).name = r.name /\ Snapshot(r, p).blob = r.blob
         /\ Snapshot(r, p).revision = r.revision /\ Snapshot(r, p).askedFor = p
BY DEF Snapshot

\* Configure: the registry is whole, and no task is usable yet.
LEMMA ConfigureParams ==
  ASSUME ParamInv, NEW p \in Pairs, Configure(p)
  PROVE  ParamInv'
<1>1. /\ UNCHANGED lifecycleVars /\ SetBothAccepts(p)
      /\ registry' = [SetBoth(p) EXCEPT !.sealed = TRUE] /\ snapshots' = {Snapshot(registry', p)}
      /\ \A t \in Tasks : state[t] = "Registered"
  BY DEF Configure
<1>2. SetBoth(p) \in Registries /\ SetBoth(p).name = p.name /\ SetBoth(p).blob = p.blob
  BY <1>1, SetFacts DEF ParamInv, LifecycleTypes
<1>3. registry' \in Registries /\ registry'.name = p.name /\ registry'.blob = p.blob
  BY <1>1, <1>2 DEF Registries
<1>4. LifecycleTypes'
  BY <1>1, <1>3 DEF ParamInv, LifecycleTypes, lifecycleVars
<1>5. SnapshotsAreWhole' /\ RegistryIsWhole'
  <2>1. \A s \in snapshots' : /\ s.name = registry'.name /\ s.blob = registry'.blob
                               /\ s.revision = registry'.revision /\ s.askedFor = p
    <3>1. PICK g : g = registry'
      OBVIOUS
    <3>2. snapshots' = {Snapshot(g, p)}
      BY <1>1, <3>1
    <3> QED BY <3>1, <3>2, SnapshotFacts
  <2>2. SnapshotsAreWhole'
    BY <1>3, <2>1 DEF SnapshotsAreWhole
  <2>3. \E s \in snapshots' : TRUE
    BY <1>1
  <2> QED BY <2>1, <2>2, <2>3 DEF RegistryIsWhole
<1>6. UsableFits'
  BY <1>1 DEF UsableFits, Usable, lifecycleVars
<1> QED BY <1>4, <1>5, <1>6 DEF ParamInv

\* A change after every task has loaded: a torn registry yields no snapshot.
LEMMA ChangeParams ==
  ASSUME ParamInv, NEW p \in Pairs, Change(p)
  PROVE  ParamInv'
<1>1. /\ UNCHANGED lifecycleVars /\ registry' = SetBoth(p)
      /\ snapshots' = snapshots \cup TakenSnapshot(registry, SetBoth(p), SetBothAccepts(p), p)
      /\ \A t \in Tasks : state[t] \notin {"Constructed", "Registered"}
  BY DEF Change
<1>2. SetBoth(p) \in Registries /\ (SetBothAccepts(p) => SetBoth(p).name = p.name /\ SetBoth(p).blob = p.blob)
  BY SetFacts DEF ParamInv, LifecycleTypes
<1>3. \A s \in snapshots' : s \in snapshots \/ (SetBothAccepts(p) /\ s = Snapshot(SetBoth(p), p))
  BY <1>1 DEF TakenSnapshot
<1>4. SnapshotsAreWhole'
  BY <1>2, <1>3, SnapshotFacts DEF ParamInv, SnapshotsAreWhole
<1>5. RegistryIsWhole' /\ LifecycleTypes'
  BY <1>1, <1>2 DEF RegistryIsWhole, ParamInv, LifecycleTypes, lifecycleVars
<1>6. UsableFits'
  BY <1>1 DEF ParamInv, UsableFits, Uses, lifecycleVars
<1> QED BY <1>4, <1>5, <1>6 DEF ParamInv

\* A step of one task leaves the others, the registry and the snapshots alone;
\* it is enough to look at that task.
LEMMA OneTaskParams ==
  ASSUME ParamInv, NEW t \in Tasks, UNCHANGED parameterVars, LifecycleTypes',
         \A u \in Tasks \ {t} : /\ state'[u] = state[u] /\ owned'[u] = owned[u]
                                /\ algorithms'[u] = algorithms[u] /\ applied'[u] = applied[u],
         state'[t] \in {"Constructed", "Registered"} => state[t] \in {"Constructed", "Registered"},
         state'[t] \in Usable => \E s \in snapshots : Uses(t, s)'
  PROVE  ParamInv'
<1>1. registry' = registry /\ snapshots' = snapshots
  BY DEF parameterVars
<1>2. SnapshotsAreWhole'
  BY <1>1 DEF ParamInv, SnapshotsAreWhole
<1>3. RegistryIsWhole'
  BY <1>1 DEF ParamInv, RegistryIsWhole
<1>4. ASSUME NEW u \in Tasks \ {t}, state'[u] \in Usable PROVE \E s \in snapshots' : Uses(u, s)'
  <2>1. PICK s \in snapshots : Uses(u, s)
    BY <1>4 DEF ParamInv, UsableFits
  <2>2. Uses(u, s)'
    BY <2>1 DEF Uses
  <2> QED BY <1>1, <2>2
<1>5. UsableFits'
  BY <1>1, <1>4, Zenon DEF UsableFits
<1> QED BY <1>2, <1>3, <1>5 DEF ParamInv

\* Every step of a task.
LEMMA TaskParams ==
  ASSUME ParamInv, NEW t \in Tasks, TaskNext(t)
  PROVE  ParamInv'
<1>1. LifecycleTypes /\ state \in [Tasks -> States] /\ DOMAIN owned = Tasks /\ DOMAIN algorithms = Tasks
      /\ DOMAIN applied = Tasks
  BY DEF ParamInv, LifecycleTypes
<1>2. ASSUME UNCHANGED <<parameterVars, lifecycleVars>> PROVE ParamInv'
  BY <1>2 DEF parameterVars, lifecycleVars, ParamInv, LifecycleTypes, SnapshotsAreWhole, RegistryIsWhole, UsableFits, Uses
<1>3. ASSUME UNCHANGED <<parameterVars, owned, algorithms, applied>>, NEW z \in States, Enter(t, z),
             z \in {"Constructed", "Registered"} => state[t] \in {"Constructed", "Registered"},
             z \in Usable => state[t] \in Usable
      PROVE  ParamInv'
  <2>1. state' = [state EXCEPT ![t] = z]
    BY <1>3 DEF Enter
  <2>2. LifecycleTypes'
    BY <1>1, <1>3, <2>1 DEF LifecycleTypes, parameterVars
  <2>3. state'[t] \in Usable => \E s \in snapshots : Uses(t, s)'
    BY <1>1, <1>3, <2>1 DEF ParamInv, UsableFits, Uses
  <2> QED BY <1>1, <1>3, <2>1, <2>2, <2>3, OneTaskParams
<1>4. ASSUME RegisterParameters(t) \/ Start(t) \/ Stop(t) PROVE ParamInv'
  <2>1. PICK z \in {"Registered", "Started", "Stopped"} :
          /\ Enter(t, z) /\ UNCHANGED <<parameterVars, owned, algorithms, applied>>
          /\ z = "Registered" => state[t] = "Constructed"
          /\ z # "Registered" => state[t] \in {"Loaded", "Started"}
    BY <1>4 DEF RegisterParameters, Start, Stop
  <2> QED BY <1>3, <2>1 DEF States, Usable
<1>5. ASSUME NEW s \in snapshots, NotifyFails(t, s) PROVE ParamInv'
  <2>1. Enter(t, "Failed") /\ UNCHANGED <<parameterVars, owned, algorithms, applied>>
    BY <1>5 DEF NotifyFails
  <2> QED BY <1>3, <2>1 DEF States, Usable
<1>6. ASSUME NEW s \in snapshots, Notify(t, s) PROVE ParamInv'
  <2>1. /\ state[t] \in Usable /\ UNCHANGED <<parameterVars, state, owned>>
        /\ algorithms' = [algorithms EXCEPT ![t] = Applied(@, s)]
        /\ applied' = [applied EXCEPT ![t] = s.revision]
    BY <1>6 DEF Notify
  <2>2. PICK old \in snapshots : Uses(t, old)
    BY <2>1 DEF ParamInv, UsableFits
  <2>3. Applied(algorithms[t], s) = Algorithms(<<s.name, s.blob>>)
    BY <2>2, AppliedFacts, Zenon DEF Uses
  <2>4. LifecycleTypes'
    BY <1>1, <2>1 DEF LifecycleTypes, parameterVars
  <2>5. Uses(t, s)'
    BY <1>1, <2>1, <2>2, <2>3 DEF Uses
  <2> QED BY <1>1, <2>1, <2>4, <2>5, OneTaskParams
<1>7. ASSUME Load(t) PROVE ParamInv'
  <2>1. /\ UNCHANGED parameterVars /\ state[t] = "Registered" /\ registry.sealed
        /\ owned' = [owned EXCEPT ![t] = Handles] /\ state' = [state EXCEPT ![t] = "Loaded"]
        /\ algorithms' = [algorithms EXCEPT ![t] = Applied(Algorithms(<<>>), registry)]
        /\ applied' = [applied EXCEPT ![t] = registry.revision]
    BY <1>7, Zenon DEF Load, Enter, Algorithms
  <2>2. PICK s \in snapshots : s.name = registry.name /\ s.blob = registry.blob /\ s.revision = registry.revision
    BY <2>1 DEF ParamInv, RegistryIsWhole
  <2>3. Applied(Algorithms(<<>>), registry) = Algorithms(<<s.name, s.blob>>)
    BY <2>2, AppliedFacts, Zenon
  <2>4. LifecycleTypes'
    BY <1>1, <2>1 DEF LifecycleTypes, parameterVars, States
  <2>5. Uses(t, s)'
    BY <1>1, <2>1, <2>2, <2>3 DEF Uses
  <2> QED BY <1>1, <2>1, <2>4, <2>5, OneTaskParams
<1>8. ASSUME LoadFails(t) \/ Unload(t) PROVE ParamInv'
  <2>1. PICK ok \in BOOLEAN, z \in {"Failed", "Unloaded"} :
          /\ ReleaseResources(t, ok) /\ Enter(t, z) /\ UNCHANGED parameterVars
          /\ applied' = applied \/ applied' = [applied EXCEPT ![t] = 0]
    BY <1>8 DEF LoadFails, Unload
  <2>2. /\ owned' = [owned EXCEPT ![t] = {}] /\ algorithms' = [algorithms EXCEPT ![t] = <<>>]
        /\ state' = [state EXCEPT ![t] = z]
    BY <2>1 DEF ReleaseResources, Enter
  <2>3. LifecycleTypes'
    BY <1>1, <2>1, <2>2 DEF LifecycleTypes, parameterVars, States
  <2>4. state'[t] = z
    BY <1>1, <2>2
  <2> QED BY <1>1, <2>1, <2>2, <2>3, <2>4, OneTaskParams DEF Usable
<1>9. ASSUME NEW f \in Frames, Execute(t, f) \/ ExecuteRefused(t, f) PROVE ParamInv'
  BY <1>2, <1>9 DEF Execute, ExecuteRefused
<1>10. ASSUME Submit(t) \/ DeviceStep(t) \/ Synchronize(t) \/ Collect(t) PROVE ParamInv'
  BY <1>2, <1>10 DEF Submit, DeviceStep, Synchronize, Collect
<1> QED BY <1>4, <1>5, <1>6, <1>7, <1>8, <1>9, <1>10 DEF TaskNext

-----------------------------------------------------------------------------
(* Execution.                                                              *)

\* Nothing of task u changes.
SameTask(u) ==
    /\ state'[u] = state[u] /\ exec'[u] = exec[u] /\ lease'[u] = lease[u]
    /\ h_in'[u] = h_in[u] /\ writable'[u] = writable[u] /\ d_out'[u] = d_out[u] /\ h_out'[u] = h_out[u]
    /\ stream'[u] = stream[u]

\* The bytes of published frames stay, and the cache stays broken.
CacheKeeps ==
    /\ model' = model
    /\ broken => broken'
    /\ \A f \in Frames : payload[f] = f => payload'[f] = f

\* A program depends on the model of execution only.
LEMMA SameProgram ==
  ASSUME model' = model, NEW kind, NEW f
  PROVE  Program(kind, f)' = Program(kind, f)
BY DEF Program

\* A lease for reading belongs to an execution.
LEMMA LeaseFacts ==
  ASSUME NEW t \in Tasks, ExecFits(t)
  PROVE  /\ lease[t].kind \in Kinds <=> exec[t].pc # "idle"
         /\ lease[t].kind \in Kinds => exec[t].frame \in Frames
         /\ exec[t].pc # "idle" => lease[t].frame = Frame(exec[t].frame)
<1>1. Cache!Nothing.kind = "none" /\ (\A k, f : Cache!Lease(k, f).kind = k /\ Cache!Lease(k, f).frame = f)
  BY DEF Cache!Nothing, Cache!Lease
<1> QED BY <1>1 DEF ExecFits, Kinds

\* What holds of a task goes on holding while only others move.
LEMMA OtherTask ==
  ASSUME NEW u \in Tasks, TaskFits(u), SameTask(u), CacheKeeps
  PROVE  TaskFits(u)'
<1>1. ExecFits(u)'
  BY DEF TaskFits, SameTask, ExecFits, Frame, Cache!Nothing, Cache!Lease, Frames
<1>2. StreamFits(u)'
  BY DEF TaskFits, SameTask, StreamFits, CacheKeeps
<1>3. (lease[u].kind = "read" => payload[exec[u].frame] = exec[u].frame)'
  <2>1. ASSUME lease[u].kind = "read" PROVE payload'[exec[u].frame] = exec[u].frame
    <3>1. exec[u].frame \in Frames
      BY <2>1, LeaseFacts DEF TaskFits, Kinds
    <3> QED BY <2>1, <3>1 DEF TaskFits, CacheKeeps
  <2> QED BY <2>1 DEF SameTask
<1>4. (exec[u].pc = "submitted" /\ exec[u].ok => Pending(u))'
  <2>1. ASSUME Pending(u) PROVE Pending(u)'
    <3>1. Program(lease[u].kind, exec[u].frame)' = Program(lease[u].kind, exec[u].frame)
      BY SameProgram DEF SameTask, CacheKeeps
    <3> QED BY <2>1, <3>1 DEF Pending, HasDone, SameTask
  <2> QED BY <2>1 DEF TaskFits, SameTask
<1>5. (exec[u].pc = "synchronized" /\ exec[u].ok => Done(u))'
  BY DEF TaskFits, SameTask, Done, Algos
<1>6. (exec[u].pc = "idle" /\ exec[u].ok => exec[u].outputs = [a \in Algos |-> exec[u].frame])'
  BY DEF TaskFits, SameTask, Algos
<1> QED BY <1>1, <1>2, <1>3, <1>4, <1>5, <1>6 DEF TaskFits

\* It is enough to look at the task that moves.
LEMMA OneTask ==
  ASSUME ExecInv, NEW t \in Tasks, TypeOK', PublishedFits', CacheKeeps, TaskFits(t)',
         \A u \in Tasks \ {t} : SameTask(u)
  PROVE  ExecInv'
<1>1. ASSUME NEW u \in Tasks \ {t} PROVE TaskFits(u)'
  BY OtherTask DEF ExecInv
<1> QED BY <1>1 DEF ExecInv

\* The lifecycle: the task does not execute, and its stream is left alone or
\* emptied.
LEMMA LifecycleExec ==
  ASSUME ExecInv, NEW t \in Tasks, Quiet(t), LifecycleTypes', UNCHANGED <<model, exec, cacheVars>>,
         UNCHANGED <<h_in, writable, d_out, h_out>>,
         stream' = stream \/ stream' = [stream EXCEPT ![t] = <<>>],
         \A u \in Tasks \ {t} : state'[u] = state[u],
         state'[t] \in {"Constructed", "Registered"} => state[t] \in {"Constructed", "Registered"}
  PROVE  ExecInv'
<1>1. TypeOK' /\ PublishedFits' /\ CacheKeeps
  <2>1. stream \in [Tasks -> Seq(Ops)]
    BY DEF ExecInv, TypeOK, BufferTypes
  <2>2. stream' \in [Tasks -> Seq(Ops)]
    <3>1. << >> \in Seq(Ops)
      OBVIOUS
    <3> QED BY <2>1, <3>1, Zenon
  <2> QED BY <2>2 DEF ExecInv, TypeOK, BufferTypes, CacheTypes, PublishedFits, CacheKeeps, cacheVars
<1>2. \A u \in Tasks \ {t} : SameTask(u)
  BY DEF ExecInv, TypeOK, BufferTypes, SameTask, cacheVars
<1>3. TaskFits(t)'
  <2>1. TaskFits(t) /\ exec'[t] = exec[t] /\ exec[t].pc = "idle" /\ lease'[t] = lease[t]
    BY DEF ExecInv, Quiet, cacheVars
  <2>2. ExecFits(t)'
    BY <2>1 DEF TaskFits, ExecFits, Cache!Nothing
  <2>3. stream[t] = <<>> => stream'[t] = <<>>
    BY DEF ExecInv, TypeOK, BufferTypes
  <2>4. StreamFits(t)'
    BY <2>1, <2>3 DEF TaskFits, StreamFits, cacheVars
  <2>5. (lease[t].kind = "read" => payload[exec[t].frame] = exec[t].frame)'
    BY <2>1 DEF TaskFits, cacheVars
  <2>6. (exec[t].pc = "idle" /\ exec[t].ok => exec[t].outputs = [a \in Algos |-> exec[t].frame])'
    BY <2>1 DEF TaskFits, Algos
  <2> QED BY <2>1, <2>2, <2>4, <2>5, <2>6 DEF TaskFits
<1> QED BY <1>1, <1>2, <1>3, OneTask
\* The parts of the type invariant that a step of an execution can disturb.
LEMMA TypeFacts ==
  ASSUME ExecInv, NEW t \in Tasks
  PROVE  /\ DOMAIN exec = Tasks /\ exec[t] \in Executing /\ DOMAIN lease = Tasks
         /\ stream \in [Tasks -> Seq(Ops)] /\ h_in \in [Tasks -> Bytes] /\ writable \in [Tasks -> Bytes]
         /\ d_out \in [Tasks -> [Algos -> Bytes]] /\ h_out \in [Tasks -> [Algos -> Bytes]]
         /\ model \in {"Batched", "Interleaved"} /\ TaskFits(t) /\ ExecFits(t) /\ StreamFits(t)
BY DEF ExecInv, TypeOK, BufferTypes, CacheTypes, TaskFits

\* Another value for one task keeps the type of the executions.
LEMMA ExecType ==
  ASSUME ExecInv, NEW t \in Tasks, NEW e \in Executing, exec' = [exec EXCEPT ![t] = e]
  PROVE  exec' \in [Tasks -> Executing] /\ exec'[t] = e /\ \A u \in Tasks \ {t} : exec'[u] = exec[u]
<1>1. exec \in [Tasks -> Executing]
  BY DEF ExecInv, TypeOK
<1> QED BY <1>1, Zenon

\* An idle execution.
LEMMA IdleFacts ==
  ASSUME NEW ok \in BOOLEAN, NEW f \in Bytes, NEW o \in [Algos -> Bytes]
  PROVE  /\ Idle(ok, f, o) \in Executing /\ Idle(ok, f, o).pc = "idle" /\ Idle(ok, f, o).ok = ok
         /\ Idle(ok, f, o).frame = f /\ Idle(ok, f, o).outputs = o
<1>1. PICK e : e = Idle(ok, f, o)
  OBVIOUS
<1>2. e = [pc |-> "idle", ok |-> ok, frame |-> f, outputs |-> o]
  BY <1>1 DEF Idle
<1>3. e.pc = "idle" /\ e.ok = ok /\ e.frame = f /\ e.outputs = o
  BY <1>2
<1>4. e \in Executing
  BY <1>2 DEF Executing
<1> QED BY <1>1, <1>3, <1>4

\* The lease: the cache grants one only when no wait has failed, so there is
\* nothing on the stream; a frame that is lent holds its own bytes.
LEMMA ExecuteExec ==
  ASSUME ExecInv, NEW t \in Tasks, NEW f \in Frames, Execute(t, f)
  PROVE  ExecInv'
<1> DEFINE e == [pc |-> "leased", ok |-> TRUE, frame |-> f, outputs |-> NoOutput]
<1>1. PICK kind \in Kinds :
        /\ ~broken /\ broken' = broken /\ published' \subseteq published
        /\ lease' = [lease EXCEPT ![t] = Cache!Lease(kind, Frame(f))]
        /\ kind = "read" => Frame(f) \in published
  BY DEF Execute, Cache!Borrow, Cache!Reserve, Cache!GoPrivate, Cache!Grant, Kinds
<1>2. /\ exec[t].pc = "idle" /\ state[t] = "Started" /\ exec' = [exec EXCEPT ![t] = e]
      /\ writable' = [writable EXCEPT ![t] = 0]
      /\ UNCHANGED <<parameterVars, model, lifecycleVars, h_in, d_out, h_out, stream, payload>>
  BY DEF Execute, Quiet
<1>3. e \in Executing /\ e.pc = "leased" /\ e.frame = f
  <2>1. NoOutput \in [Algos -> Bytes] /\ f \in Bytes
    BY SizeFacts DEF NoOutput
  <2> QED BY <2>1 DEF Executing
<1> HIDE DEF e
<1>4. exec' \in [Tasks -> Executing] /\ exec'[t] = e /\ \A u \in Tasks \ {t} : exec'[u] = exec[u]
  BY <1>2, <1>3, ExecType
<1>5. TypeOK'
  <2>1. BufferTypes'
    BY <1>2, SizeFacts DEF ExecInv, TypeOK, BufferTypes
  <2>2. CacheTypes'
    BY <1>1, <1>2 DEF ExecInv, TypeOK, CacheTypes
  <2>3. LifecycleTypes' /\ model' \in {"Batched", "Interleaved"}
    BY <1>2 DEF ExecInv, TypeOK, LifecycleTypes, parameterVars, lifecycleVars
  <2> QED BY <1>4, <2>1, <2>2, <2>3 DEF TypeOK
<1>6. PublishedFits' /\ CacheKeeps
  BY <1>1, <1>2 DEF ExecInv, PublishedFits, CacheKeeps
<1>7. \A u \in Tasks \ {t} : SameTask(u)
  BY <1>1, <1>2, <1>4 DEF ExecInv, TypeOK, BufferTypes, CacheTypes, SameTask, lifecycleVars
<1>8. TaskFits(t)'
  <2>1. lease'[t] = Cache!Lease(kind, Frame(f)) /\ exec'[t].pc = "leased" /\ exec'[t].frame = f
    BY <1>1, <1>3, <1>4, TypeFacts
  <2>2. ExecFits(t)'
    BY <1>2, <2>1 DEF ExecFits, Frame, Cache!Lease, Cache!Nothing, lifecycleVars
  <2>3. stream'[t] = <<>>
    BY <1>1, <1>2, TypeFacts DEF StreamFits
  <2>4. (lease[t].kind = "read" => payload[exec[t].frame] = exec[t].frame)'
    BY <1>1, <1>2, <2>1 DEF Cache!Lease, ExecInv, PublishedFits
  <2> QED BY <2>1, <2>2, <2>3, <2>4 DEF TaskFits, StreamFits
<1> QED BY <1>5, <1>6, <1>7, <1>8, OneTask

\* A refused call changes nothing but its own result.
LEMMA RefusedExec ==
  ASSUME ExecInv, NEW t \in Tasks, NEW f \in Frames, ExecuteRefused(t, f)
  PROVE  ExecInv'
<1>1. /\ exec[t].pc = "idle" /\ exec' = [exec EXCEPT ![t] = Idle(FALSE, 0, NoOutput)]
      /\ UNCHANGED <<parameterVars, model, lifecycleVars, bufferVars, cacheVars>>
  BY DEF ExecuteRefused, Quiet
<1>2. PICK e \in Executing : e = Idle(FALSE, 0, NoOutput) /\ e.pc = "idle" /\ ~e.ok
  <2>1. NoOutput \in [Algos -> Bytes] /\ 0 \in Bytes /\ FALSE \in BOOLEAN
    BY SizeFacts DEF NoOutput
  <2> QED BY <2>1, IdleFacts
<1>3. exec' \in [Tasks -> Executing] /\ exec'[t] = e /\ \A u \in Tasks \ {t} : exec'[u] = exec[u]
  BY <1>1, <1>2, ExecType
<1>4. TypeOK' /\ PublishedFits' /\ CacheKeeps
  BY <1>1, <1>3 DEF ExecInv, TypeOK, BufferTypes, CacheTypes, LifecycleTypes, PublishedFits, CacheKeeps,
     parameterVars, lifecycleVars, bufferVars, cacheVars
<1>5. \A u \in Tasks \ {t} : SameTask(u)
  BY <1>1, <1>3 DEF SameTask, lifecycleVars, bufferVars, cacheVars
<1>6. TaskFits(t)'
  <2>1. lease' = lease /\ lease[t] = Cache!Nothing /\ stream' = stream /\ state' = state /\ broken' = broken
    BY <1>1, TypeFacts DEF ExecFits, lifecycleVars, bufferVars, cacheVars
  <2>2. ExecFits(t)'
    BY <1>2, <1>3, <2>1 DEF ExecFits, Cache!Nothing
  <2>3. StreamFits(t)'
    BY <1>1, <1>2, <1>3, <2>1, TypeFacts DEF StreamFits
  <2>4. lease'[t].kind # "read"
    BY <2>1 DEF Cache!Nothing
  <2> QED BY <1>2, <1>3, <2>2, <2>3, <2>4 DEF TaskFits
<1> QED BY <1>4, <1>5, <1>6, OneTask
\* Where an execution is and whether it is well changes, nothing else of it.
LEMMA ExecMoves ==
  ASSUME ExecInv, NEW t \in Tasks, NEW pc \in {"idle", "leased", "submitted", "synchronized"},
         NEW ok \in BOOLEAN, exec' = [exec EXCEPT ![t].pc = pc, ![t].ok = ok]
  PROVE  /\ exec' \in [Tasks -> Executing] /\ \A u \in Tasks \ {t} : exec'[u] = exec[u]
         /\ exec'[t].pc = pc /\ exec'[t].ok = ok /\ exec'[t].frame = exec[t].frame
<1>1. PICK old \in Executing : old = exec[t]
  BY TypeFacts
<1>2. PICK e : e = [[old EXCEPT !.pc = pc] EXCEPT !.ok = ok]
  OBVIOUS
<1>3. e \in Executing /\ e.pc = pc /\ e.ok = ok /\ e.frame = old.frame
  <2>1. PICK g : g = [old EXCEPT !.pc = pc]
    OBVIOUS
  <2>2. g \in Executing /\ g.pc = pc /\ g.frame = old.frame
    BY <2>1, Zenon DEF Executing
  <2>3. e = [g EXCEPT !.ok = ok]
    BY <1>2, <2>1
  <2> QED BY <2>2, <2>3, Zenon DEF Executing
<1>4. exec' = [exec EXCEPT ![t] = e]
  <2>1. exec \in [Tasks -> Executing]
    BY DEF ExecInv, TypeOK
  <2> QED BY <1>1, <1>2, <2>1
<1> QED BY <1>1, <1>3, <1>4, ExecType

\* Submission: the whole program is behind nothing else, or the execution is
\* not well.
LEMMA SubmitExec ==
  ASSUME ExecInv, NEW t \in Tasks, Submit(t)
  PROVE  ExecInv'
<1> DEFINE f == exec[t].frame
           program == Program(lease[t].kind, f)
<1>1. /\ exec[t].pc = "leased"
      /\ h_in' = IF lease[t].kind = "read" THEN h_in ELSE [h_in EXCEPT ![t] = f]
      /\ UNCHANGED <<parameterVars, model, lifecycleVars, writable, d_out, h_out, cacheVars>>
  BY DEF Submit
<1>2. PICK n \in 0..Len(program), ok \in BOOLEAN :
        /\ stream' = [stream EXCEPT ![t] = @ \o SubSeq(program, 1, n)]
        /\ exec' = [exec EXCEPT ![t].pc = "submitted", ![t].ok = ok]
        /\ ok => n = Len(program)
  BY DEF Submit
<1>3. /\ exec' \in [Tasks -> Executing] /\ \A u \in Tasks \ {t} : exec'[u] = exec[u]
      /\ exec'[t].pc = "submitted" /\ exec'[t].ok = ok /\ exec'[t].frame = f
  BY <1>2, ExecMoves
<1>4. lease[t].kind \in Kinds /\ f \in Frames
  BY <1>1, TypeFacts, LeaseFacts
<1>5. program \in Seq(Ops)
  BY <1>4, ProgramFacts, TypeFacts
<1> HIDE DEF program
<1>6. stream[t] = <<>>
  BY <1>1, TypeFacts DEF StreamFits
<1>7. SubSeq(program, 1, n) \in Seq(Ops) /\ (n = Len(program) => SubSeq(program, 1, n) = program)
  BY <1>5
<1>8. stream'[t] = SubSeq(program, 1, n) /\ stream' \in [Tasks -> Seq(Ops)]
  <2>1. << >> \o SubSeq(program, 1, n) = SubSeq(program, 1, n)
    BY <1>7
  <2> QED BY <1>2, <1>6, <1>7, <2>1, TypeFacts
<1>9. TypeOK' /\ PublishedFits' /\ CacheKeeps
  <2>1. h_in' \in [Tasks -> Bytes]
    BY <1>1, <1>4, SizeFacts, TypeFacts
  <2> QED BY <1>1, <1>3, <1>8, <2>1 DEF ExecInv, TypeOK, BufferTypes, CacheTypes, LifecycleTypes,
        PublishedFits, CacheKeeps, parameterVars, lifecycleVars, cacheVars
<1>10. \A u \in Tasks \ {t} : SameTask(u)
  BY <1>1, <1>2, <1>3, TypeFacts DEF SameTask, lifecycleVars, cacheVars
<1>11. TaskFits(t)'
  <2>1. ExecFits(t)' /\ StreamFits(t)'
    <3>1. ExecFits(t) /\ state' = state /\ lease' = lease
      BY <1>1, TypeFacts DEF lifecycleVars, cacheVars
    <3>2. state[t] = "Started"
      BY <1>1, <3>1 DEF ExecFits
    <3>3. ExecFits(t)'
      BY <1>1, <1>3, <3>1 DEF ExecFits, Frame, Cache!Lease, Cache!Nothing
    <3> QED BY <1>3, <3>1, <3>2, <3>3 DEF StreamFits
  <2>2. (lease[t].kind = "read" => payload[exec[t].frame] = exec[t].frame)'
    BY <1>1, <1>3, TypeFacts DEF TaskFits, cacheVars
  <2>3. ASSUME ok PROVE Pending(t)'
    <3>1. Program(lease[t].kind, exec[t].frame)' = program
      BY <1>1, <1>3, SameProgram DEF program, cacheVars
    <3>2. stream'[t] = program
      BY <1>2, <1>7, <1>8, <2>3
    <3>3. lease'[t].kind # "read" => h_in'[t] = f
      BY <1>1, TypeFacts DEF cacheVars
    <3>4. Len(program) \in Nat
      BY <1>5
    <3> QED BY <1>3, <3>1, <3>2, <3>3, <3>4 DEF Pending
  <2> QED BY <1>3, <2>1, <2>2, <2>3 DEF TaskFits
<1> QED BY <1>9, <1>10, <1>11, OneTask

\* A wait that succeeds: the stream is empty, so the whole program is done.
LEMMA PendingIsDone ==
  ASSUME ExecInv, NEW t \in Tasks, exec[t].pc = "submitted", Pending(t), stream[t] = <<>>
  PROVE  Done(t)
<1> DEFINE f == exec[t].frame
           program == Program(lease[t].kind, f)
<1>1. lease[t].kind \in Kinds /\ f \in Frames
  BY TypeFacts, LeaseFacts
<1>2. /\ \A a \in Algos : \E i \in 1..Len(program) : program[i].op = "D2H" /\ program[i].algo = a
      /\ lease[t].kind # "read" => Len(program) >= 1
      /\ Len(program) \in Nat
      /\ \A i \in 1..Len(program) : program[i].op = "H2D" <=> lease[t].kind # "read" /\ i = 1
  <2>1. model \in {"Batched", "Interleaved"}
    BY TypeFacts
  <2>2. PICK k \in Kinds : k = lease[t].kind
    BY <1>1
  <2>3. program = Program(k, f)
    BY <2>2
  <2> HIDE DEF program, f
  <2>4. /\ Program(k, f) \in Seq(Ops)
        /\ \A a \in Algos : \E i \in 1..Len(Program(k, f)) : Program(k, f)[i].op = "D2H" /\ Program(k, f)[i].algo = a
        /\ k # "read" => Len(Program(k, f)) >= 1
        /\ \A i \in 1..Len(Program(k, f)) : Program(k, f)[i].op = "H2D" <=> k # "read" /\ i = 1
    BY <1>1, <2>1, ProgramFacts
  <2> QED BY <2>2, <2>3, <2>4
<1>3. \A i \in 1..Len(program) : HasDone(t, program[i], f)
  BY <1>2 DEF Pending
<1> HIDE DEF program
<1>4. ASSUME NEW a \in Algos PROVE h_out[t][a] = f
  BY <1>2, <1>3 DEF HasDone
<1>5. h_out[t] = [a \in Algos |-> f]
  BY <1>4, TypeFacts
<1>6. lease[t].kind = "fill" => writable[t] = f
  BY <1>2, <1>3 DEF HasDone
<1> QED BY <1>5, <1>6 DEF Done

\* The wait: after one that failed the execution is not well and the cache is
\* broken.
LEMMA SynchronizeExec ==
  ASSUME ExecInv, NEW t \in Tasks, Synchronize(t)
  PROVE  ExecInv'
<1>1. /\ exec[t].pc = "submitted"
      /\ UNCHANGED <<parameterVars, model, lifecycleVars, bufferVars, lease, published, payload>>
  BY DEF Synchronize, Cache!Break, cacheVars
<1>2. PICK ok \in BOOLEAN :
        /\ exec' = [exec EXCEPT ![t].pc = "synchronized", ![t].ok = ok]
        /\ ok => exec[t].ok
        /\ \/ stream[t] = <<>> /\ broken' = broken
           \/ ~ok /\ broken' = TRUE
  <2>1. CASE stream[t] = <<>> /\ exec' = [exec EXCEPT ![t].pc = "synchronized"] /\ UNCHANGED cacheVars
    <3>1. exec \in [Tasks -> Executing] /\ exec[t] \in Executing /\ exec[t].ok \in BOOLEAN
      BY DEF ExecInv, TypeOK, Executing
    <3>2. PICK old : old = exec[t]
      OBVIOUS
    <3>3. [[old EXCEPT !.pc = "synchronized"] EXCEPT !.ok = old.ok] = [old EXCEPT !.pc = "synchronized"]
      <4>1. PICK g : g = [old EXCEPT !.pc = "synchronized"]
        OBVIOUS
      <4>2. g \in Executing /\ g.ok = old.ok
        BY <3>1, <3>2, <4>1, Zenon DEF Executing
      <4>3. [g EXCEPT !.ok = g.ok] = g
        BY <4>2 DEF Executing
      <4> QED BY <4>1, <4>2, <4>3
    <3>4. exec' = [exec EXCEPT ![t].pc = "synchronized", ![t].ok = exec[t].ok]
      BY <2>1, <3>1, <3>2, <3>3
    <3> QED BY <2>1, <3>1, <3>4 DEF cacheVars
  <2>2. CASE exec' = [exec EXCEPT ![t].pc = "synchronized", ![t].ok = FALSE] /\ Cache!Break
    BY <2>2 DEF Cache!Break
  <2> QED BY <2>1, <2>2 DEF Synchronize
<1>3. /\ exec' \in [Tasks -> Executing] /\ \A u \in Tasks \ {t} : exec'[u] = exec[u]
      /\ exec'[t].pc = "synchronized" /\ exec'[t].ok = ok /\ exec'[t].frame = exec[t].frame
  BY <1>2, ExecMoves
<1>4. TypeOK' /\ PublishedFits' /\ CacheKeeps
  <2>1. broken' \in BOOLEAN /\ (broken => broken')
    <3>1. broken \in BOOLEAN
      BY DEF ExecInv, TypeOK, CacheTypes
    <3>2. CASE broken' = broken
      BY <3>1, <3>2
    <3>3. CASE broken' = TRUE
      <4>1. broken'
        BY <3>3
      <4> QED BY <3>3, <4>1
    <3> QED BY <1>2, <3>2, <3>3
  <2> QED BY <1>1, <1>3, <2>1 DEF ExecInv, TypeOK, BufferTypes, CacheTypes, LifecycleTypes,
        PublishedFits, CacheKeeps, parameterVars, lifecycleVars, bufferVars
<1>5. \A u \in Tasks \ {t} : SameTask(u)
  BY <1>1, <1>3 DEF SameTask, lifecycleVars, bufferVars
<1>6. TaskFits(t)'
  <2>1. ExecFits(t)'
    BY <1>1, <1>3, TypeFacts DEF ExecFits, Frame, Cache!Lease, Cache!Nothing, lifecycleVars
  <2>2. StreamFits(t)'
    <3>1. stream' = stream /\ state' = state
      BY <1>1 DEF bufferVars, lifecycleVars
    <3>2. stream[t] # <<>> => broken' /\ ~ok
      BY <1>2
    <3> QED BY <1>1, <1>3, <3>1, <3>2, TypeFacts DEF StreamFits
  <2>3. (lease[t].kind = "read" => payload[exec[t].frame] = exec[t].frame)'
    BY <1>1, <1>3, TypeFacts DEF TaskFits
  <2>4. ASSUME ok PROVE Done(t)'
    <3>1. Pending(t) /\ stream[t] = <<>>
      BY <1>1, <1>2, <2>4, TypeFacts DEF TaskFits
    <3>2. Done(t)
      BY <1>1, <3>1, PendingIsDone
    <3> QED BY <1>1, <1>3, <3>2 DEF Done, Algos, bufferVars
  <2> QED BY <1>3, <2>1, <2>2, <2>3, <2>4 DEF TaskFits
<1> QED BY <1>4, <1>5, <1>6, OneTask
\* The end of the lease: what a well execution publishes is its frame, and so
\* is what it reports.
LEMMA CollectExec ==
  ASSUME ExecInv, NEW t \in Tasks, Collect(t)
  PROVE  ExecInv'
<1> DEFINE f == exec[t].frame
<1>1. /\ exec[t].pc = "synchronized"
      /\ UNCHANGED <<parameterVars, model, lifecycleVars, bufferVars, broken>>
      /\ lease' = [lease EXCEPT ![t] = Cache!Nothing]
      /\ exec' = [exec EXCEPT ![t] = IF exec[t].ok THEN Idle(TRUE, f, h_out[t]) ELSE Idle(FALSE, 0, NoOutput)]
  BY DEF Collect, Cache!Settle, Cache!Return, Cache!EndPrivate, Cache!Finish
<1>2. /\ f \in Frames /\ exec[t].ok \in BOOLEAN /\ h_out[t] \in [Algos -> Bytes]
      /\ lease[t].kind \in Kinds => lease[t].frame = Frame(f)
      /\ state[t] = "Started"
      /\ exec[t].ok => Done(t)
      /\ payload \in [Frames -> Bytes] /\ published \subseteq {Frame(g) : g \in Frames}
  <2>1. exec[t].ok \in BOOLEAN
    BY TypeFacts DEF Executing
  <2>2. lease[t].frame = Frame(f) /\ f \in Frames /\ state[t] = "Started"
    BY <1>1, TypeFacts, LeaseFacts DEF ExecFits
  <2> QED BY <1>1, <2>1, <2>2, TypeFacts DEF TaskFits, ExecInv, TypeOK, CacheTypes
<1>3. \/ payload' = payload /\ published' \subseteq published
      \/ payload' = [payload EXCEPT ![f] = f] /\ published' = published \cup {Frame(f)}
  <2>1. CASE lease[t].kind = "fill" /\ exec[t].ok
    <3>1. writable[t] = f
      BY <1>2, <2>1 DEF Done
    <3>2. published' = published \cup {lease[t].frame} /\ payload' = [payload EXCEPT ![f] = writable[t]]
      BY <2>1 DEF Collect, Cache!Settle, Cache!Return, Cache!EndPrivate
    <3> QED BY <1>2, <2>1, <3>1, <3>2 DEF Kinds
  <2>2. CASE ~(lease[t].kind = "fill" /\ exec[t].ok)
    BY <2>2 DEF Collect, Cache!Settle, Cache!Return, Cache!EndPrivate
  <2> QED BY <2>1, <2>2
<1> DEFINE e == IF exec[t].ok THEN Idle(TRUE, f, h_out[t]) ELSE Idle(FALSE, 0, NoOutput)
<1>4. e \in Executing /\ e.pc = "idle" /\ (e.ok => exec[t].ok /\ e.frame = f /\ e.outputs = h_out[t])
  <2>1. NoOutput \in [Algos -> Bytes] /\ 0 \in Bytes /\ f \in Bytes /\ TRUE \in BOOLEAN /\ FALSE \in BOOLEAN
    BY <1>2, SizeFacts DEF NoOutput
  <2>2. /\ Idle(FALSE, 0, NoOutput) \in Executing /\ Idle(FALSE, 0, NoOutput).pc = "idle"
        /\ ~Idle(FALSE, 0, NoOutput).ok
    BY <2>1, IdleFacts
  <2>3. /\ Idle(TRUE, f, h_out[t]) \in Executing /\ Idle(TRUE, f, h_out[t]).pc = "idle"
        /\ Idle(TRUE, f, h_out[t]).frame = f /\ Idle(TRUE, f, h_out[t]).outputs = h_out[t]
    <3>1. PICK g \in Bytes, w \in [Algos -> Bytes] : g = f /\ w = h_out[t]
      BY <1>2, <2>1
    <3>2. PICK yes \in BOOLEAN : yes = TRUE
      OBVIOUS
    <3>3. Idle(yes, g, w) \in Executing /\ Idle(yes, g, w).pc = "idle" /\ Idle(yes, g, w).frame = g
          /\ Idle(yes, g, w).outputs = w
      BY IdleFacts
    <3> QED BY <3>1, <3>2, <3>3
  <2>4. CASE exec[t].ok
    <3>1. e = Idle(TRUE, f, h_out[t])
      BY <2>4
    <3> HIDE DEF e
    <3> QED BY <2>3, <2>4, <3>1
  <2>5. CASE ~exec[t].ok
    <3>1. e = Idle(FALSE, 0, NoOutput)
      BY <2>5
    <3> HIDE DEF e
    <3> QED BY <2>2, <3>1
  <2> QED BY <2>4, <2>5
<1>5. exec' = [exec EXCEPT ![t] = e]
  BY <1>1
<1> HIDE DEF e
<1>6. exec' \in [Tasks -> Executing] /\ exec'[t] = e /\ \A u \in Tasks \ {t} : exec'[u] = exec[u]
  BY <1>4, <1>5, ExecType
<1>7. TypeOK'
  <2>1. f \in Bytes
    BY <1>2, SizeFacts
  <2>2. CacheTypes'
    <3>1. payload' \in [Frames -> Bytes] /\ published' \subseteq {Frame(g) : g \in Frames}
      BY <1>2, <1>3, <2>1
    <3> QED BY <1>1, <3>1 DEF ExecInv, TypeOK, CacheTypes
  <2> QED BY <1>1, <1>6, <2>2 DEF ExecInv, TypeOK, BufferTypes, LifecycleTypes, parameterVars, lifecycleVars, bufferVars
<1>8. \A g \in Frames : payload[g] = g => payload'[g] = g
  BY <1>2, <1>3
<1>9. PublishedFits' /\ CacheKeeps
  <2>1. \A g \in Frames : Frame(g) = Frame(f) => g = f
    BY DEF Frame
  <2>2. PublishedFits'
    BY <1>2, <1>3, <1>8, <2>1 DEF ExecInv, PublishedFits
  <2> QED BY <1>1, <1>8, <2>2 DEF CacheKeeps
<1>10. \A u \in Tasks \ {t} : SameTask(u)
  BY <1>1, <1>6, TypeFacts DEF SameTask, lifecycleVars, bufferVars
<1>11. TaskFits(t)'
  <2>1. lease'[t] = Cache!Nothing
    BY <1>1, TypeFacts
  <2>2. ExecFits(t)' /\ lease'[t].kind # "read"
    BY <1>4, <1>6, <2>1 DEF ExecFits, Cache!Nothing
  <2>3. StreamFits(t)'
    BY <1>1, <1>2, <1>4, <1>6, TypeFacts DEF StreamFits, bufferVars, lifecycleVars
  <2>4. (exec[t].pc = "idle" /\ exec[t].ok => exec[t].outputs = [a \in Algos |-> exec[t].frame])'
    BY <1>2, <1>4, <1>6 DEF Done, Algos
  <2> QED BY <1>4, <1>6, <2>2, <2>3, <2>4 DEF TaskFits
<1> QED BY <1>7, <1>9, <1>10, <1>11, OneTask

\* The end of a program without its first operation is an end of it.
LEMMA TailOfProgram ==
  ASSUME NEW p \in Seq(Ops), NEW q \in Seq(Ops), q # <<>>, NEW d, d = Len(p) - Len(q), d >= 0,
         \A i \in 1..Len(q) : q[i] = p[d + i]
  PROVE  /\ d \in Nat /\ d + 1 \in 1..Len(p) /\ Head(q) = p[d + 1]
         /\ Tail(q) \in Seq(Ops) /\ Len(p) - Len(Tail(q)) = d + 1
         /\ \A i \in 1..Len(Tail(q)) : Tail(q)[i] = p[(d + 1) + i]
<1>1. Len(p) \in Nat /\ Len(q) \in Nat /\ Len(q) >= 1
  <2>1. Len(q) # 0
    BY EmptySeq
  <2> QED BY <2>1
<1>2. d \in Nat /\ d + 1 \in 1..Len(p)
  BY <1>1
<1>3. Head(q) = q[1] /\ q[1] = p[d + 1]
  BY <1>1
<1>4. Tail(q) \in Seq(Ops) /\ Len(Tail(q)) = Len(q) - 1 /\ \A i \in 1..Len(Tail(q)) : Tail(q)[i] = q[i + 1]
  BY HeadTailProperties
<1>5. ASSUME NEW i \in 1..Len(Tail(q)) PROVE Tail(q)[i] = p[(d + 1) + i]
  <2>1. i + 1 \in 1..Len(q) /\ d + (i + 1) = (d + 1) + i
    BY <1>1, <1>2, <1>4
  <2> QED BY <1>4, <2>1
<1> QED BY <1>1, <1>2, <1>3, <1>4, <1>5

\* The device runs the next operation: an upload takes the staged frame, a
\* kernel finds the frame in the buffer or in the cache, a copy finds the output
\* of its kernel.
LEMMA DevicePending ==
  ASSUME ExecInv, NEW t \in Tasks, exec[t].pc = "submitted", Pending(t), DeviceStep(t)
  PROVE  Pending(t)'
<1> DEFINE f == exec[t].frame
           k == lease[t].kind
           program == Program(k, f)
           done == Len(program) - Len(stream[t])
           o == Head(stream[t])
<1>1. /\ stream[t] # <<>> /\ stream' = [stream EXCEPT ![t] = Tail(@)]
      /\ writable' = IF o.op = "H2D" THEN [writable EXCEPT ![t] = h_in[t]] ELSE writable
      /\ d_out' = IF o.op = "kernel"
                  THEN [d_out EXCEPT ![t][o.algo] = IF o.source = 0 THEN writable[t] ELSE payload[o.source]]
                  ELSE d_out
      /\ h_out' = IF o.op = "D2H" THEN [h_out EXCEPT ![t][o.algo] = d_out[t][o.algo]] ELSE h_out
      /\ UNCHANGED <<parameterVars, model, lifecycleVars, exec, executions, h_in, cacheVars>>
  BY DEF DeviceStep
<1>2. k \in Kinds /\ f \in Frames
  BY TypeFacts, LeaseFacts
<1>3. /\ program \in Seq(Ops) /\ Len(program) \in Nat
      /\ \A i \in 1..Len(program) :
          /\ program[i].op = "H2D" <=> k # "read" /\ i = 1
          /\ program[i].op # "H2D" => program[i].algo \in Algos
          /\ program[i].op = "kernel" => program[i].source = IF k = "read" THEN f ELSE 0
          /\ program[i].op = "D2H" =>
              \E j \in 1..(i - 1) : program[j].op = "kernel" /\ program[j].algo = program[i].algo
          /\ program[i].op \in {"H2D", "kernel", "D2H"}
  <2>1. model \in {"Batched", "Interleaved"}
    BY TypeFacts
  <2> HIDE DEF f, k
  <2>2. /\ program \in Seq(Ops)
        /\ \A i \in 1..Len(program) :
            /\ program[i].op = "H2D" <=> k # "read" /\ i = 1
            /\ program[i].op # "H2D" => program[i].algo \in Algos
            /\ program[i].op = "kernel" => program[i].source = IF k = "read" THEN f ELSE 0
            /\ program[i].op = "D2H" =>
                \E j \in 1..(i - 1) : program[j].op = "kernel" /\ program[j].algo = program[i].algo
    BY <1>2, <2>1, ProgramFacts
  <2> HIDE DEF program
  <2>3. Len(program) \in Nat /\ \A i \in 1..Len(program) : program[i] \in Ops
    BY <2>2
  <2> QED BY <2>2, <2>3 DEF Ops
<1>4. Program(lease[t].kind, exec[t].frame)' = program
  BY <1>1, SameProgram DEF cacheVars
<1> HIDE DEF program
<1>5. /\ done >= 0 /\ \A i \in 1..Len(stream[t]) : stream[t][i] = program[done + i]
      /\ \A i \in 1..done : HasDone(t, program[i], f)
      /\ k # "read" => h_in[t] = f
  BY DEF Pending, program
<1>6. PICK d : d = done
  OBVIOUS
<1>7. stream[t] \in Seq(Ops) /\ stream'[t] = Tail(stream[t])
  BY <1>1, TypeFacts
<1>8. /\ d \in Nat /\ d + 1 \in 1..Len(program) /\ o = program[d + 1]
      /\ Len(program) - Len(stream'[t]) = d + 1
      /\ \A i \in 1..Len(stream'[t]) : stream'[t][i] = program[(d + 1) + i]
  <2>1. PICK q \in Seq(Ops) : q = stream[t]
    BY <1>7
  <2>2. q # <<>> /\ d = Len(program) - Len(q) /\ d >= 0 /\ \A i \in 1..Len(q) : q[i] = program[d + i]
    BY <1>1, <1>5, <1>6, <2>1
  <2>3. /\ d \in Nat /\ d + 1 \in 1..Len(program) /\ Head(q) = program[d + 1]
        /\ Tail(q) \in Seq(Ops) /\ Len(program) - Len(Tail(q)) = d + 1
        /\ \A i \in 1..Len(Tail(q)) : Tail(q)[i] = program[(d + 1) + i]
    BY <1>3, <2>2, TailOfProgram
  <2>4. stream'[t] = Tail(q) /\ o = Head(q)
    BY <1>7, <2>1
  <2> HIDE DEF o
  <2> QED BY <2>3, <2>4
<1>9. \A i \in 1..d : HasDone(t, program[i], f)
  BY <1>5, <1>6
<1>10. k # "read" => h_in[t] = f
  BY <1>5
<1> HIDE DEF done
<1>11. /\ program[d + 1].op \in {"H2D", "kernel", "D2H"}
       /\ program[d + 1].op = "H2D" <=> k # "read" /\ d = 0
       /\ program[d + 1].op # "H2D" => program[d + 1].algo \in Algos
       /\ program[d + 1].op = "kernel" => program[d + 1].source = IF k = "read" THEN f ELSE 0
       /\ program[d + 1].op = "D2H" =>
              \E j \in 1..d : program[j].op = "kernel" /\ program[j].algo = program[d + 1].algo
  <2> HIDE DEF k, f
  <2>1. PICK i \in 1..Len(program) : i = d + 1
    BY <1>8
  <2>2. (i = 1 <=> d = 0) /\ 1..(i - 1) = 1..d
    BY <1>8, <2>1
  <2> QED BY <1>3, <2>1, <2>2
<1>12. ASSUME o.op = "kernel" PROVE (IF o.source = 0 THEN writable[t] ELSE payload[o.source]) = f
  <2>1. CASE k = "read"
    <3>1. o.source = f /\ f # 0
      <4>1. f # 0
        BY <1>2 DEF Frames
      <4> HIDE DEF o, k, f
      <4> QED BY <1>8, <1>11, <1>12, <2>1, <4>1
    <3>2. payload[f] = f
      BY <2>1, TypeFacts DEF TaskFits
    <3> QED BY <3>1, <3>2
  <2>2. CASE k # "read"
    <3>1. o.source = 0 /\ d # 0
      BY <1>8, <1>11, <1>12, <2>2
    <3>2. 1 \in 1..d /\ 1 \in 1..Len(program)
      BY <1>8, <3>1
    <3>3. program[1].op = "H2D"
      BY <1>3, <2>2, <3>2
    <3>4. writable[t] = f
      BY <1>9, <3>2, <3>3 DEF HasDone
    <3> QED BY <3>1, <3>4
  <2> QED BY <2>1, <2>2
<1>13. ASSUME o.op = "D2H" PROVE d_out[t][o.algo] = f
  BY <1>8, <1>9, <1>11, <1>13 DEF HasDone
<1>14. /\ o.op = "H2D" => writable'[t] = f
       /\ o.op # "H2D" => writable'[t] = writable[t]
  BY <1>1, <1>8, <1>10, <1>11, TypeFacts
<1>15. ASSUME NEW a \in Algos
       PROVE  d_out'[t][a] = (IF o.op = "kernel" /\ o.algo = a THEN f ELSE d_out[t][a])
  BY <1>1, <1>8, <1>11, <1>12, TypeFacts
<1>16. ASSUME NEW a \in Algos
       PROVE  h_out'[t][a] = (IF o.op = "D2H" /\ o.algo = a THEN f ELSE h_out[t][a])
  BY <1>1, <1>8, <1>11, <1>13, TypeFacts
<1> HIDE DEF o
<1>17. ASSUME NEW i \in 1..(d + 1) PROVE \A x, g : x = program[i] /\ g = f => HasDone(t, x, g)'
  <2>1. i \in 1..Len(program)
    BY <1>3, <1>8
  <2>2. PICK x : x = program[i]
    OBVIOUS
  <2>3. x.op \in {"H2D", "kernel", "D2H"} /\ (x.op # "H2D" => x.algo \in Algos)
    BY <1>3, <2>1, <2>2
  <2>4. /\ x.op = "H2D" => writable'[t] = f
        /\ x.op = "kernel" => d_out'[t][x.algo] = f
        /\ x.op = "D2H" => h_out'[t][x.algo] = f
    <3>1. CASE i = d + 1
      <4>1. x = o
        BY <1>8, <2>2, <3>1
      <4> QED BY <1>14, <1>15, <1>16, <2>3, <4>1
    <3>2. CASE i # d + 1
      <4>1. i \in 1..d
        BY <1>8, <3>2
      <4>2. /\ x.op = "H2D" => writable[t] = f
            /\ x.op = "kernel" => d_out[t][x.algo] = f
            /\ x.op = "D2H" => h_out[t][x.algo] = f
        BY <1>9, <2>2, <4>1 DEF HasDone
      <4> QED BY <1>14, <1>15, <1>16, <2>3, <4>2
    <3> QED BY <3>1, <3>2
  <2> QED BY <2>2, <2>4 DEF HasDone
<1>18. exec'[t] = exec[t] /\ lease'[t] = lease[t] /\ h_in'[t] = h_in[t]
  BY <1>1 DEF cacheVars
<1>19. PICK q : q = stream'[t]
  OBVIOUS
<1>20. /\ Len(program) - Len(q) >= 0
       /\ \A i \in 1..Len(q) : q[i] = program[(Len(program) - Len(q)) + i]
       /\ \A i \in 1..(Len(program) - Len(q)) : \A x, g : x = program[i] /\ g = f => HasDone(t, x, g)'
  <2>1. PICK n : n = Len(program) - Len(q)
    OBVIOUS
  <2>2. n = d + 1 /\ n >= 0 /\ \A i \in 1..Len(q) : q[i] = program[(d + 1) + i]
    <3>1. Len(program) - Len(q) = d + 1 /\ \A i \in 1..Len(q) : q[i] = program[(d + 1) + i]
      BY <1>8, <1>19, Zenon
    <3>2. d \in Nat
      BY <1>8
    <3> QED BY <2>1, <3>1, <3>2
  <2>3. \A i \in 1..n : \A x, g : x = program[i] /\ g = f => HasDone(t, x, g)'
    BY <1>17, <2>2
  <2> QED BY <2>1, <2>2, <2>3
<1> HIDE DEF k, f
<1>21. lease'[t].kind = k /\ exec'[t].frame = f
  BY <1>18 DEF k, f
<1> QED BY <1>4, <1>10, <1>18, <1>19, <1>20, <1>21 DEF Pending
\* The device's step, whatever the execution is at.
LEMMA DeviceExec ==
  ASSUME ExecInv, NEW t \in Tasks, DeviceStep(t)
  PROVE  ExecInv'
<1> DEFINE o == Head(stream[t])
<1>1. /\ stream[t] # <<>> /\ stream' = [stream EXCEPT ![t] = Tail(@)]
      /\ writable' = IF o.op = "H2D" THEN [writable EXCEPT ![t] = h_in[t]] ELSE writable
      /\ d_out' = IF o.op = "kernel"
                  THEN [d_out EXCEPT ![t][o.algo] = IF o.source = 0 THEN writable[t] ELSE payload[o.source]]
                  ELSE d_out
      /\ h_out' = IF o.op = "D2H" THEN [h_out EXCEPT ![t][o.algo] = d_out[t][o.algo]] ELSE h_out
      /\ UNCHANGED <<parameterVars, model, lifecycleVars, exec, executions, h_in, cacheVars>>
  BY DEF DeviceStep
<1>2. o \in Ops /\ Tail(stream[t]) \in Seq(Ops)
  <2>1. stream[t] \in Seq(Ops)
    BY TypeFacts
  <2> QED BY <1>1, <2>1, HeadTailProperties
<1> HIDE DEF o
<1>3. PICK v : v = (IF o.source = 0 THEN writable[t] ELSE payload[o.source])
  OBVIOUS
<1>4. v \in Bytes
  <2>1. writable[t] \in Bytes /\ payload \in [Frames -> Bytes]
    BY DEF ExecInv, TypeOK, BufferTypes, CacheTypes
  <2>2. o.source = 0 \/ o.source \in Frames
    BY <1>2, SizeFacts DEF Ops, Bytes, Frames
  <2> QED BY <1>3, <2>1, <2>2
<1>5. TypeOK'
  <2>1. stream' \in [Tasks -> Seq(Ops)]
    BY <1>1, <1>2, TypeFacts
  <2>2. writable' \in [Tasks -> Bytes]
    BY <1>1, TypeFacts
  <2>3. d_out' \in [Tasks -> [Algos -> Bytes]]
    BY <1>1, <1>3, <1>4, TypeFacts
  <2>4. h_out' \in [Tasks -> [Algos -> Bytes]]
    <3>1. o.algo \in Algos => d_out[t][o.algo] \in Bytes
      BY TypeFacts
    <3> QED BY <1>1, <3>1, TypeFacts
  <2> QED BY <1>1, <2>1, <2>2, <2>3, <2>4 DEF ExecInv, TypeOK, BufferTypes, CacheTypes, LifecycleTypes,
        parameterVars, lifecycleVars, cacheVars
<1>6. PublishedFits' /\ CacheKeeps
  BY <1>1 DEF ExecInv, PublishedFits, CacheKeeps, cacheVars
<1>7. \A u \in Tasks \ {t} : SameTask(u)
  BY <1>1, TypeFacts DEF SameTask, lifecycleVars, cacheVars
<1>8. TaskFits(t)'
  <2>1. TaskFits(t) /\ exec'[t] = exec[t] /\ lease'[t] = lease[t] /\ state'[t] = state[t]
        /\ broken' = broken /\ payload' = payload
    BY <1>1, TypeFacts DEF cacheVars, lifecycleVars
  <2>2. ExecFits(t)'
    BY <2>1 DEF TaskFits, ExecFits, Frame, Cache!Lease, Cache!Nothing, Frames
  <2>3. StreamFits(t)'
    BY <1>1, <2>1 DEF TaskFits, StreamFits
  <2>4. (lease[t].kind = "read" => payload[exec[t].frame] = exec[t].frame)'
    BY <2>1 DEF TaskFits
  <2>5. (exec[t].pc = "submitted" /\ exec[t].ok => Pending(t))'
    BY <2>1, DevicePending DEF TaskFits
  <2>6. ~(exec[t].pc = "synchronized" /\ exec[t].ok)
    BY <1>1, <2>1 DEF TaskFits, StreamFits
  <2>7. (exec[t].pc = "idle" /\ exec[t].ok => exec[t].outputs = [a \in Algos |-> exec[t].frame])'
    BY <2>1 DEF TaskFits, Algos
  <2> QED BY <2>1, <2>2, <2>3, <2>4, <2>5, <2>6, <2>7 DEF TaskFits
<1> QED BY <1>5, <1>6, <1>7, <1>8, OneTask

-----------------------------------------------------------------------------
(* The theorems.                                                           *)

\* The initial state.
LEMMA Initially == Init => IInv
<1> SUFFICES ASSUME Init PROVE IInv
  OBVIOUS
<1>1. BufferTypes /\ CacheTypes
  <2>1. NoOutput \in [Algos -> Bytes] /\ 0 \in Bytes /\ << >> \in Seq(Ops)
    BY SizeFacts DEF NoOutput
  <2>2. h_out \in [Tasks -> [Algos -> Bytes]] /\ d_out \in [Tasks -> [Algos -> Bytes]]
        /\ stream \in [Tasks -> Seq(Ops)]
    BY <2>1 DEF Init
  <2>3. h_in \in [Tasks -> Bytes] /\ writable \in [Tasks -> Bytes] /\ payload \in [Frames -> Bytes]
    BY <2>1 DEF Init
  <2>4. broken \in BOOLEAN
    BY DEF Init
  <2> QED BY <2>2, <2>3, <2>4 DEF Init, BufferTypes, CacheTypes
<1>2. LifecycleTypes /\ registry.sealed = FALSE
  <2>1. PICK no \in BOOLEAN : no = FALSE
    OBVIOUS
  <2>2. registry = [name |-> Unset, blob |-> Unset, revision |-> 0, sealed |-> no]
    BY <2>1 DEF Init
  <2>3. registry \in Registries /\ registry.sealed = no
    BY <2>2 DEF Registries
  <2>4. state \in [Tasks -> States]
    BY DEF Init, States
  <2> QED BY <2>1, <2>3, <2>4 DEF Init, LifecycleTypes
<1>3. PICK e \in Executing : e = Idle(FALSE, 0, NoOutput) /\ e.pc = "idle" /\ ~e.ok
  <2>1. NoOutput \in [Algos -> Bytes] /\ 0 \in Bytes /\ FALSE \in BOOLEAN
    BY SizeFacts DEF NoOutput
  <2> QED BY <2>1, IdleFacts
<1>4. exec = [t \in Tasks |-> e]
  BY <1>3 DEF Init
<1>5. TypeOK /\ PublishedFits
  BY <1>1, <1>2, <1>4 DEF Init, TypeOK, PublishedFits
<1>6. ASSUME NEW t \in Tasks PROVE TaskFits(t)
  <2>1. exec[t].pc = "idle" /\ ~exec[t].ok /\ lease[t] = Cache!Nothing /\ stream[t] = <<>>
    BY <1>3, <1>4 DEF Init
  <2>2. lease[t].kind # "read"
    BY <2>1 DEF Cache!Nothing
  <2> QED BY <2>1, <2>2 DEF TaskFits, ExecFits, StreamFits
<1>7. ParamInv
  <2>1. UsableFits
    BY DEF Init, UsableFits, Usable
  <2>2. SnapshotsAreWhole /\ RegistryIsWhole
    BY <1>2 DEF Init, SnapshotsAreWhole, RegistryIsWhole
  <2> QED BY <1>2, <2>1, <2>2 DEF ParamInv
<1> QED BY <1>5, <1>6, <1>7 DEF IInv, ExecInv

\* The lifecycle of a task and the execution of it.
LEMMA TaskExec ==
  ASSUME IInv, NEW t \in Tasks, TaskNext(t), LifecycleTypes'
  PROVE  ExecInv'
<1>1. ExecInv /\ DOMAIN state = Tasks /\ stream \in [Tasks -> Seq(Ops)] /\ StreamFits(t)
  BY TypeFacts DEF IInv, ExecInv, TypeOK, LifecycleTypes
<1>2. ASSUME Quiet(t), UNCHANGED <<model, exec, bufferVars, cacheVars>>, NEW z, Enter(t, z),
             z \in {"Constructed", "Registered"} => state[t] \in {"Constructed", "Registered"}
      PROVE  ExecInv'
  <2>1. /\ \A u \in Tasks \ {t} : state'[u] = state[u]
        /\ state'[t] = z
    BY <1>1, <1>2 DEF Enter
  <2> QED BY <1>1, <1>2, <2>1, LifecycleExec DEF bufferVars
<1>3. ASSUME RegisterParameters(t) PROVE ExecInv'
  <2>1. state[t] = "Constructed" /\ Enter(t, "Registered") /\ UNCHANGED <<model, exec, bufferVars, cacheVars>>
    BY <1>3 DEF RegisterParameters
  <2>2. Quiet(t)
    BY <2>1, <1>1, TypeFacts DEF ExecFits, Quiet
  <2> QED BY <1>2, <2>1, <2>2
<1>4. ASSUME Load(t) \/ Start(t) \/ Stop(t) PROVE ExecInv'
  <2>1. PICK z \in {"Loaded", "Started", "Stopped"} :
          Quiet(t) /\ Enter(t, z) /\ UNCHANGED <<model, exec, bufferVars, cacheVars>>
    BY <1>4 DEF Load, Start, Stop
  <2> QED BY <1>2, <2>1
<1>5. ASSUME NEW s \in snapshots, NotifyFails(t, s) PROVE ExecInv'
  <2>1. Quiet(t) /\ Enter(t, "Failed") /\ UNCHANGED <<model, exec, bufferVars, cacheVars>>
    BY <1>5 DEF NotifyFails
  <2> QED BY <1>2, <2>1
<1>6. ASSUME NEW s \in snapshots, Notify(t, s) PROVE ExecInv'
  BY <1>1, <1>6, LifecycleExec DEF Notify, bufferVars
<1>7. ASSUME LoadFails(t) \/ Unload(t) PROVE ExecInv'
  <2>1. PICK ok \in BOOLEAN, z \in {"Failed", "Unloaded"} :
          Quiet(t) /\ ReleaseResources(t, ok) /\ Enter(t, z) /\ UNCHANGED <<model, exec, cacheVars>>
    BY <1>7 DEF LoadFails, Unload
  <2>2. /\ \A u \in Tasks \ {t} : state'[u] = state[u]
        /\ state'[t] = z
    BY <1>1, <2>1 DEF Enter
  <2>3. stream' = [stream EXCEPT ![t] = <<>>] /\ UNCHANGED <<h_in, writable, d_out, h_out>>
    BY <2>1 DEF ReleaseResources
  <2> QED BY <1>1, <2>1, <2>2, <2>3, LifecycleExec
<1>8. ASSUME NEW f \in Frames, Execute(t, f) \/ ExecuteRefused(t, f) PROVE ExecInv'
  BY <1>1, <1>8, ExecuteExec, RefusedExec
<1>9. ASSUME Submit(t) \/ DeviceStep(t) \/ Synchronize(t) \/ Collect(t) PROVE ExecInv'
  BY <1>1, <1>9, SubmitExec, DeviceExec, SynchronizeExec, CollectExec
<1> QED BY <1>3, <1>4, <1>5, <1>6, <1>7, <1>8, <1>9 DEF TaskNext

\* Every step preserves the invariant.
LEMMA Inductive == IInv /\ [Next]_vars => IInv'
<1> SUFFICES ASSUME IInv, [Next]_vars PROVE IInv'
  OBVIOUS
<1>1. CASE UNCHANGED vars
  <2>1. ParamInv'
    BY <1>1 DEF IInv, vars, parameterVars, lifecycleVars, ParamInv, LifecycleTypes, SnapshotsAreWhole,
       RegistryIsWhole, UsableFits, Uses
  <2>2. ExecInv'
    <3>1. TypeOK' /\ PublishedFits' /\ CacheKeeps /\ \A u \in Tasks : SameTask(u)
      BY <1>1 DEF IInv, ExecInv, vars, parameterVars, lifecycleVars, bufferVars, cacheVars, TypeOK, BufferTypes,
         CacheTypes, LifecycleTypes, PublishedFits, CacheKeeps, SameTask
    <3> QED BY <3>1, OtherTask DEF IInv, ExecInv
  <2> QED BY <2>1, <2>2 DEF IInv
<1>2. ASSUME NEW p \in Pairs, Configure(p) \/ Change(p) PROVE IInv'
  <2>1. ParamInv'
    BY <1>2, ConfigureParams, ChangeParams DEF IInv
  <2>2. UNCHANGED <<model, lifecycleVars, exec, executions, bufferVars, cacheVars>>
    BY <1>2 DEF Configure, Change
  <2>3. TypeOK' /\ PublishedFits' /\ CacheKeeps /\ \A u \in Tasks : SameTask(u)
    BY <2>1, <2>2 DEF IInv, ExecInv, ParamInv, lifecycleVars, bufferVars, cacheVars, TypeOK, BufferTypes,
         CacheTypes, PublishedFits, CacheKeeps, SameTask
  <2>4. ExecInv'
    BY <2>3, OtherTask DEF IInv, ExecInv
  <2> QED BY <2>1, <2>4 DEF IInv
<1>3. ASSUME NEW t \in Tasks, TaskNext(t) PROVE IInv'
  <2>1. ParamInv'
    BY <1>3, TaskParams DEF IInv
  <2>2. LifecycleTypes'
    BY <2>1 DEF ParamInv
  <2> QED BY <1>3, <2>1, <2>2, TaskExec DEF IInv
<1> QED BY <1>1, <1>2, <1>3 DEF Next

\* IInv holds in every reachable state.
THEOREM InductiveInvariant == Spec => []IInv
<1> QED BY Initially, Inductive, PTL DEF Spec

\* Outputs reported as good were computed from the frame asked for
\* (DummyTask::execute, one wait per execution).
THEOREM ExactResults == Spec => []ResultsAreExact
<1>1. IInv => ResultsAreExact
  BY DEF IInv, ExecInv, TaskFits, ResultsAreExact
<1> QED BY <1>1, InductiveInvariant, PTL

\* A task that could be started has its handles and all its algorithms, with
\* the values of one snapshot (DummyTask::load, notifyParameter).
THEOREM CompleteWhenUsable == Spec => []UsableIsComplete
<1>1. IInv => UsableIsComplete
  <2> SUFFICES ASSUME IInv, NEW t \in Tasks, state[t] \in Usable
               PROVE  /\ owned[t] = Handles /\ Len(algorithms[t]) = AlgoCount
                      /\ \E s \in snapshots :
                          /\ s.revision = applied[t] /\ s.name = s.askedFor.name /\ s.blob = s.askedFor.blob
                          /\ \A a \in Algos : algorithms[t][a].initialized /\ algorithms[t][a].params = <<s.name, s.blob>>
    BY DEF UsableIsComplete
  <2>1. PICK s \in snapshots : Uses(t, s)
    BY DEF IInv, ParamInv, UsableFits
  <2>2. s.name = s.askedFor.name /\ s.blob = s.askedFor.blob
    BY DEF IInv, ParamInv, SnapshotsAreWhole
  <2>3. PICK pair : pair = <<s.name, s.blob>>
    OBVIOUS
  <2>4. algorithms[t] = Algorithms(pair) /\ owned[t] = Handles /\ applied[t] = s.revision
    BY <2>1, <2>3 DEF Uses
  <2>5. ASSUME NEW a \in Algos PROVE Algorithms(pair)[a].initialized /\ Algorithms(pair)[a].params = pair
    BY DEF Algorithms
  <2>6. Len(Algorithms(pair)) = AlgoCount
    <3>1. AlgoCount \in Nat /\ DOMAIN Algorithms(pair) = 1..AlgoCount
      BY SizeFacts DEF Algorithms, Algos
    <3> QED BY <3>1
  <2> QED BY <2>2, <2>3, <2>4, <2>5, <2>6
<1> QED BY <1>1, InductiveInvariant, PTL

\* Pinned staging is written, and the memory of a task freed by an unload that
\* reports success, only when nothing is pending on its stream
\* (DummyTask::execute and releaseResources).
THEOREM QuietStaging == Spec => StagingIsQuiet
<1> DEFINE Staging ==
      \A t \in Tasks :
        /\ h_in'[t] # h_in[t] => stream[t] = <<>>
        /\ owned'[t] # owned[t] => stream[t] = <<>> \/ t \in unclean'
<1>1. IInv /\ [Next]_vars => [Staging]_vars
  <2> SUFFICES ASSUME IInv, [Next]_vars PROVE Staging \/ UNCHANGED vars
    OBVIOUS
  <2>1. ASSUME NEW p \in Pairs, Configure(p) \/ Change(p) PROVE Staging
    BY <2>1 DEF Configure, Change, lifecycleVars, bufferVars
  <2>2. ASSUME NEW t \in Tasks, TaskNext(t) PROVE Staging
    <3>1. ExecInv /\ DOMAIN h_in = Tasks /\ DOMAIN owned = Tasks /\ StreamFits(t)
      BY TypeFacts DEF IInv, ExecInv, TypeOK, LifecycleTypes, BufferTypes
    <3>2. ASSUME UNCHANGED <<h_in, owned>> PROVE Staging
      BY <3>2
    <3>3. ASSUME RegisterParameters(t) \/ Start(t) \/ Stop(t) PROVE Staging
      BY <3>2, <3>3 DEF RegisterParameters, Start, Stop, bufferVars
    <3>4. ASSUME NEW s \in snapshots, Notify(t, s) \/ NotifyFails(t, s) PROVE Staging
      BY <3>2, <3>4 DEF Notify, NotifyFails, bufferVars
    <3>5. ASSUME Load(t) PROVE Staging
      <4>1. state[t] = "Registered" /\ owned' = [owned EXCEPT ![t] = Handles] /\ h_in' = h_in
        BY <3>5 DEF Load, bufferVars
      <4>2. stream[t] = <<>>
        BY <3>1, <4>1 DEF StreamFits
      <4> QED BY <3>1, <4>1, <4>2
    <3>6. ASSUME LoadFails(t) \/ Unload(t) PROVE Staging
      <4>1. PICK ok \in BOOLEAN : ReleaseResources(t, ok)
        BY <3>6 DEF LoadFails, Unload
      <4>2. /\ h_in' = h_in /\ owned' = [owned EXCEPT ![t] = {}]
            /\ stream[t] = <<>> \/ t \in unclean'
        BY <4>1 DEF ReleaseResources
      <4> QED BY <3>1, <4>2
    <3>7. ASSUME NEW f \in Frames, Execute(t, f) \/ ExecuteRefused(t, f) PROVE Staging
      BY <3>2, <3>7 DEF Execute, ExecuteRefused, lifecycleVars, bufferVars
    <3>8. ASSUME DeviceStep(t) \/ Synchronize(t) \/ Collect(t) PROVE Staging
      BY <3>2, <3>8 DEF DeviceStep, Synchronize, Collect, lifecycleVars, bufferVars
    <3>9. ASSUME Submit(t) PROVE Staging
      <4>1. /\ exec[t].pc = "leased" /\ owned' = owned
            /\ h_in' = h_in \/ h_in' = [h_in EXCEPT ![t] = exec[t].frame]
        BY <3>9 DEF Submit, lifecycleVars
      <4>2. stream[t] = <<>>
        BY <3>1, <4>1 DEF StreamFits
      <4> QED BY <3>1, <4>1, <4>2
    <3> QED BY <2>2, <3>3, <3>4, <3>5, <3>6, <3>7, <3>8, <3>9 DEF TaskNext
  <2> QED BY <2>1, <2>2 DEF Next
<1> QED BY <1>1, InductiveInvariant, PTL DEF Spec, StagingIsQuiet
=============================================================================

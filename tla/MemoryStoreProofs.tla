------------------------- MODULE MemoryStoreProofs -------------------------
(***************************************************************************)
(* Proofs about MemoryStore, for every set of clients, texts, models and   *)
(* chunk sizes, and every number of ingestions and faults.                 *)
(***************************************************************************)
EXTENDS MemoryStore, TLAPS, FiniteSetTheorems

\* What the proofs need of the types: the shape of the tables and of the
\* requests.  What a chunk holds is not part of it.
Shape ==
    /\ now \in Second
    /\ records \in [RecordId -> Record \cup {None}]
    /\ \A e \in embeddings : e.id \in RecordId
    /\ stage \in [Clients -> {"idle", "named", "stamped", "storing"}]
    /\ request \in [Clients -> Request \cup {None}]
    /\ created \in [Clients -> Second]
    /\ \A c \in Clients : stage[c] # "idle" => request[c] \in Request

LEMMA ShapeInit == Init => Shape
<1> SUFFICES ASSUME Init PROVE Shape
  OBVIOUS
<1>1. 0 \in Second
  BY MemoryAssumption DEF Second
<1> QED
  BY <1>1 DEF Init, Shape

\* A client that is done, or gives up, goes back to idle.
LEMMA LetGoShape ==
    ASSUME Shape, NEW c \in Clients, LetGo(c), UNCHANGED <<now, tables>>
    PROVE  Shape'
<1>1. 0 \in Second
  BY MemoryAssumption DEF Second
<1> QED
  BY <1>1 DEF Shape, LetGo, tables

LEMMA IngestShape ==
    ASSUME Shape, NEW c \in Clients, Ingest(c)
    PROVE  Shape'
<1>1. ASSUME NEW id \in RecordId, BeginIngest(c, id) PROVE Shape'
  <2>1. PICK text \in Texts, model \in Models, size \in Sizes :
          request' = [request EXCEPT ![c] =
                        [id |-> id, text |-> text, model |-> model, size |-> size]]
    BY <1>1 DEF BeginIngest
  <2>2. [id |-> id, text |-> text, model |-> model, size |-> size] \in Request
    BY DEF Request
  <2> QED
    BY <1>1, <2>1, <2>2 DEF BeginIngest, Shape, tables
<1>2. CASE StampRecord(c)
  BY <1>2 DEF StampRecord, Shape, tables
<1>3. CASE StoreRecord(c)
  <2>1. request[c] \in Request
    BY <1>3 DEF StoreRecord, Shape
  <2>2. /\ request[c].id \in RecordId
        /\ [text |-> request[c].text, created |-> created[c]] \in Record
    BY <2>1 DEF Shape, Request, Record
  <2> QED
    BY <1>3, <2>1, <2>2 DEF StoreRecord, Without, Shape
<1>4. CASE StoreChunk(c)
  <2>1. request[c] \in Request
    BY <1>4 DEF StoreChunk, Shape
  <2>2. Embedding(c).id \in RecordId
    BY <2>1 DEF Embedding, Request
  <2> QED
    BY <1>4, <2>2 DEF StoreChunk, Shape
<1>5. CASE EndIngest(c)
  BY <1>5, LetGoShape DEF EndIngest
<1>6. CASE IngestError(c)
  BY <1>6, LetGoShape DEF IngestError
<1> QED
  BY <1>1, <1>2, <1>3, <1>4, <1>5, <1>6 DEF Ingest

LEMMA ShapeStep == Shape /\ [Next]_vars => Shape'
<1> SUFFICES ASSUME Shape, [Next]_vars PROVE Shape'
  OBVIOUS
<1>1. ASSUME NEW c \in Clients, Ingest(c) PROVE Shape'
  BY <1>1, IngestShape
<1>2. ASSUME NEW ids, DeleteRecords(ids) PROVE Shape'
  BY <1>2 DEF DeleteRecords, Without, Shape, clients
<1>3. CASE Tick
  BY <1>3, MemoryAssumption DEF Tick, Shape, Second, tables, clients
<1>4. CASE Crash
  <2>1. 0 \in Second
    BY MemoryAssumption DEF Second
  <2> QED
    BY <1>4, <2>1 DEF Crash, Shape, tables
<1>5. CASE UNCHANGED vars
  BY <1>5 DEF vars, Shape, tables, clients
<1> QED
  BY <1>1, <1>2, <1>3, <1>4, <1>5 DEF Next, Purge, Delete

-----------------------------------------------------------------------------
LEMMA IInvInit == Init => IInv
  BY DEF Init, IInv, CitationsCurrent, HolderRecord

\* A client that is not storing and changes no table changes nothing.
LEMMA Bystander ==
    ASSUME IInv, NEW c \in Clients, UNCHANGED tables,
           \A d \in Clients : stage'[d] = "storing" =>
               /\ stage[d] = "storing"
               /\ request'[d] = request[d] /\ created'[d] = created[d]
    PROVE  IInv'
<1>1. CitationsCurrent'
  BY DEF IInv, CitationsCurrent, tables
<1>2. HolderRecord'
  BY DEF IInv, HolderRecord, tables
<1> QED
  BY <1>1, <1>2 DEF IInv

\* The record is replaced and its old chunks go: what is left is of others.
LEMMA StoreRecordIInv ==
    ASSUME Shape, IInv, NEW c \in Clients, StoreRecord(c)
    PROVE  IInv'
<1>1. request[c] \in Request /\ request[c].id \in RecordId
  BY DEF StoreRecord, Shape, Request
<1>2. CitationsCurrent'
  <2> SUFFICES ASSUME NEW e \in embeddings'
               PROVE  /\ records'[e.id] # None
                      /\ records'[e.id] = [text |-> e.text, created |-> e.created]
    BY DEF CitationsCurrent
  <2>1. e \in embeddings /\ e.id # request[c].id /\ e.id \in RecordId
    BY DEF StoreRecord, Without, Shape
  <2>2. records'[e.id] = records[e.id]
    BY <1>1, <2>1 DEF StoreRecord, Shape
  <2> QED
    BY <2>1, <2>2 DEF IInv, CitationsCurrent
<1>3. HolderRecord'
  <2>1. \A d \in Clients : stage'[d] = "storing" => d = c
    BY DEF StoreRecord, StoreFree, Shape
  <2>2. records'[request'[c].id] = [text |-> request'[c].text, created |-> created'[c]]
    BY <1>1 DEF StoreRecord, Shape
  <2> QED
    BY <2>1, <2>2 DEF HolderRecord
<1> QED
  BY <1>2, <1>3 DEF IInv

\* A chunk is of the record that the same client has stored before.
LEMMA StoreChunkIInv ==
    ASSUME Shape, IInv, NEW c \in Clients, StoreChunk(c)
    PROVE  IInv'
<1>1. request[c] \in Request /\ request[c].id \in RecordId
  BY DEF StoreChunk, Shape, Request
<1>2. records[request[c].id] = [text |-> request[c].text, created |-> created[c]]
  BY DEF StoreChunk, IInv, HolderRecord
<1>3. /\ Embedding(c).id = request[c].id /\ Embedding(c).text = request[c].text
      /\ Embedding(c).created = created[c]
  BY DEF Embedding
<1>4. records[request[c].id] # None
  <2>1. request[c].text \in Texts /\ created[c] \in Second
    BY <1>1 DEF Shape, Request
  <2>2. [text |-> request[c].text, created |-> created[c]] \in Record
    BY <2>1 DEF Record
  <2> QED
    BY <1>2, <2>2, NoneAssumption
<1>5. CitationsCurrent'
  <2> SUFFICES ASSUME NEW e \in embeddings'
               PROVE  /\ records[e.id] # None
                      /\ records[e.id] = [text |-> e.text, created |-> e.created]
    BY DEF CitationsCurrent, StoreChunk
  <2>1. CASE e \in embeddings
    BY <2>1 DEF IInv, CitationsCurrent
  <2>2. CASE e = Embedding(c)
    BY <2>2, <1>2, <1>3, <1>4
  <2> QED
    BY <2>1, <2>2 DEF StoreChunk
<1>6. HolderRecord'
  BY DEF StoreChunk, IInv, HolderRecord
<1> QED
  BY <1>5, <1>6 DEF IInv

\* Deleted records take their embeddings along, and nobody is in the middle.
LEMMA DeleteIInv ==
    ASSUME Shape, IInv, NEW ids, DeleteRecords(ids)
    PROVE  IInv'
<1>1. CitationsCurrent'
  <2> SUFFICES ASSUME NEW e \in embeddings'
               PROVE  /\ records'[e.id] # None
                      /\ records'[e.id] = [text |-> e.text, created |-> e.created]
    BY DEF CitationsCurrent
  <2>1. e \in embeddings /\ e.id \notin ids /\ e.id \in RecordId
    BY DEF DeleteRecords, Without, Shape
  <2>2. records'[e.id] = records[e.id]
    BY <2>1 DEF DeleteRecords
  <2> QED
    BY <2>1, <2>2 DEF IInv, CitationsCurrent
<1>2. HolderRecord'
  BY DEF DeleteRecords, StoreFree, HolderRecord, clients
<1> QED
  BY <1>1, <1>2 DEF IInv

LEMMA IInvStep == Shape /\ IInv /\ [Next]_vars => IInv'
<1> SUFFICES ASSUME Shape, IInv, [Next]_vars PROVE IInv'
  OBVIOUS
<1>1. ASSUME NEW c \in Clients, Ingest(c) PROVE IInv'
  <2>1. ASSUME NEW id \in RecordId, BeginIngest(c, id) PROVE IInv'
    BY <1>1, <2>1, Bystander DEF BeginIngest, Shape
  <2>2. CASE StampRecord(c)
    BY <2>2, Bystander DEF StampRecord, Shape
  <2>3. CASE StoreRecord(c)
    BY <2>3, StoreRecordIInv
  <2>4. CASE StoreChunk(c)
    BY <2>4, StoreChunkIInv
  <2>5. CASE EndIngest(c) \/ IngestError(c)
    BY <2>5, Bystander DEF EndIngest, IngestError, LetGo, Shape
  <2> QED
    BY <1>1, <2>1, <2>2, <2>3, <2>4, <2>5 DEF Ingest
<1>2. ASSUME NEW ids, DeleteRecords(ids) PROVE IInv'
  BY <1>2, DeleteIInv
<1>3. CASE Tick \/ UNCHANGED vars
  BY <1>3 DEF Tick, vars, tables, clients, IInv, CitationsCurrent, HolderRecord
<1>4. CASE Crash
  BY <1>4 DEF Crash, tables, IInv, CitationsCurrent, HolderRecord
<1> QED
  BY <1>1, <1>2, <1>3, <1>4 DEF Next, Purge, Delete

\* Whatever clients store, replace, purge and delete, and wherever they are
\* broken off, no citation is of a text or of a record that is gone.
THEOREM CitationsHold == Spec => []CitationsCurrent
<1>1. Init => Shape /\ IInv
  BY ShapeInit, IInvInit
<1>2. Shape /\ IInv /\ [Next]_vars => (Shape /\ IInv)'
  BY ShapeStep, IInvStep
<1>3. IInv => CitationsCurrent
  BY DEF IInv
<1> QED
  BY <1>1, <1>2, <1>3, PTL DEF Spec

-----------------------------------------------------------------------------
(* What is found of a record.                                              *)

\* Chunk i of a text, as it is stored for a request.
Piece(r, at, i) ==
    [id |-> r.id, model |-> r.model, index |-> i, text |-> r.text,
     content |-> Chunk(r.text, r.size, i), created |-> at]

\* The first k of them.
Run(r, at, k) == {Piece(r, at, i) : i \in 0..(k - 1)}

Count(r) == ChunkCount(r.text, r.size)

FoundOf(id) == {e \in embeddings : e.id = id}

\* What is found of a record is the beginning of the chunks of one request.
RunsOnly ==
    \A id \in RecordId : FoundOf(id) # {} =>
        \E r \in Request, at \in Second, k \in Nat :
            r.id = id /\ k <= Count(r) /\ FoundOf(id) = Run(r, at, k)

\* The ingestion that holds the mutex knows how far it is.
HolderRun ==
    /\ next \in [Clients -> Nat]
    /\ \A c \in Clients : stage[c] # "storing" => next[c] = 0
    /\ \A c \in Clients : stage[c] = "storing" =>
          /\ next[c] <= Count(request[c])
          /\ FoundOf(request[c].id) = Run(request[c], created[c], next[c])
          /\ promised[request[c].id] = None

\* A request that was answered is there to its last chunk.
PromisesRun ==
    /\ promised \in [RecordId -> Request \cup {None}]
    /\ \A id \in RecordId : promised[id] # None =>
          /\ promised[id].id = id
          /\ records[id] # None /\ records[id].text = promised[id].text
          /\ \E at \in Second : FoundOf(id) = Run(promised[id], at, Count(promised[id]))

IdleAsks == \A c \in Clients : stage[c] = "idle" => request[c] = None

RunInvariant == RunsOnly /\ HolderRun /\ PromisesRun /\ IdleAsks

-----------------------------------------------------------------------------
(* chunk_text: facts about the chunks of a text.                           *)
LEMMA DivBounds ==
    ASSUME NEW m \in Nat \ {0}, NEW s \in Nat
    PROVE  /\ s \div m \in Nat
           /\ m * (s \div m) <= s
           /\ s < m * (s \div m) + m
BY Z3

LEMMA FactorsOrdered ==
    ASSUME NEW m \in Nat \ {0}, NEW p \in Nat, NEW q \in Nat, m * p < m * q
    PROVE  p < q
<1>1. CASE p >= q
  <2>1. PICK d \in Nat : p = q + d
    <3>1. p - q \in Nat /\ p = q + (p - q)
      BY <1>1
    <3> QED
      BY <3>1
  <2>2. m * (q + d) = m * q + m * d /\ m * d \in Nat /\ m * q \in Nat
    OBVIOUS
  <2> QED
    BY <2>1, <2>2
<1> QED
  BY <1>1

\* The first byte of chunk i is in chunk i.
LEMMA FirstByte ==
    ASSUME NEW m \in Nat \ {0}, NEW i \in Nat
    PROVE  (m * i) \div m = i
<1>1. PICK q : q = (m * i) \div m
  OBVIOUS
<1>2. m * i \in Nat
  OBVIOUS
<1>3. q \in Nat /\ m * q <= m * i /\ m * i < m * q + m
  BY <1>1, <1>2, DivBounds
<1>4. /\ m * (q + 1) = m * q + m /\ m * (i + 1) = m * i + m
      /\ m * q \in Nat
  BY <1>3
<1>5. i < q + 1
  BY <1>2, <1>3, <1>4, FactorsOrdered
<1>6. m * q < m * (i + 1)
  BY <1>2, <1>3, <1>4
<1>7. q < i + 1
  BY <1>3, <1>6, FactorsOrdered
<1> QED
  BY <1>1, <1>3, <1>5, <1>7

\* The chunks before the count hold something, and every byte is in one.
LEMMA CountExact ==
    ASSUME NEW m \in Nat \ {0}, NEW n \in Nat, NEW c, c = (n + m - 1) \div m
    PROVE  /\ c \in Nat
           /\ \A i \in Nat : i < c => m * i < n
           /\ \A p \in Nat : p < n => p \div m \in Nat /\ p \div m < c
<1>1. n + m - 1 \in Nat
  OBVIOUS
<1>2. c \in Nat /\ m * c <= n + m - 1 /\ n + m - 1 < m * c + m
  BY <1>1, DivBounds
<1>3. m * c \in Nat /\ n <= m * c
  BY <1>2
<1>4. ASSUME NEW i \in Nat, i < c PROVE m * i < n
  <2>1. PICK d \in Nat : c = i + 1 + d
    <3>1. c - i - 1 \in Nat /\ c = i + 1 + (c - i - 1)
      BY <1>2, <1>4
    <3> QED
      BY <3>1
  <2>2. m * (i + 1 + d) = m * i + m + m * d /\ m * d \in Nat /\ m * i \in Nat
    OBVIOUS
  <2>3. m * c = m * i + m + m * d
    BY <2>1, <2>2
  <2> QED
    BY <1>2, <2>2, <2>3
<1>5. ASSUME NEW p \in Nat, p < n PROVE p \div m \in Nat /\ p \div m < c
  <2>1. PICK q : q = p \div m
    OBVIOUS
  <2>2. q \in Nat /\ m * q <= p /\ m * q \in Nat
    BY <2>1, DivBounds
  <2>3. m * q < m * c
    BY <1>3, <1>5, <2>2
  <2> QED
    BY <1>2, <2>1, <2>2, <2>3, FactorsOrdered
<1> QED
  BY <1>2, <1>4, <1>5

LEMMA ChunkFacts ==
    ASSUME NEW r \in Request
    PROVE  /\ Count(r) \in Nat
           /\ \A i \in Nat : ChunkBytes(r.text, r.size, i) \subseteq 0..(Length[r.text] - 1)
           /\ \A i \in Nat : i < Count(r) => ChunkBytes(r.text, r.size, i) # {}
           /\ \A p \in 0..(Length[r.text] - 1) :
                 /\ p \div ChunkSize(r.size) \in 0..(Count(r) - 1)
                 /\ \A i \in Nat : p \in ChunkBytes(r.text, r.size, i) <=>
                                   i = p \div ChunkSize(r.size)
<1>1. PICK m : m = ChunkSize(r.size)
  OBVIOUS
<1>2. PICK n : n = Length[r.text]
  OBVIOUS
<1>3. m \in Nat \ {0} /\ n \in Nat
  <2>1. r.size \in Nat /\ r.text \in Texts
    BY MemoryAssumption DEF Request
  <2> QED
    BY <1>1, <1>2, <2>1, MemoryAssumption DEF ChunkSize
<1>4. Count(r) = (n + m - 1) \div m
  BY <1>1, <1>2 DEF Count, ChunkCount
<1>5. /\ Count(r) \in Nat
      /\ \A i \in Nat : i < Count(r) => m * i < n
      /\ \A p \in Nat : p < n => p \div m \in Nat /\ p \div m < Count(r)
  BY <1>3, <1>4, CountExact
<1>6. \A i \in Nat : ChunkBytes(r.text, r.size, i) = {p \in 0..(n - 1) : p \div m = i}
  BY <1>1, <1>2 DEF ChunkBytes
<1>7. ASSUME NEW i \in Nat, i < Count(r) PROVE ChunkBytes(r.text, r.size, i) # {}
  <2>1. PICK p : p = m * i
    OBVIOUS
  <2>2. p \in Nat /\ p < n /\ p \div m = i
    BY <1>3, <1>5, <1>7, <2>1, FirstByte
  <2>3. p \in 0..(n - 1)
    BY <1>3, <2>2
  <2> QED
    BY <1>6, <2>2, <2>3
<1>8. ASSUME NEW p \in 0..(n - 1) PROVE p \div m \in 0..(Count(r) - 1)
  <2>1. p \in Nat /\ p < n
    BY <1>3
  <2>2. p \div m \in Nat /\ p \div m < Count(r)
    BY <1>5, <2>1
  <2> QED
    BY <1>5, <2>2
<1>9. ASSUME NEW p \in 0..(n - 1), NEW i \in Nat
      PROVE  p \in ChunkBytes(r.text, r.size, i) <=> i = p \div m
  BY <1>6
<1> QED
  BY <1>1, <1>2, <1>5, <1>6, <1>7, <1>8, <1>9

\* A character is kept in the chunk that has all its bytes, and replaced in
\* every one of the chunks that share them.
LEMMA ChunkCharacters ==
    ASSUME NEW r \in Request, NEW char \in Characters(r.text)
    PROVE  /\ Reached(r, char) # {} /\ IsFiniteSet(Reached(r, char))
           /\ Reached(r, char) \subseteq 0..(Count(r) - 1)
           /\ \A i \in Nat :
                 /\ char \in Chunk(r.text, r.size, i).kept <=> Reached(r, char) = {i}
                 /\ char \in Chunk(r.text, r.size, i).replaced <=>
                       i \in Reached(r, char) /\ Reached(r, char) # {i}
<1>1. PICK B : B = BytesOf(r.text, char)
  OBVIOUS
<1>2. PICK R : R = Reached(r, char)
  OBVIOUS
<1>3. PICK m : m = ChunkSize(r.size)
  OBVIOUS
<1>4. R = {p \div m : p \in B}
  BY <1>1, <1>2, <1>3 DEF Reached
<1>5. B # {} /\ B \subseteq 0..(Length[r.text] - 1)
  BY <1>1 DEF Characters, BytesOf
<1>6. R # {}
  BY <1>4, <1>5
<1>7. R \subseteq 0..(Count(r) - 1)
  <2>1. \A p \in 0..(Length[r.text] - 1) : p \div m \in 0..(Count(r) - 1)
    BY <1>3, ChunkFacts
  <2> QED
    BY <1>4, <1>5, <2>1
<1>8. IsFiniteSet(R)
  <2>1. Count(r) \in Nat
    BY ChunkFacts
  <2>2. IsFiniteSet(0..(Count(r) - 1))
    BY <2>1, FS_Interval
  <2> QED
    BY <1>7, <2>2, FS_Subset
<1>9. ASSUME NEW i \in Nat
      PROVE  /\ char \in Chunk(r.text, r.size, i).kept <=> R = {i}
             /\ char \in Chunk(r.text, r.size, i).replaced <=> i \in R /\ R # {i}
  <2>1. PICK bytes : bytes = ChunkBytes(r.text, r.size, i)
    OBVIOUS
  <2>2. PICK touched : touched = {CharOf[r.text][p] : p \in bytes}
    OBVIOUS
  <2>3. /\ Chunk(r.text, r.size, i).kept
              = {c \in touched : BytesOf(r.text, c) \subseteq bytes}
        /\ Chunk(r.text, r.size, i).replaced
              = {c \in touched : ~ BytesOf(r.text, c) \subseteq bytes}
    BY <2>1, <2>2 DEF Chunk
  <2>4. bytes = {p \in 0..(Length[r.text] - 1) : p \div m = i}
    BY <1>3, <2>1 DEF ChunkBytes
  <2>5. B \subseteq bytes <=> \A p \in B : p \div m = i
    BY <1>5, <2>4
  <2>6. B \subseteq bytes <=> R = {i}
    BY <1>4, <1>6, <2>5
  <2>7. \A p \in bytes : p \in B <=> CharOf[r.text][p] = char
    BY <1>1, <2>4 DEF BytesOf
  <2>8. char \in touched <=> \E p \in B : p \div m = i
    BY <1>5, <2>2, <2>4, <2>7
  <2>9. char \in touched <=> i \in R
    BY <1>4, <2>8
  <2> QED
    BY <1>1, <2>3, <2>6, <2>9
<1> QED
  BY <1>2, <1>6, <1>7, <1>8, <1>9

\* Chunks of one request are told apart by their index.
LEMMA RunMember ==
    ASSUME NEW r, NEW at, NEW k, NEW e \in Run(r, at, k)
    PROVE  /\ e.index \in 0..(k - 1) /\ e = Piece(r, at, e.index)
           /\ e.id = r.id /\ e.model = r.model /\ e.text = r.text
           /\ e.content = Chunk(r.text, r.size, e.index)
           /\ e.created = at
<1>1. PICK i \in 0..(k - 1) : e = Piece(r, at, i)
  BY DEF Run
<1>2. e.index = i
  BY <1>1 DEF Piece
<1> QED
  BY <1>1, <1>2 DEF Piece

LEMMA PieceFields ==
    ASSUME NEW r, NEW at, NEW i
    PROVE  Piece(r, at, i).index = i /\ Piece(r, at, i).id = r.id
BY DEF Piece

LEMMA RunSize ==
    ASSUME NEW r, NEW at, NEW k \in Nat
    PROVE  /\ Cardinality(Run(r, at, k)) = k
           /\ {e.index : e \in Run(r, at, k)} = 0..(k - 1)
<1>1. PICK S : S = 0..(k - 1)
  OBVIOUS
<1>2. IsFiniteSet(S) /\ Cardinality(S) = k
  BY <1>1, FS_Interval
<1>3. PICK T : T = Run(r, at, k)
  OBVIOUS
<1>4. PICK f : f = [i \in S |-> Piece(r, at, i)]
  OBVIOUS
<1>5. \A i \in S : f[i] \in T /\ f[i].index = i
  BY <1>1, <1>3, <1>4, PieceFields DEF Run
<1>6. \A e \in T : e.index \in S /\ f[e.index] = e
  BY <1>1, <1>3, <1>4, RunMember
<1>7. f \in Bijection(S, T)
  <2>1. f \in [S -> T]
    BY <1>4, <1>5
  <2>2. \A i, j \in S : f[i] = f[j] => i = j
    BY <1>5
  <2>3. DOMAIN f = S
    BY <1>4
  <2>4. \A e \in T : \E i \in S : f[i] = e
    BY <1>6
  <2> QED
    BY <2>1, <2>2, <2>3, <2>4 DEF Bijection, Injection, Surjection, IsInjective
<1>8. Cardinality(T) = Cardinality(S)
  <2>1. ExistsBijection(S, T)
    BY <1>7 DEF ExistsBijection
  <2> QED
    BY <1>2, <2>1, FS_Bijection
<1>9. {e.index : e \in T} = S
  BY <1>5, <1>6
<1> QED
  BY <1>1, <1>2, <1>3, <1>8, <1>9

-----------------------------------------------------------------------------
(* What is found of a record: the steps.                                   *)
LEMMA RunInit == Init => RunInvariant
<1> SUFFICES ASSUME Init PROVE RunInvariant
  OBVIOUS
<1>1. \A id : FoundOf(id) = {}
  BY DEF Init, FoundOf
<1>2. RunsOnly
  BY <1>1 DEF RunsOnly
<1>3. HolderRun
  BY DEF Init, HolderRun
<1>4. PromisesRun
  BY DEF Init, PromisesRun
<1>5. IdleAsks
  BY DEF Init, IdleAsks
<1> QED
  BY <1>2, <1>3, <1>4, <1>5 DEF RunInvariant

LEMMA EmptyRun == \A r, at : Run(r, at, 0) = {}
BY DEF Run

\* Tables and promises stay: what matters is that no ingestion goes on as
\* another than it was.
LEMMA RunBystander ==
    ASSUME RunInvariant, UNCHANGED <<tables, promised>>,
           next' \in [Clients -> Nat], IdleAsks',
           \A c \in Clients : stage'[c] # "storing" => next'[c] = 0,
           \A c \in Clients : stage'[c] = "storing" =>
               /\ stage[c] = "storing" /\ request'[c] = request[c]
               /\ created'[c] = created[c] /\ next'[c] = next[c]
    PROVE  RunInvariant'
<1>1. records' = records /\ embeddings' = embeddings /\ promised' = promised
  BY DEF tables
<1>2. \A id : FoundOf(id)' = FoundOf(id)
  BY <1>1 DEF FoundOf
<1>3. RunsOnly'
  BY <1>1, <1>2 DEF RunInvariant, RunsOnly, Run, Piece, Count
<1>4. PromisesRun'
  BY <1>1, <1>2 DEF RunInvariant, PromisesRun, Run, Piece, Count
<1>5. HolderRun'
  <2> SUFFICES ASSUME NEW c \in Clients, stage'[c] = "storing"
               PROVE  /\ next'[c] <= Count(request'[c])
                      /\ {e \in embeddings' : e.id = request'[c].id}
                            = Run(request'[c], created'[c], next'[c])
                      /\ promised'[request'[c].id] = None
    BY DEF HolderRun, Count, Run, Piece, FoundOf
  <2>1. /\ stage[c] = "storing" /\ request'[c] = request[c]
        /\ created'[c] = created[c] /\ next'[c] = next[c]
    OBVIOUS
  <2>2. /\ next[c] <= Count(request[c])
        /\ FoundOf(request[c].id) = Run(request[c], created[c], next[c])
        /\ promised[request[c].id] = None
    BY <2>1 DEF RunInvariant, HolderRun
  <2> QED
    BY <1>1, <2>1, <2>2 DEF FoundOf
<1> QED
  BY <1>3, <1>4, <1>5 DEF RunInvariant

\* Nothing of the old record stays, and nothing of the new one is there yet.
LEMMA StoreRecordRun ==
    ASSUME Shape, RunInvariant, NEW c \in Clients, StoreRecord(c)
    PROVE  RunInvariant'
<1>1. PICK r : r = request[c]
  OBVIOUS
<1>2. r \in Request /\ r.id \in RecordId
  BY <1>1 DEF StoreRecord, Shape, Request
<1>3. PICK row : row = [text |-> r.text, created |-> created[c]]
  OBVIOUS
<1>4. /\ stage[c] = "stamped" /\ \A d \in Clients : stage[d] # "storing"
      /\ records' = [records EXCEPT ![r.id] = row]
      /\ embeddings' = {e \in embeddings : e.id # r.id}
      /\ stage' = [stage EXCEPT ![c] = "storing"]
      /\ promised' = [promised EXCEPT ![r.id] = None]
      /\ UNCHANGED <<now, request, created, next>>
  BY <1>1, <1>3 DEF StoreRecord, StoreFree, Without
<1>5. \A id : FoundOf(id)' = IF id = r.id THEN {} ELSE FoundOf(id)
  BY <1>4 DEF FoundOf
<1>6. \A id \in RecordId \ {r.id} : promised'[id] = promised[id] /\ records'[id] = records[id]
  BY <1>4 DEF Shape, RunInvariant, PromisesRun
<1>7. promised'[r.id] = None /\ promised' \in [RecordId -> Request \cup {None}]
  BY <1>2, <1>4 DEF RunInvariant, PromisesRun
<1>8. RunsOnly'
  BY <1>2, <1>5 DEF RunInvariant, RunsOnly, Run, Piece, Count
<1>9. PromisesRun'
  BY <1>5, <1>6, <1>7 DEF RunInvariant, PromisesRun, Run, Piece, Count
<1>10. HolderRun'
  <2>1. \A d \in Clients : stage'[d] = "storing" => d = c
    BY <1>4 DEF Shape
  <2>2. next'[c] = 0 /\ 0 <= Count(r)
    BY <1>2, <1>4, ChunkFacts DEF RunInvariant, HolderRun
  <2>3. FoundOf(r.id)' = Run(r, created[c], 0)
    BY <1>5, EmptyRun
  <2>4. \A d \in Clients : stage'[d] # "storing" => stage[d] # "storing"
    BY <1>4
  <2> QED
    BY <1>1, <1>4, <1>7, <2>1, <2>2, <2>3, <2>4
    DEF RunInvariant, HolderRun, Run, Piece, Count, FoundOf
<1>11. IdleAsks'
  BY <1>4 DEF RunInvariant, IdleAsks, Shape
<1> QED
  BY <1>8, <1>9, <1>10, <1>11 DEF RunInvariant

\* One chunk more of the same run; no chunk that was there is replaced.
LEMMA StoreChunkRun ==
    ASSUME Shape, IInv, RunInvariant, NEW c \in Clients, StoreChunk(c)
    PROVE  RunInvariant'
<1>1. PICK r, at, k : r = request[c] /\ at = created[c] /\ k = next[c]
  OBVIOUS
<1>2. stage[c] = "storing" /\ k < Count(r)
  BY <1>1 DEF StoreChunk, ChunksLeft, Count
<1>3. /\ r \in Request /\ r.id \in RecordId /\ at \in Second /\ k \in Nat
      /\ FoundOf(r.id) = Run(r, at, k)
      /\ promised[r.id] = None
  BY <1>1, <1>2 DEF Shape, Request, RunInvariant, HolderRun
<1>4. PICK row : row = Piece(r, at, k)
  OBVIOUS
<1>5. row = Embedding(c)
  BY <1>1, <1>4 DEF Piece, Embedding
<1>6. row.id = r.id /\ row.index = k
  BY <1>4 DEF Piece
<1>7. /\ embeddings' = {e \in embeddings :
                          <<e.id, e.model, e.index>> # <<row.id, row.model, row.index>>}
                         \cup {row}
      /\ next' = [next EXCEPT ![c] = k + 1]
      /\ UNCHANGED <<records, stage, request, created, promised>>
  BY <1>1, <1>5 DEF StoreChunk
<1>8. \A e \in FoundOf(r.id) : e.index # k
  BY <1>3, RunMember
<1>9. embeddings' = embeddings \cup {row}
  <2>1. \A e \in embeddings : e.id = row.id => e.index # row.index
    BY <1>6, <1>8 DEF FoundOf
  <2>2. \A e \in embeddings : <<e.id, e.model, e.index>> # <<row.id, row.model, row.index>>
    BY <2>1
  <2> QED
    BY <1>7, <2>2
<1>10. \A id \in RecordId \ {r.id} : FoundOf(id)' = FoundOf(id)
  BY <1>6, <1>9 DEF FoundOf
<1>11. FoundOf(r.id)' = Run(r, at, k + 1)
  <2>1. FoundOf(r.id)' = FoundOf(r.id) \cup {row}
    BY <1>6, <1>9 DEF FoundOf
  <2>2. 0..(k + 1 - 1) = 0..(k - 1) \cup {k}
    BY <1>3
  <2>3. Run(r, at, k + 1) = Run(r, at, k) \cup {Piece(r, at, k)}
    BY <2>2 DEF Run
  <2> QED
    BY <1>3, <1>4, <2>1, <2>3
<1>12. Count(r) \in Nat /\ k + 1 \in Nat /\ k + 1 <= Count(r)
  BY <1>2, <1>3, ChunkFacts
<1>13. RunsOnly'
  <2> SUFFICES ASSUME NEW id \in RecordId, FoundOf(id)' # {}
               PROVE  \E q \in Request, then \in Second, n \in Nat :
                         q.id = id /\ n <= Count(q) /\ FoundOf(id)' = Run(q, then, n)
    BY DEF RunsOnly, Run, Piece, Count
  <2>1. CASE id = r.id
    BY <1>3, <1>11, <1>12, <2>1
  <2>2. CASE id # r.id
    BY <1>10, <2>2 DEF RunInvariant, RunsOnly
  <2> QED
    BY <2>1, <2>2
<1>14. PromisesRun'
  <2>1. \A id \in RecordId : promised[id] # None => id # r.id
    BY <1>3
  <2> QED
    BY <1>7, <1>10, <2>1 DEF RunInvariant, PromisesRun, Run, Piece, Count
<1>15. HolderRun'
  <2>1. \A d \in Clients : stage'[d] = "storing" => d = c
    BY <1>2, <1>7 DEF IInv, HolderRecord
  <2>2. next' \in [Clients -> Nat] /\ next'[c] = k + 1
    BY <1>7, <1>12 DEF RunInvariant, HolderRun
  <2>3. \A d \in Clients : stage'[d] # "storing" => next'[d] = 0
    BY <1>2, <1>7 DEF RunInvariant, HolderRun
  <2>4. ASSUME NEW d \in Clients, stage'[d] = "storing"
        PROVE  /\ next'[d] <= Count(request'[d])
               /\ {e \in embeddings' : e.id = request'[d].id}
                     = Run(request'[d], created'[d], next'[d])
               /\ promised'[request'[d].id] = None
    <3>1. d = c
      BY <2>1, <2>4
    <3>2. request'[d] = r /\ created'[d] = at /\ next'[d] = k + 1
      BY <1>1, <1>7, <2>2, <3>1
    <3>3. {e \in embeddings' : e.id = r.id} = Run(r, at, k + 1)
      BY <1>11 DEF FoundOf
    <3> QED
      BY <1>3, <1>7, <1>12, <3>2, <3>3
  <2> QED
    BY <2>2, <2>3, <2>4 DEF HolderRun, Run, Piece, Count, FoundOf
<1>16. IdleAsks'
  BY <1>7 DEF RunInvariant, IdleAsks
<1> QED
  BY <1>13, <1>14, <1>15, <1>16 DEF RunInvariant

\* The answer is given for what is there: the record and its last chunk.
LEMMA EndIngestRun ==
    ASSUME Shape, IInv, RunInvariant, NEW c \in Clients, EndIngest(c)
    PROVE  RunInvariant'
<1>1. PICK r, at : r = request[c] /\ at = created[c]
  OBVIOUS
<1>2. stage[c] = "storing" /\ ~(next[c] < Count(r))
  BY <1>1 DEF EndIngest, ChunksLeft, Count
<1>3. r \in Request /\ r.id \in RecordId /\ at \in Second
  BY <1>1, <1>2 DEF Shape, Request
<1>4. /\ next \in [Clients -> Nat] /\ next[c] <= Count(r)
      /\ FoundOf(r.id) = Run(r, at, next[c])
  BY <1>1, <1>2 DEF RunInvariant, HolderRun
<1>5. next[c] = Count(r)
  BY <1>2, <1>3, <1>4, ChunkFacts
<1>6. records[r.id] # None /\ records[r.id].text = r.text
  <2>1. PICK row : row = [text |-> r.text, created |-> at]
    OBVIOUS
  <2>2. records[r.id] = row
    BY <1>1, <1>2, <2>1 DEF IInv, HolderRecord
  <2>3. row \in Record
    BY <1>3, <2>1 DEF Record, Request
  <2> QED
    BY <2>1, <2>2, <2>3, NoneAssumption
<1>7. /\ records' = records /\ embeddings' = embeddings
      /\ promised' = [promised EXCEPT ![r.id] = r]
      /\ stage' = [stage EXCEPT ![c] = "idle"]
      /\ request' = [request EXCEPT ![c] = None]
      /\ created' = [created EXCEPT ![c] = 0]
      /\ next' = [next EXCEPT ![c] = 0]
  BY <1>1 DEF EndIngest, LetGo, tables
<1>8. \A id : FoundOf(id)' = FoundOf(id)
  BY <1>7 DEF FoundOf
<1>9. RunsOnly'
  BY <1>8 DEF RunInvariant, RunsOnly, Run, Piece, Count
<1>10. PromisesRun'
  <2>1. promised' \in [RecordId -> Request \cup {None}]
    BY <1>3, <1>7 DEF RunInvariant, PromisesRun
  <2> SUFFICES ASSUME NEW id \in RecordId, promised'[id] # None
               PROVE  /\ promised'[id].id = id
                      /\ records'[id] # None /\ records'[id].text = promised'[id].text
                      /\ \E then \in Second :
                            FoundOf(id)' = Run(promised'[id], then, Count(promised'[id]))
    BY <2>1 DEF PromisesRun, Run, Piece, Count
  <2>2. CASE id = r.id
    <3>1. promised'[id] = r
      BY <1>3, <1>7, <2>2 DEF RunInvariant, PromisesRun
    <3> QED
      BY <1>3, <1>4, <1>5, <1>6, <1>7, <1>8, <2>2, <3>1
  <2>3. CASE id # r.id
    <3>1. promised'[id] = promised[id]
      BY <1>7, <2>3 DEF RunInvariant, PromisesRun
    <3> QED
      BY <1>7, <1>8, <3>1 DEF RunInvariant, PromisesRun
  <2> QED
    BY <2>2, <2>3
<1>11. HolderRun'
  <2>1. \A d \in Clients : stage'[d] # "storing"
    BY <1>2, <1>7 DEF IInv, HolderRecord, Shape
  <2>2. next' \in [Clients -> Nat] /\ \A d \in Clients : next'[d] = 0
    BY <1>2, <1>4, <1>7 DEF IInv, HolderRecord, RunInvariant, HolderRun
  <2> QED
    BY <2>1, <2>2 DEF HolderRun
<1>12. IdleAsks'
  BY <1>7 DEF RunInvariant, IdleAsks, Shape
<1> QED
  BY <1>9, <1>10, <1>11, <1>12 DEF RunInvariant

\* What is deleted goes with all its chunks; the rest is not touched.
LEMMA DeleteRun ==
    ASSUME Shape, RunInvariant, NEW ids, DeleteRecords(ids)
    PROVE  RunInvariant'
<1>1. /\ records' = [id \in RecordId |-> IF id \in ids THEN None ELSE records[id]]
      /\ embeddings' = {e \in embeddings : e.id \notin ids}
      /\ promised' = [id \in RecordId |-> IF id \in ids THEN None ELSE promised[id]]
      /\ \A c \in Clients : stage[c] # "storing"
      /\ UNCHANGED <<stage, request, created, next>>
  BY DEF DeleteRecords, StoreFree, Without, clients
<1>2. \A id : FoundOf(id)' = IF id \in ids THEN {} ELSE FoundOf(id)
  BY <1>1 DEF FoundOf
<1>3. RunsOnly'
  BY <1>2 DEF RunInvariant, RunsOnly, Run, Piece, Count
<1>4. promised' \in [RecordId -> Request \cup {None}]
  BY <1>1 DEF RunInvariant, PromisesRun
<1>5. PromisesRun'
  <2> SUFFICES ASSUME NEW id \in RecordId, promised'[id] # None
               PROVE  /\ promised'[id].id = id
                      /\ records'[id] # None /\ records'[id].text = promised'[id].text
                      /\ \E then \in Second :
                            FoundOf(id)' = Run(promised'[id], then, Count(promised'[id]))
    BY <1>4 DEF PromisesRun, Run, Piece, Count
  <2>1. id \notin ids /\ promised'[id] = promised[id] /\ records'[id] = records[id]
    BY <1>1
  <2> QED
    BY <1>2, <2>1 DEF RunInvariant, PromisesRun
<1>6. HolderRun'
  BY <1>1 DEF RunInvariant, HolderRun
<1>7. IdleAsks'
  BY <1>1 DEF RunInvariant, IdleAsks
<1> QED
  BY <1>3, <1>5, <1>6, <1>7 DEF RunInvariant

LEMMA RunStep ==
    ASSUME Shape, IInv, RunInvariant, [Next]_vars
    PROVE  RunInvariant'
<1>0. next \in [Clients -> Nat] /\ \A d \in Clients : stage[d] # "storing" => next[d] = 0
  BY DEF RunInvariant, HolderRun
<1>1. ASSUME NEW c \in Clients, Ingest(c) PROVE RunInvariant'
  <2>1. ASSUME NEW id \in RecordId, BeginIngest(c, id) PROVE RunInvariant'
    <3>1. IdleAsks'
      BY <2>1 DEF BeginIngest, RunInvariant, IdleAsks, Shape
    <3> QED
      BY <1>0, <2>1, <3>1, RunBystander DEF BeginIngest, Shape
  <2>2. CASE StampRecord(c)
    <3>1. IdleAsks'
      BY <2>2 DEF StampRecord, RunInvariant, IdleAsks, Shape
    <3> QED
      BY <1>0, <2>2, <3>1, RunBystander DEF StampRecord, Shape
  <2>3. CASE IngestError(c)
    <3>1. IdleAsks'
      BY <2>3 DEF IngestError, LetGo, RunInvariant, IdleAsks, Shape
    <3> QED
      BY <1>0, <2>3, <3>1, RunBystander DEF IngestError, LetGo, Shape
  <2> QED
    BY <1>1, <2>1, <2>2, <2>3, StoreRecordRun, StoreChunkRun, EndIngestRun DEF Ingest
<1>2. ASSUME NEW ids, DeleteRecords(ids) PROVE RunInvariant'
  BY <1>2, DeleteRun
<1>3. CASE Tick \/ UNCHANGED vars
  <2>1. UNCHANGED <<tables, promised, stage, request, created, next>>
    BY <1>3 DEF Tick, vars, clients
  <2>2. IdleAsks'
    BY <2>1 DEF RunInvariant, IdleAsks
  <2> QED
    BY <1>0, <2>1, <2>2, RunBystander
<1>4. CASE Crash
  <2>1. IdleAsks'
    BY <1>4 DEF Crash, IdleAsks
  <2> QED
    BY <1>4, <2>1, RunBystander DEF Crash
<1> QED
  BY <1>1, <1>2, <1>3, <1>4 DEF Next, Purge, Delete

-----------------------------------------------------------------------------
(* What is found of a record: the theorems.                                *)
LEMMA RunInvariantHolds == Spec => [](Shape /\ IInv /\ RunInvariant)
<1>1. Init => Shape /\ IInv /\ RunInvariant
  BY ShapeInit, IInvInit, RunInit
<1>2. Shape /\ IInv /\ RunInvariant /\ [Next]_vars => (Shape /\ IInv /\ RunInvariant)'
  BY ShapeStep, IInvStep, RunStep
<1> QED
  BY <1>1, <1>2, PTL DEF Spec

\* An embedding is a chunk of the run that is found of its record.
LEMMA EmbeddingInRun ==
    ASSUME Shape, RunInvariant, NEW e \in embeddings
    PROVE  \E r \in Request, at \in Second, k \in Nat :
              k <= Count(r) /\ e \in Run(r, at, k)
<1>1. e \in FoundOf(e.id) /\ e.id \in RecordId
  BY DEF FoundOf, Shape
<1>2. PICK r \in Request, at \in Second, k \in Nat :
        k <= Count(r) /\ FoundOf(e.id) = Run(r, at, k)
  BY <1>1 DEF RunInvariant, RunsOnly
<1> QED
  BY <1>1, <1>2

LEMMA RunTypes == Shape /\ RunInvariant => TypeOK
<1> SUFFICES ASSUME Shape, RunInvariant PROVE TypeOK
  OBVIOUS
<1>1. ASSUME NEW e \in embeddings
      PROVE  /\ e.id \in RecordId /\ e.model \in Models /\ e.text \in Texts
             /\ e.index \in Nat
             /\ e.content.kept \cup e.content.replaced \subseteq Characters(e.text)
             /\ e.content.kept \cup e.content.replaced # {}
  <2>1. PICK r \in Request, at \in Second, k \in Nat :
          k <= Count(r) /\ e \in Run(r, at, k)
    BY EmbeddingInRun
  <2>2. r.model \in Models /\ r.text \in Texts
    BY DEF Request
  <2>3. /\ e.index \in 0..(k - 1)
        /\ e.model = r.model /\ e.text = r.text
        /\ e.content = Chunk(r.text, r.size, e.index)
    BY <2>1, RunMember
  <2>4. e.index \in Nat /\ e.index < Count(r)
    BY <2>1, <2>3, ChunkFacts
  <2>5. PICK bytes : bytes = ChunkBytes(r.text, r.size, e.index)
    OBVIOUS
  <2>6. bytes \subseteq 0..(Length[r.text] - 1) /\ bytes # {}
    BY <2>4, <2>5, ChunkFacts
  <2>7. e.content.kept \cup e.content.replaced = {CharOf[r.text][p] : p \in bytes}
    BY <2>3, <2>5 DEF Chunk
  <2>8. {CharOf[r.text][p] : p \in bytes} \subseteq Characters(r.text)
    BY <2>6 DEF Characters
  <2>9. {CharOf[r.text][p] : p \in bytes} # {}
    BY <2>6
  <2> QED
    BY <2>2, <2>3, <2>4, <2>7, <2>8, <2>9 DEF Shape
<1>2. \A c \in Clients : stage[c] = "idle" <=> request[c] = None
  BY NoneAssumption DEF Shape, RunInvariant, IdleAsks
<1> QED
  BY <1>1, <1>2 DEF TypeOK, Shape, RunInvariant, HolderRun, PromisesRun

\* The chunks of one request, all of them, keep every character that is on no
\* cut, and replace the others wherever they reach.
LEMMA RunKeeps ==
    ASSUME NEW r \in Request, NEW at, FoundOf(r.id) = Run(r, at, Count(r))
    PROVE  KeptOffTheCuts(r)
<1> SUFFICES ASSUME NEW char \in Characters(r.text)
             PROVE  IF Cardinality(Reached(r, char)) = 1
                    THEN Cardinality(Keepers(r, char)) = 1 /\ Marred(r, char) = {}
                    ELSE /\ Keepers(r, char) = {}
                         /\ {e.index : e \in Marred(r, char)} = Reached(r, char)
  BY DEF KeptOffTheCuts
<1>1. PICK R : R = Reached(r, char)
  OBVIOUS
<1>2. R # {} /\ IsFiniteSet(R) /\ R \subseteq 0..(Count(r) - 1) /\ R \subseteq Nat
  <2>1. Count(r) \in Nat
    BY ChunkFacts
  <2> QED
    BY <1>1, <2>1, ChunkCharacters
<1>3. ASSUME NEW e \in Cited(r)
      PROVE  /\ e = Piece(r, at, e.index) /\ e.index \in Nat
             /\ e \in Keepers(r, char) <=> R = {e.index}
             /\ e \in Marred(r, char) <=> e.index \in R /\ R # {e.index}
  <2>1. e \in Run(r, at, Count(r))
    BY DEF FoundOf, Cited
  <2>2. /\ e = Piece(r, at, e.index) /\ e.index \in 0..(Count(r) - 1)
        /\ e.content = Chunk(r.text, r.size, e.index)
    BY <2>1, RunMember
  <2>3. e.index \in Nat
    BY <2>2
  <2> QED
    BY <1>1, <2>2, <2>3, ChunkCharacters DEF Keepers, Marred
<1>4. ASSUME NEW i \in R
      PROVE  Piece(r, at, i) \in Cited(r) /\ Piece(r, at, i).index = i
  <2>1. PICK piece : piece = Piece(r, at, i)
    OBVIOUS
  <2>2. piece \in Run(r, at, Count(r))
    BY <1>2, <2>1 DEF Run
  <2>3. piece.id = r.id /\ piece.model = r.model /\ piece.index = i
    BY <2>1 DEF Piece
  <2> QED
    BY <2>1, <2>2, <2>3 DEF FoundOf, Cited
<1>5. Keepers(r, char) \subseteq Cited(r) /\ Marred(r, char) \subseteq Cited(r)
  BY DEF Keepers, Marred
<1>6. CASE Cardinality(R) = 1
  <2>1. PICK i : R = {i}
    BY <1>2, <1>6, FS_Singleton
  <2>2. Marred(r, char) = {}
    BY <1>3, <1>5, <2>1
  <2>3. Keepers(r, char) = {Piece(r, at, i)}
    BY <1>3, <1>4, <1>5, <2>1
  <2>4. Cardinality(Keepers(r, char)) = 1
    BY <2>3, FS_Singleton
  <2> QED
    BY <1>1, <1>6, <2>2, <2>4
<1>7. CASE Cardinality(R) # 1
  <2>1. \A i : R # {i}
    BY <1>7, FS_Singleton
  <2>2. Keepers(r, char) = {}
    BY <1>3, <1>5, <2>1
  <2>3. {e.index : e \in Marred(r, char)} \subseteq R
    BY <1>3, <1>5
  <2>4. R \subseteq {e.index : e \in Marred(r, char)}
    BY <1>3, <1>4, <2>1
  <2> QED
    BY <1>1, <1>7, <2>2, <2>3, <2>4
<1> QED
  BY <1>6, <1>7

LEMMA RunWhole == RunInvariant => AnsweredWhole
<1> SUFFICES ASSUME RunInvariant, NEW id \in RecordId, promised[id] # None
             PROVE  /\ promised[id].id = id
                    /\ records[id] # None /\ records[id].text = promised[id].text
                    /\ KeptOffTheCuts(promised[id])
  BY DEF AnsweredWhole
<1>1. PICK r : r = promised[id]
  OBVIOUS
<1>2. r \in Request /\ r.id = id /\ records[id] # None /\ records[id].text = r.text
  BY <1>1 DEF RunInvariant, PromisesRun
<1>3. PICK at \in Second : FoundOf(r.id) = Run(r, at, Count(r))
  BY <1>1, <1>2 DEF RunInvariant, PromisesRun
<1>4. KeptOffTheCuts(r)
  BY <1>2, <1>3, RunKeeps
<1> QED
  BY <1>1, <1>2, <1>4

LEMMA RunBeginnings == RunInvariant => BeginningsOnly
<1> SUFFICES ASSUME RunInvariant, NEW id \in RecordId, FoundOf(id) # {}
             PROVE  /\ {e.index : e \in FoundOf(id)} = 0..(Cardinality(FoundOf(id)) - 1)
                    /\ \E model \in Models, size \in Sizes :
                          \A e \in FoundOf(id) :
                             /\ e.model = model
                             /\ e.content = Chunk(e.text, size, e.index)
  BY DEF BeginningsOnly, FoundOf
<1>1. PICK r \in Request, at \in Second, k \in Nat : FoundOf(id) = Run(r, at, k)
  BY DEF RunInvariant, RunsOnly
<1>2. {e.index : e \in FoundOf(id)} = 0..(Cardinality(FoundOf(id)) - 1)
  BY <1>1, RunSize
<1>3. r.model \in Models /\ r.size \in Sizes
  BY DEF Request
<1>4. ASSUME NEW e \in FoundOf(id)
      PROVE  e.model = r.model /\ e.content = Chunk(e.text, r.size, e.index)
  BY <1>1, RunMember
<1> QED
  BY <1>2, <1>3, <1>4

\* The tables and the requests underway keep their types; no chunk is empty or
\* has characters that are not in its text.
THEOREM TypeCorrect == Spec => []TypeOK
BY RunInvariantHolds, RunTypes, PTL

\* What was answered with 200 is there whole but for the characters on a cut,
\* until its id is stored again, deleted or expired: every other character in
\* exactly one chunk, for texts of any length and chunks of any size.
THEOREM AnsweredWholeHolds == Spec => []AnsweredWhole
BY RunInvariantHolds, RunWhole, PTL

\* What is found of a record is a run of chunks from the first on, under one
\* model and of one size, wherever its ingestion was broken off.
THEOREM BeginningsOnlyHolds == Spec => []BeginningsOnly
BY RunInvariantHolds, RunBeginnings, PTL
=============================================================================

---------------------------- MODULE MemoryStore ----------------------------
(***************************************************************************)
(* The memory store: tables memory_records and memory_embeddings           *)
(* (persistence/mod.rs), the cutting of texts into chunks (memory/mod.rs)  *)
(* and the handlers under /memory (app.rs).                                *)
(*                                                                         *)
(* An ingestion reads the clock, waits for the SQLite mutex, and holds it  *)
(* for one INSERT OR REPLACE of the record and one for each chunk.  Each   *)
(* is committed by itself.  The bundled SQLite enforces foreign keys, so   *)
(* that a record that is deleted, or replaced, takes its embeddings along. *)
(*                                                                         *)
(* A text is a name, the positions of its bytes and the characters they    *)
(* belong to: a cut goes by bytes, and a character that it goes through is *)
(* lost.  Sessions, sources and the scores that rank what is retrieved are *)
(* left out.                                                               *)
(***************************************************************************)
EXTENDS Integers, FiniteSets

CONSTANTS
    Clients,      \* threads that handle requests
    Names,        \* record ids chosen by clients
    Texts,        \* the texts they store
    Length,       \* of each text, in bytes
    CharOf,       \* of each text, the number of the character a byte is of
    Models,       \* names of embedding models
    Sizes,        \* the chunk sizes they ask for
    MinSize,      \* smallest chunk size used; 32
    Ttls,         \* the retention times purges ask for
    MaxNow,       \* bound of the clock
    MaxIngests,   \* bound: requests to store a text
    MaxFaults,    \* bound: crashes and failing statements
    None          \* no row, no request

ASSUME MemoryAssumption ==
    /\ Length \in [Texts -> Nat]
    /\ \A text \in Texts :
          /\ CharOf[text] \in [0..(Length[text] - 1) -> Nat]
          /\ \A p, q \in 0..(Length[text] - 1) :
                p <= q => CharOf[text][p] <= CharOf[text][q]
    /\ Sizes \subseteq Nat /\ MinSize \in Nat \ {0}
    /\ Ttls \subseteq Nat
    /\ MaxNow \in Nat /\ MaxIngests \in Nat /\ MaxFaults \in Nat

VARIABLES
    now,         \* the wall clock, in seconds
    records,     \* table memory_records
    embeddings,  \* table memory_embeddings
    stage,       \* where each client is in its ingestion
    request,     \* what it stores
    created,     \* the record's created_at_unix
    next,        \* the index of the next chunk
    ingests,     \* ingestions so far
    faults,      \* faults so far
    promised     \* history: the ingestion each record's id was last answered for

tables == <<records, embeddings>>
clients == <<stage, request, created, next>>
vars == <<now, tables, clients, ingests, faults, promised>>

Second == 0..MaxNow

\* "mem-<second>" when the client names none.
RecordId == Names \cup ({"mem"} \X Second)

Request == [id : RecordId, text : Texts, model : Models, size : Sizes]

Record == [text : Texts, created : Second]

ASSUME NoneAssumption == None \notin Record \cup Request

\* The mutex is held from the record's INSERT to the last chunk's.
StoreFree == \A c \in Clients : stage[c] # "storing"

Init ==
    /\ now = 0
    /\ records = [id \in RecordId |-> None]
    /\ embeddings = {}
    /\ stage = [c \in Clients |-> "idle"]
    /\ request = [c \in Clients |-> None]
    /\ created = [c \in Clients |-> 0]
    /\ next = [c \in Clients |-> 0]
    /\ ingests = 0
    /\ faults = 0
    /\ promised = [id \in RecordId |-> None]

Tick ==
    /\ now < MaxNow
    /\ now' = now + 1
    /\ UNCHANGED <<tables, clients, ingests, faults, promised>>

-----------------------------------------------------------------------------
(* chunk_text.                                                             *)

ChunkSize(size) == IF size < MinSize THEN MinSize ELSE size

\* Faulty variant: a text that fills its last chunk gets an empty one more.
ChunkCountPlusOne(text, size) == Length[text] \div ChunkSize(size) + 1

\* Faulty variant: the bytes after the last full chunk are left out.
ChunkCountFull(text, size) == Length[text] \div ChunkSize(size)

ChunkCount(text, size) ==
    (Length[text] + ChunkSize(size) - 1) \div ChunkSize(size)

\* The positions of the bytes in chunk i, and of those of a character.
ChunkBytes(text, size, i) ==
    {p \in 0..(Length[text] - 1) : p \div ChunkSize(size) = i}

BytesOf(text, char) == {p \in 0..(Length[text] - 1) : CharOf[text][p] = char}

\* What String::from_utf8_lossy makes of chunk i: the characters that are in it
\* whole, and replacement characters for the bytes of those that are not.
Chunk(text, size, i) ==
    LET bytes == ChunkBytes(text, size, i)
        touched == {CharOf[text][p] : p \in bytes}
    IN  [kept |-> {char \in touched : BytesOf(text, char) \subseteq bytes},
         replaced |-> {char \in touched : ~ BytesOf(text, char) \subseteq bytes}]

-----------------------------------------------------------------------------
(* POST /memory/ingest.                                                    *)

\* The id, of the second that is read, or the client's.
BeginIngest(c, id) ==
    /\ stage[c] = "idle"
    /\ ingests < MaxIngests
    /\ ingests' = ingests + 1
    /\ id \in Names \cup {<<"mem", now>>}
    /\ \E text \in Texts, model \in Models, size \in Sizes :
          request' = [request EXCEPT ![c] =
                        [id |-> id, text |-> text, model |-> model, size |-> size]]
    /\ stage' = [stage EXCEPT ![c] = "named"]
    /\ UNCHANGED <<now, tables, created, next, faults, promised>>

\* new_record reads the clock again; then the wait for the store begins.
StampRecord(c) ==
    /\ stage[c] = "named"
    /\ created' = [created EXCEPT ![c] = now]
    /\ stage' = [stage EXCEPT ![c] = "stamped"]
    /\ UNCHANGED <<now, tables, request, next, ingests, faults, promised>>

\* Faulty variant: foreign keys are off, and a replaced record keeps the
\* embeddings of the text it had.
WithoutAnyOf(ids) == embeddings

\* ON DELETE CASCADE.
Without(ids) == {e \in embeddings : e.id \notin ids}

\* The INSERT OR REPLACE of the record.
StoreRecord(c) ==
    LET r == request[c]
    IN  /\ stage[c] = "stamped"
        /\ StoreFree
        /\ records' = [records EXCEPT ![r.id] =
                          [text |-> r.text, created |-> created[c]]]
        /\ embeddings' = Without({r.id})
        /\ stage' = [stage EXCEPT ![c] = "storing"]
        /\ promised' = [promised EXCEPT ![r.id] = None]
        /\ UNCHANGED <<now, request, created, next, ingests, faults>>

Embedding(c) ==
    LET r == request[c]
    IN  [id |-> r.id, model |-> r.model, index |-> next[c],
         text |-> r.text, content |-> Chunk(r.text, r.size, next[c]),
         created |-> created[c]]

ChunksLeft(c) == next[c] < ChunkCount(request[c].text, request[c].size)

\* store_embedding: INSERT OR REPLACE under record, model and index.
StoreChunk(c) ==
    LET row == Embedding(c)
    IN  /\ stage[c] = "storing"
        /\ ChunksLeft(c)
        /\ embeddings' =
              {e \in embeddings : <<e.id, e.model, e.index>> # <<row.id, row.model, row.index>>}
                 \cup {row}
        /\ next' = [next EXCEPT ![c] = @ + 1]
        /\ UNCHANGED <<now, records, stage, request, created, ingests, faults, promised>>

LetGo(c) ==
    /\ stage' = [stage EXCEPT ![c] = "idle"]
    /\ request' = [request EXCEPT ![c] = None]
    /\ created' = [created EXCEPT ![c] = 0]
    /\ next' = [next EXCEPT ![c] = 0]

\* The answer 200.
EndIngest(c) ==
    /\ stage[c] = "storing"
    /\ ~ChunksLeft(c)
    /\ promised' = [promised EXCEPT ![request[c].id] = request[c]]
    /\ LetGo(c)
    /\ UNCHANGED <<now, tables, ingests, faults>>

-----------------------------------------------------------------------------
(* POST /memory/purge and DELETE /memory/:id.                              *)

\* now_unix().saturating_sub(ttl_seconds), read under the mutex.
Threshold(ttl) == IF ttl > now THEN 0 ELSE now - ttl

DeleteRecords(ids) ==
    /\ StoreFree
    /\ records' = [id \in RecordId |-> IF id \in ids THEN None ELSE records[id]]
    /\ embeddings' = Without(ids)
    /\ promised' = [id \in RecordId |-> IF id \in ids THEN None ELSE promised[id]]
    /\ UNCHANGED <<now, clients, ingests, faults>>

Stored == {id \in RecordId : records[id] # None}

Purge(ttl) == DeleteRecords({id \in Stored : records[id].created < Threshold(ttl)})

Delete(id) == id \in Stored /\ DeleteRecords({id})

-----------------------------------------------------------------------------
(* Faults.                                                                 *)

Suffer == faults < MaxFaults /\ faults' = faults + 1

\* Faulty variant: the error of a chunk is discarded, as others are.
IngestErrorDiscarded(c) ==
    /\ Suffer
    /\ stage[c] = "storing" /\ ChunksLeft(c)
    /\ next' = [next EXCEPT ![c] = @ + 1]
    /\ UNCHANGED <<now, tables, stage, request, created, ingests, promised>>

\* A statement fails: the rest is not done, the answer is 500.
IngestError(c) ==
    /\ Suffer
    /\ \/ stage[c] = "stamped" /\ StoreFree
       \/ stage[c] = "storing" /\ ChunksLeft(c)
    /\ LetGo(c)
    /\ UNCHANGED <<now, tables, ingests, promised>>

\* The process dies and is restarted; the tables are what is left.
Crash ==
    /\ Suffer
    /\ stage' = [c \in Clients |-> "idle"]
    /\ request' = [c \in Clients |-> None]
    /\ created' = [c \in Clients |-> 0]
    /\ next' = [c \in Clients |-> 0]
    /\ UNCHANGED <<now, tables, ingests, promised>>

-----------------------------------------------------------------------------
Ingest(c) ==
    \/ \E id \in RecordId : BeginIngest(c, id)
    \/ StampRecord(c)
    \/ StoreRecord(c)
    \/ StoreChunk(c)
    \/ EndIngest(c)
    \/ IngestError(c)

Next ==
    \/ Tick
    \/ \E c \in Clients : Ingest(c)
    \/ \E ttl \in Ttls : Purge(ttl)
    \/ \E id \in RecordId : Delete(id)
    \/ Crash

Spec == Init /\ [][Next]_vars

-----------------------------------------------------------------------------
(* Properties.                                                             *)

Characters(text) == {CharOf[text][p] : p \in 0..(Length[text] - 1)}

\* The two tables and the requests underway.  No chunk is empty.
TypeOK ==
    /\ now \in Second
    /\ records \in [RecordId -> Record \cup {None}]
    /\ \A e \in embeddings :
          /\ e.id \in RecordId /\ e.model \in Models /\ e.text \in Texts
          /\ e.index \in Nat
          /\ e.content.kept \cup e.content.replaced \subseteq Characters(e.text)
          /\ e.content.kept \cup e.content.replaced # {}
    /\ stage \in [Clients -> {"idle", "named", "stamped", "storing"}]
    /\ request \in [Clients -> Request \cup {None}]
    /\ created \in [Clients -> Second]
    /\ next \in [Clients -> Nat]
    /\ \A c \in Clients : stage[c] = "idle" <=> request[c] = None
    /\ promised \in [RecordId -> Request \cup {None}]

(***************************************************************************)
(* What POST /memory/retrieve cites (retrieve_hybrid joins the two tables) *)
(* is a piece of the record as it now is: never of a text that was         *)
(* replaced, never of a record that was deleted or expired, whatever       *)
(* ingestions were broken off in between.                                  *)
(***************************************************************************)
CitationsCurrent ==
    \A e \in embeddings :
        /\ records[e.id] # None
        /\ records[e.id] = [text |-> e.text, created |-> e.created]

\* What makes it inductive: the record of the one ingestion that holds the
\* mutex is the one its chunks are of.
HolderRecord ==
    /\ \A c, d \in Clients : stage[c] = "storing" /\ stage[d] = "storing" => c = d
    /\ \A c \in Clients : stage[c] = "storing" =>
          records[request[c].id] = [text |-> request[c].text, created |-> created[c]]

IInv == CitationsCurrent /\ HolderRecord

(***************************************************************************)
(* An ingestion that was answered with 200 is whole, until its id is       *)
(* stored again, deleted or expired: every character of its text that no   *)
(* cut goes through can be read in exactly one chunk under its model, and  *)
(* nothing else is lost than the characters on a cut, which leave          *)
(* replacement characters in the chunks they reach into.  Clients that     *)
(* share the store, errors and crashes do not change that.                 *)
(***************************************************************************)
Reached(r, char) == {p \div ChunkSize(r.size) : p \in BytesOf(r.text, char)}

Cited(r) == {e \in embeddings : e.id = r.id /\ e.model = r.model}
Keepers(r, char) == {e \in Cited(r) : char \in e.content.kept}
Marred(r, char) == {e \in Cited(r) : char \in e.content.replaced}

KeptOffTheCuts(r) ==
    \A char \in Characters(r.text) :
        IF Cardinality(Reached(r, char)) = 1
        THEN Cardinality(Keepers(r, char)) = 1 /\ Marred(r, char) = {}
        ELSE /\ Keepers(r, char) = {}
             /\ {e.index : e \in Marred(r, char)} = Reached(r, char)

AnsweredWhole ==
    \A id \in RecordId : promised[id] # None =>
        /\ promised[id].id = id
        /\ records[id] # None /\ records[id].text = promised[id].text
        /\ KeptOffTheCuts(promised[id])

(***************************************************************************)
(* An ingestion that was broken off leaves a beginning of the text: what   *)
(* is found of a record is a run of chunks from the first on, of one text  *)
(* cut to one size, under one model.                                       *)
(***************************************************************************)
BeginningsOnly ==
    \A id \in RecordId :
        LET found == {e \in embeddings : e.id = id}
        IN  found # {} =>
              /\ {e.index : e \in found} = 0..(Cardinality(found) - 1)
              /\ \E model \in Models, size \in Sizes :
                    \A e \in found :
                       /\ e.model = model
                       /\ e.content = Chunk(e.text, size, e.index)
=============================================================================

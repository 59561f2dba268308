----------------------------- MODULE KnowledgeBase -----------------------------
(***************************************************************************)
(* The copilot's knowledge base.  Every worker process of the web server   *)
(* keeps the list of documents (metadata) and their text chunks (index) in *)
(* memory, and writes each as a whole to a JSON file that all workers      *)
(* share and read only when they start or re-index.  Requests are uploads, *)
(* deletions and re-indexings; a worker serves several at once in threads, *)
(* and nothing is locked.                                                  *)
(*                                                                         *)
(* Writing a file first truncates it: who reads it then, or when the dumps *)
(* of two writers were mixed, finds no JSON and goes on with an empty      *)
(* structure.  A document stands for all its chunks, of which a short text *)
(* has none; the word statistics, computed again from all the chunks after *)
(* every change, are left out.                                             *)
(***************************************************************************)
EXTENDS FiniteSets, Naturals

CONSTANTS
    KDocuments,  \* unique file names
    KWorkers,    \* worker processes
    KRequests,   \* requests in service at the same time
    KNone,       \* no worker, no document
    KMaxServed   \* bound on the requests and restarts

ASSUME KAssumption == KNone \notin KWorkers \cup KDocuments /\ KMaxServed \in Nat

VARIABLES
    kBlank,     \* documents with too little text for a chunk: what is in them never changes
    kDisk,      \* documents stored in kb_dir
    kFile,      \* metadata.json and index.json
    kMemory,    \* each worker's metadata and index
    kRequest,   \* each request: its worker, its step, what is left, what it read,
                \* and as a ghost who was served at the same time
    kTorn,      \* ghost: workers where requests overlapped or failed, or that started from files
                \* that were being written or split
    kSplit,     \* ghost: the files may disagree, by the request that last ended
    kHealed,    \* ghost: the worker that re-indexed with nobody served since it began
    kServed

knowledge == <<kBlank, kDisk, kFile, kMemory, kRequest, kTorn, kSplit, kHealed, kServed>>

Broken == {KNone}                          \* a file that is no JSON
KIdle  == [at |-> KNone, op |-> "none", step |-> "none", doc |-> KNone,
           todo |-> {}, kept |-> {}, beside |-> "nobody"]

KInit ==
    /\ kBlank \in SUBSET KDocuments
    /\ kDisk = {} /\ kFile = [metadata |-> {}, index |-> {}]
    /\ kMemory = [w \in KWorkers |-> kFile] /\ kRequest = [r \in KRequests |-> KIdle]
    /\ kTorn = {} /\ kSplit = FALSE /\ kHealed = KNone /\ kServed = 0

Load(file) == IF file = Broken THEN {} ELSE file
Loaded     == [metadata |-> Load(kFile.metadata), index |-> Load(kFile.index)]

(* extract_text_from_file never fails, an error message is a text as well;    *)
(* and _chunk_text drops what is not longer than forty characters.            *)
ExtractTextFromFile(d) == [of |-> d, short |-> d \in kBlank]
ChunkText(text)        == IF text.short THEN {} ELSE {text.of}

(* retrieve_context looks in the chunks of its worker, and nowhere else.      *)
RetrieveContext(w) == kMemory[w].index

Active   == {r \in KRequests : kRequest[r] # KIdle}
Quiet(w) == \A r \in Active : kRequest[r].at # w

-----------------------------------------------------------------------------
KBegin(r, w, op, step, doc) ==
    LET Beside(q) == IF kRequest[q].at = w THEN "here"
                     ELSE IF kRequest[q].beside = "nobody" THEN "elsewhere"
                     ELSE kRequest[q].beside
        new == [at |-> w, op |-> op, step |-> step, doc |-> doc, kept |-> {},
                todo |-> IF op = "reindex" THEN Load(kFile.metadata) ELSE {},
                beside |-> IF ~Quiet(w) THEN "here" ELSE IF Active # {} THEN "elsewhere" ELSE "nobody"]
    IN  /\ kRequest[r] = KIdle /\ kServed < KMaxServed /\ kServed' = kServed + 1
        /\ kRequest' = [q \in KRequests |-> IF q = r THEN new
                                            ELSE IF q \in Active THEN [kRequest[q] EXCEPT !.beside = Beside(q)]
                                            ELSE KIdle]
        /\ kTorn' = IF Quiet(w) THEN kTorn ELSE kTorn \cup {w}
        /\ kHealed' = KNone /\ UNCHANGED kSplit

(* rag_upload stores the file under a name of its own.                        *)
RagUpload(r, w, d) ==
    /\ d \notin kDisk /\ \A v \in KWorkers : d \notin kMemory[v].metadata \cup kMemory[v].index
    /\ KBegin(r, w, "upload", "list", d) /\ kDisk' = kDisk \cup {d}
    /\ UNCHANGED <<kFile, kMemory>>

(* delete_document answers "not found" when this worker does not list it.     *)
RagDelete(r, w, d) ==
    /\ d \in kMemory[w].metadata /\ KBegin(r, w, "delete", "list", d)
    /\ UNCHANGED <<kDisk, kFile, kMemory>>

(* Bug: reindex_all leaves the old chunks in the index.                       *)
RagReindexBug(r, w) ==
    /\ KBegin(r, w, "reindex", "next", KNone)
    /\ kMemory' = [kMemory EXCEPT ![w].metadata = Load(kFile.metadata)]
    /\ UNCHANGED <<kDisk, kFile>>

(* reindex_all empties the index and reads the list again.                    *)
RagReindex(r, w) ==
    /\ KBegin(r, w, "reindex", "next", KNone)
    /\ kMemory' = [kMemory EXCEPT ![w] = [metadata |-> Load(kFile.metadata), index |-> {}]]
    /\ UNCHANGED <<kDisk, kFile>>

-----------------------------------------------------------------------------
Go(r, step) == /\ kRequest' = [kRequest EXCEPT ![r].step = step]
               /\ UNCHANGED <<kTorn, kSplit, kHealed, kServed>>

(* The files agree after a request that nobody was served beside, in a worker *)
(* that is not torn or is re-indexed; but a re-indexing that finds none of    *)
(* the listed documents saves the list and leaves the index file as it was.   *)
Finish(r) ==
    LET me == kRequest[r] again == me.op = "reindex" IN
    /\ kSplit' = ~(/\ me.beside = "nobody"
                   /\ IF again THEN kMemory[me.at].metadata # {} ELSE me.at \notin kTorn)
    /\ kRequest' = [kRequest EXCEPT ![r] = KIdle]
    /\ kTorn' = IF again /\ me.beside # "here" THEN kTorn \ {me.at} ELSE kTorn
    /\ kHealed' = IF again /\ me.beside = "nobody" THEN me.at ELSE kHealed
    /\ UNCHANGED kServed

(* What a dump leaves: when the file is no longer empty, another writer's     *)
(* output may be mixed with it.                                               *)
Dumped(file, content) == IF file = Broken THEN {content} ELSE {content, Broken}

(* add_document and delete_document: the list in memory, and its file ...     *)
ChangeList(r) ==
    LET me == kRequest[r] IN
    /\ me.step = "list" /\ Go(r, "dump list")
    /\ kMemory' = [kMemory EXCEPT ![me.at].metadata = IF me.op = "delete" THEN @ \ {me.doc} ELSE @ \cup {me.doc}]
    /\ kFile' = [kFile EXCEPT !.metadata = Broken]
    /\ UNCHANGED kDisk

(* ... which is also saved at the end of reindex_all.                         *)
DumpList(r) ==
    LET me == kRequest[r] IN
    /\ me.step = "dump list"
    /\ IF me.doc = KNone THEN Finish(r) ELSE Go(r, IF me.op = "delete" THEN "remove" ELSE "filter")
    /\ \E content \in Dumped(kFile.metadata, kMemory[me.at].metadata) : kFile' = [kFile EXCEPT !.metadata = content]
    /\ UNCHANGED <<kDisk, kMemory>>

RemoveFile(r) ==
    /\ kRequest[r].step = "remove" /\ Go(r, "filter")
    /\ kDisk' = kDisk \ {kRequest[r].doc}
    /\ UNCHANGED <<kFile, kMemory>>

(* The chunks of other documents are kept ...                                 *)
FilterChunks(r) ==
    LET me == kRequest[r] IN
    /\ me.step = "filter"
    /\ kRequest' = [kRequest EXCEPT ![r].step = "index", ![r].kept = kMemory[me.at].index \ {me.doc}]
    /\ UNCHANGED <<kDisk, kFile, kMemory, kTorn, kSplit, kHealed, kServed>>

(* ... in a list that replaces the old one and gets the document's.           *)
ReplaceChunks(r) ==
    LET me == kRequest[r] IN
    /\ me.step = "index" /\ Go(r, "dump index")
    /\ kMemory' = [kMemory EXCEPT ![me.at].index =
                      me.kept \cup (IF me.op = "delete" THEN {} ELSE ChunkText(ExtractTextFromFile(me.doc)))]
    /\ kFile' = [kFile EXCEPT !.index = Broken]
    /\ UNCHANGED kDisk

DumpIndex(r) ==
    LET me == kRequest[r] IN
    /\ me.step = "dump index"
    /\ IF me.op = "reindex" THEN Go(r, "next") ELSE Finish(r)
    /\ \E content \in Dumped(kFile.index, kMemory[me.at].index) : kFile' = [kFile EXCEPT !.index = content]
    /\ UNCHANGED <<kDisk, kMemory>>

(* reindex_all adds each listed document whose file is there, drops the       *)
(* others from the list, and saves the list.                                  *)
NextDocument(r) ==
    LET me == kRequest[r] IN
    /\ me.step = "next" /\ UNCHANGED <<kDisk, kTorn, kSplit, kHealed, kServed>>
    /\ \/ \E d \in me.todo : /\ d \in kDisk /\ UNCHANGED <<kFile, kMemory>>
                             /\ kRequest' = [kRequest EXCEPT ![r] =
                                   [me EXCEPT !.doc = d, !.todo = @ \ {d}, !.step = "list"]]
       \/ \E d \in me.todo \ kDisk :
             /\ kMemory' = [kMemory EXCEPT ![me.at].metadata = @ \ {d}] /\ UNCHANGED kFile
             /\ kRequest' = [kRequest EXCEPT ![r].todo = @ \ {d}]
       \/ /\ me.todo = {} /\ kFile' = [kFile EXCEPT !.metadata = Broken] /\ UNCHANGED kMemory
          /\ kRequest' = [kRequest EXCEPT ![r].doc = KNone, ![r].step = "dump list"]

(* An exception: a file that is gone when its size is asked for, an entry     *)
(* that another thread removed, a disk that is full.                          *)
RequestFails(r) ==
    /\ r \in Active /\ kRequest' = [kRequest EXCEPT ![r] = KIdle]
    /\ kTorn' = kTorn \cup {kRequest[r].at} /\ kSplit' = TRUE
    /\ UNCHANGED <<kDisk, kFile, kMemory, kHealed, kServed>>

(* A worker that is replaced takes its requests with it, and serves what the  *)
(* files hold.                                                                *)
WorkerRestarts(w) ==
    /\ kServed < KMaxServed /\ kServed' = kServed + 1
    /\ kRequest' = [r \in KRequests |-> IF kRequest[r].at = w THEN KIdle ELSE kRequest[r]]
    /\ kMemory' = [kMemory EXCEPT ![w] = Loaded]
    /\ kTorn' = IF Active = {} /\ ~kSplit THEN kTorn \ {w} ELSE kTorn \cup {w}
    /\ kSplit' = (kSplit \/ ~Quiet(w))
    /\ kHealed' = KNone
    /\ UNCHANGED <<kDisk, kFile>>

KNext ==
    /\ UNCHANGED kBlank
    /\ \/ \E r \in KRequests :
             \/ \E w \in KWorkers, d \in KDocuments : RagUpload(r, w, d) \/ RagDelete(r, w, d)
             \/ \E w \in KWorkers : RagReindex(r, w)
             \/ ChangeList(r) \/ DumpList(r) \/ RemoveFile(r) \/ FilterChunks(r)
             \/ ReplaceChunks(r) \/ DumpIndex(r) \/ NextDocument(r) \/ RequestFails(r)
       \/ \E w \in KWorkers : WorkerRestarts(w)

KSpec == KInit /\ [][KNext]_knowledge

-----------------------------------------------------------------------------
KTypeOK ==
    /\ kBlank \cup kDisk \subseteq KDocuments /\ kTorn \subseteq KWorkers /\ kHealed \in KWorkers \cup {KNone}
    /\ kSplit \in BOOLEAN
    /\ \A t \in {"metadata", "index"} :
          /\ kFile[t] \in (SUBSET KDocuments) \cup {Broken}
          /\ \A w \in KWorkers : kMemory[w][t] \subseteq KDocuments
    /\ \A r \in Active : /\ kRequest[r].at \in KWorkers /\ kRequest[r].doc \in KDocuments \cup {KNone}
                         /\ kRequest[r].todo \cup kRequest[r].kept \subseteq KDocuments
                         /\ kRequest[r].beside \in {"nobody", "elsewhere", "here"}
    /\ kServed \in 0..KMaxServed

(* A worker at rest searches every document it lists and no other (but those  *)
(* too short to have a chunk), unless since it last started or re-indexed     *)
(* requests overlapped in it or one failed, or it started while a request was *)
(* writing the files or from what one left that had overlapped another of any *)
(* worker, had failed, was served by a worker in that state, or re-indexed    *)
(* nothing.  Workers that overwrite each other's files one after another,     *)
(* each with a list of its own, do no harm to that.  And a re-indexing while  *)
(* nobody else is served repairs everything: memory, both files and the disk  *)
(* agree from then on until the next request.                                 *)
SearchedIsListed ==
    /\ \A w \in KWorkers \ kTorn : Quiet(w) => RetrieveContext(w) = kMemory[w].metadata \ kBlank
    /\ kHealed # KNone => /\ kFile.metadata = kMemory[kHealed].metadata
                          /\ kFile.metadata \subseteq kDisk
                          /\ kFile.metadata # {} => kFile.index = kFile.metadata \ kBlank
=============================================================================

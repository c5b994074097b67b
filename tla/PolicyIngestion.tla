--------------------------- MODULE PolicyIngestion ---------------------------
(***************************************************************************)
(* The policy handbook of one company (contexts/platform): uploaded,       *)
(* ingested in the background of the process, retried, deleted.  The       *)
(* request that starts an ingestion answers at once; its slot here lives   *)
(* on as the job, which chunks the text, has a provider embed the chunks   *)
(* batch by batch and stores one vector at a time.                         *)
(*                                                                         *)
(* Abstracted: a text by what PolicyChunker makes of it (how many chunks,  *)
(* whether they are sound), and a PDF by the text a provider reads in it;  *)
(* a vector by whether it is stored; listings.                             *)
(***************************************************************************)
EXTENDS Naturals, FiniteSets

CONSTANTS
    Slots,          \* requests and background jobs at the same time
    Outcomes,       \* what chunking may give: [drafts, sound]
    MaxDocuments,   \* bound: uploads
    EmbedBatchSize, \* EMBED_BATCH_SIZE
    Outages         \* TRUE when database calls may reject and the process restart

Texts == [drafts : Nat, sound : BOOLEAN]

ASSUME IngestionAssumption ==
    /\ Outcomes \subseteq Texts
    /\ MaxDocuments \in Nat
    /\ EmbedBatchSize \in Nat \ {0}
    /\ Outages \in BOOLEAN

VARIABLES
    uploads,    \* input: the texts that are going to be uploaded
    status,     \* PolicyDocument.status, or "absent"
    nextId,     \* the id of the next upload's row
    chunks,     \* the ordinals of the document's PolicyChunk rows
    embedded,   \* those whose embedding is stored
    job,        \* requests and jobs: the await, the document, locals
    solo,       \* history: no other request was being handled at the last arrival
    lost        \* history: a restart, or a status write that failed

ingestionVars == <<uploads, status, nextId, chunks, embedded, job, solo, lost>>
-------------------------------------------------------------------------------
DocumentIds == 1 .. MaxDocuments
PolicyDocumentStatus == {"Processing", "Ready", "Failed"}

(* The awaits of the handlers, then those of the jobs.                     *)
Handling == {"create", "count", "process", "remove"}
Ingesting == {"extract", "clear", "chunk", "list", "embed", "store", "ready", "failed"}

Jobs == [at : {"idle"} \union Handling \union Ingesting, doc : Nat,
         todo : SUBSET Nat, batch : SUBSET Nat]

NoJob == [at |-> "idle", doc |-> 0, todo |-> {}, batch |-> {}]

IngestionTypeOK ==
    /\ uploads \in [DocumentIds -> Texts]
    /\ status \in [DocumentIds -> PolicyDocumentStatus \union {"absent"}]
    /\ nextId \in 1 .. MaxDocuments + 1
    /\ chunks \in [DocumentIds -> SUBSET Nat]
    /\ embedded \in [DocumentIds -> SUBSET Nat]
    /\ job \in [Slots -> Jobs]
    /\ solo \in BOOLEAN
    /\ lost \in BOOLEAN

IngestionInit ==
    /\ uploads \in [DocumentIds -> Outcomes]
    /\ status = [d \in DocumentIds |-> "absent"]
    /\ nextId = 1
    /\ chunks = [d \in DocumentIds |-> {}]
    /\ embedded = [d \in DocumentIds |-> {}]
    /\ job = [w \in Slots |-> NoJob]
    /\ solo = TRUE
    /\ lost = FALSE

At(w, label) == job[w].at = label
Goto(w, label) == job' = [job EXCEPT ![w].at = label]
Begin(w, label, d) == job' = [job EXCEPT ![w] = [NoJob EXCEPT !.at = label, !.doc = d]]
End(w) == job' = [job EXCEPT ![w] = NoJob]
Doc(w) == job[w].doc
Stored(d) == status[d] # "absent"

(* Deleted rows take their chunks with them. *)
DeleteRows(ids) ==
    /\ status' = [d \in DocumentIds |-> IF d \in ids THEN "absent" ELSE status[d]]
    /\ chunks' = [d \in DocumentIds |-> IF d \in ids THEN {} ELSE chunks[d]]
    /\ embedded' = [d \in DocumentIds |-> IF d \in ids THEN {} ELSE embedded[d]]

rows == <<status, chunks, embedded>>

(* The first n of a set of ordinals. *)
FirstOf(ordinals, n) == {c \in ordinals : Cardinality({e \in ordinals : e < c}) < n}
-------------------------------------------------------------------------------
(* Requests.  Refusals change nothing. *)

(* Mutant: an upload leaves alone what is still being processed. *)
UploadKeepingProcessing(w) ==
    /\ nextId <= MaxDocuments
    /\ DeleteRows({d \in DocumentIds : status[d] # "Processing"})
    /\ Begin(w, "create", nextId)
    /\ nextId' = nextId + 1

Upload(w) ==
    /\ nextId <= MaxDocuments
    /\ DeleteRows(DocumentIds)
    /\ Begin(w, "create", nextId)
    /\ nextId' = nextId + 1

(* The request answers here, and its ingestion goes on. *)
CreateDocument(w) ==
    /\ At(w, "create")
    /\ status' = [status EXCEPT ![Doc(w)] = "Processing"]
    /\ Goto(w, "extract")
    /\ UNCHANGED <<nextId, chunks, embedded>>

Retry(w) ==
    /\ \E d \in DocumentIds : status[d] = "Failed" /\ Begin(w, "count", d)
    /\ UNCHANGED <<rows, nextId>>

RetryCount(w) ==
    /\ At(w, "count")
    /\ IF chunks[Doc(w)] = {} THEN End(w) ELSE Goto(w, "process")
    /\ UNCHANGED <<rows, nextId>>

(* Likewise; it fails on a document that is gone. *)
RetryProcess(w) ==
    /\ At(w, "process")
    /\ IF Stored(Doc(w))
         THEN status' = [status EXCEPT ![Doc(w)] = "Processing"] /\ Goto(w, "list")
         ELSE End(w) /\ UNCHANGED status
    /\ UNCHANGED <<nextId, chunks, embedded>>

Delete(w) ==
    /\ \E d \in DocumentIds : Stored(d) /\ Begin(w, "remove", d)
    /\ UNCHANGED <<rows, nextId>>

DeleteDocument(w) ==
    /\ At(w, "remove")
    /\ DeleteRows({Doc(w)})
    /\ End(w)
    /\ UNCHANGED nextId
-------------------------------------------------------------------------------
(* Ingestion.  What throws ends in "failed", the catch. *)

(* The text is chunked; one without chunks throws, a blocked PDF likewise. *)
Extract(w) ==
    /\ At(w, "extract")
    /\ LET drafts == uploads[Doc(w)].drafts
       IN  IF drafts = 0 THEN Goto(w, "failed")
           ELSE job' = [job EXCEPT ![w].at = "clear", ![w].todo = 1 .. drafts]
    /\ UNCHANGED <<rows, nextId>>

(* replaceChunks: out with the old, in with the new, while there is a row  *)
(* they can belong to.                                                     *)
ReplaceDelete(w) ==
    /\ At(w, "clear")
    /\ chunks' = [chunks EXCEPT ![Doc(w)] = {}]
    /\ embedded' = [embedded EXCEPT ![Doc(w)] = {}]
    /\ Goto(w, "chunk")
    /\ UNCHANGED <<status, nextId>>

ReplaceCreate(w) ==
    /\ At(w, "chunk")
    /\ IF Stored(Doc(w))
         THEN /\ chunks' = [chunks EXCEPT ![Doc(w)] = job[w].todo]
              /\ Goto(w, "list")
         ELSE Goto(w, "failed") /\ UNCHANGED chunks
    /\ UNCHANGED <<status, nextId, embedded>>

ListChunks(w) ==
    /\ At(w, "list")
    /\ job' = [job EXCEPT ![w].todo = chunks[Doc(w)],
                          ![w].at = IF chunks[Doc(w)] = {} THEN "ready" ELSE "embed"]
    /\ UNCHANGED <<rows, nextId>>

(* Mutant: the vectors of an answer are not counted; a chunk without one   *)
(* keeps what it has.                                                      *)
EmbedUncounted(w) ==
    /\ At(w, "embed")
    /\ \E vectors \in 1 .. EmbedBatchSize :
         LET asked == FirstOf(job[w].todo, EmbedBatchSize)
         IN  job' = [job EXCEPT ![w].at = "store", ![w].batch = FirstOf(asked, vectors),
                                ![w].todo = job[w].todo \ asked]
    /\ UNCHANGED <<rows, nextId>>

(* One batch to the provider, whose answer must have a vector for each. *)
Embed(w) ==
    /\ At(w, "embed")
    /\ \E vectors \in 0 .. EmbedBatchSize :
         LET asked == FirstOf(job[w].todo, EmbedBatchSize)
         IN  IF vectors = Cardinality(asked)
               THEN job' = [job EXCEPT ![w].at = "store", ![w].batch = asked,
                                       ![w].todo = job[w].todo \ asked]
               ELSE Goto(w, "failed")
    /\ UNCHANGED <<rows, nextId>>

(* A vector of the batch is stored, or its chunk is gone. *)
SetChunkEmbedding(w) ==
    /\ At(w, "store")
    /\ LET now == FirstOf(job[w].batch, 1)
           left == job[w].batch \ now
       IN  IF now \subseteq chunks[Doc(w)]
             THEN /\ embedded' = [embedded EXCEPT ![Doc(w)] = embedded[Doc(w)] \union now]
                  /\ job' = [job EXCEPT ![w].batch = left,
                               ![w].at = IF left # {} THEN "store"
                                         ELSE IF job[w].todo # {} THEN "embed" ELSE "ready"]
             ELSE Goto(w, "failed") /\ UNCHANGED embedded
    /\ UNCHANGED <<status, nextId, chunks>>

SetReady(w) ==
    /\ At(w, "ready")
    /\ IF Stored(Doc(w))
         THEN status' = [status EXCEPT ![Doc(w)] = "Ready"] /\ End(w)
         ELSE Goto(w, "failed") /\ UNCHANGED status
    /\ UNCHANGED <<nextId, chunks, embedded>>

(* Mutant: the catch only logs. *)
CatchAndLog(w) ==
    /\ At(w, "failed")
    /\ End(w)
    /\ UNCHANGED <<rows, nextId>>

(* The catch; that the document is gone is caught once more. *)
SetFailed(w) ==
    /\ At(w, "failed")
    /\ status' = [status EXCEPT ![Doc(w)] = IF Stored(Doc(w)) THEN "Failed" ELSE "absent"]
    /\ End(w)
    /\ UNCHANGED <<nextId, chunks, embedded>>
-------------------------------------------------------------------------------
Request(w) ==
    /\ At(w, "idle")
    /\ Upload(w) \/ Retry(w) \/ Delete(w)
    /\ solo' = (\A v \in Slots \ {w} : job[v].at \notin Handling)
    /\ UNCHANGED <<uploads, lost>>

Step(w) ==
    /\ \/ CreateDocument(w) \/ RetryCount(w) \/ RetryProcess(w) \/ DeleteDocument(w)
       \/ Extract(w) \/ ReplaceDelete(w) \/ ReplaceCreate(w) \/ ListChunks(w)
       \/ Embed(w) \/ SetChunkEmbedding(w) \/ SetReady(w) \/ SetFailed(w)
    /\ UNCHANGED <<uploads, solo, lost>>

(* A call rejects: a handler answers with the error, a job goes to its     *)
(* catch, and a status that even the catch cannot write is lost.           *)
Reject(w) ==
    /\ Outages
    /\ ~At(w, "idle")
    /\ IF job[w].at \in Ingesting \ {"failed"} THEN Goto(w, "failed") ELSE End(w)
    /\ lost' = (lost \/ At(w, "failed"))
    /\ UNCHANGED <<uploads, rows, nextId, solo>>

(* Nothing takes up the jobs of a process that is gone. *)
Restart ==
    /\ Outages
    /\ job' = [w \in Slots |-> NoJob]
    /\ lost' = TRUE
    /\ UNCHANGED <<uploads, rows, nextId, solo>>

IngestionNext == Restart \/ \E w \in Slots : Request(w) \/ Step(w) \/ Reject(w)

(* A request or a job that is parked at a call goes on: the event loop     *)
(* runs every continuation, the database answers, and calls to a provider  *)
(* have a timeout.                                                         *)
IngestionSpec ==
    /\ IngestionInit /\ [][IngestionNext]_ingestionVars
    /\ \A w \in Slots : WF_ingestionVars(Step(w))
-------------------------------------------------------------------------------
(* What the assistant retrieves for a question: of the chunks of the Ready *)
(* documents, those a question can come near to -- one without a vector    *)
(* has similarity 0, below the floor.                                      *)

listReadyChunks ==
    UNION {{[doc |-> d, ordinal |-> c] : c \in chunks[d]} : d \in {e \in DocumentIds : status[e] = "Ready"}}

topKBySimilarity(rated) == {chunk \in rated : chunk.ordinal \in embedded[chunk.doc]}

retrieve == topKBySimilarity(listReadyChunks)
-------------------------------------------------------------------------------
(* Properties *)

(* What retrieval can find of a Ready document is the whole text of its    *)
(* upload, in chunks of the size they were meant to have, and nothing else *)
(* -- whichever of several jobs, failed and retried, said Ready.           *)
ReadySearchable ==
    \A d \in DocumentIds : status[d] = "Ready" =>
        /\ uploads[d].sound /\ uploads[d].drafts > 0
        /\ {chunk.ordinal : chunk \in {r \in retrieve : r.doc = d}} = 1 .. uploads[d].drafts

(* "One active handbook": an upload that no other request crosses leaves   *)
(* only its own document, even while the old one is being ingested.        *)
UploadReplaces ==
    [][\A d \in DocumentIds : solo /\ status[d] = "absent" /\ status'[d] = "Processing"
         => \A e \in DocumentIds \ {d} : status'[e] = "absent"]_ingestionVars

(* Processing ends, in Ready, Failed or a deletion, unless the process or  *)
(* the very write of the outcome was lost.                                 *)
ProcessingEnds ==
    \A d \in DocumentIds : status[d] = "Processing" ~> (status[d] # "Processing" \/ lost)
===============================================================================

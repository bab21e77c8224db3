--------------------------- MODULE PersonalMemory ---------------------------
(***************************************************************************)
(* The long-term memories of one user and the vectors they are found by.   *)
(* A user writes, edits and deletes memories; after a turn of a chat a     *)
(* model names memories to create, confirm or revoke; every change ends in *)
(* an indexing that fetches a vector for the text it has read and stores   *)
(* it in a transaction of its own.                                         *)
(*                                                                         *)
(* The database runs at READ COMMITTED and a transaction is one step here, *)
(* its commit, preceded by a step for what it has read.  Every statement   *)
(* filters on the user.  Importance and confidence follow one rule; weight *)
(* stands for either.  A request may be cut off between its commit and its *)
(* indexing, by a refresh that raises or by the death of the server.       *)
(***************************************************************************)
EXTENDS Naturals, FiniteSets, Functions

CONSTANTS
    Requests,   \* request slots: at most this many requests are open at once
    Memories,   \* identities of memories; the one of a deleted memory is reused
    Kinds,      \* kinds of memories
    Contents,   \* cleaned contents a user or a model writes
    Fold,       \* the normalized form of each content
    Weights,    \* values of importance
    Candidates, \* what users and models write: contents with kind and weight
    Edits,      \* the bodies of PATCH requests
    MaxActions, \* settings.MEMORY_EXTRACTION_MAX_CANDIDATES
    NoMemory, NoContent, Unset

Normalized == Kinds \X {Fold[c] : c \in Contents}
Memory == [kind : Kinds, content : Contents, active : BOOLEAN, weight : Weights]
Edit == [kind : Kinds \cup {Unset}, content : Contents \cup {Unset},
         active : BOOLEAN \cup {Unset}, weight : Weights \cup {Unset}]

ASSUME ContentAssumption ==
    /\ DOMAIN Fold = Contents /\ Weights \subseteq Nat /\ MaxActions \in Nat
    /\ Candidates \subseteq [kind : Kinds, content : Contents, weight : Weights]
ASSUME MarkerAssumption ==
    /\ NoMemory \notin Memory
    /\ NoContent \notin Contents
    /\ Unset \notin Kinds /\ Unset \notin Contents
    /\ Unset \notin BOOLEAN /\ Unset \notin Weights
(* MemoryUpdate.require_change *)
ASSUME EditAssumption ==
    /\ Edits \subseteq Edit
    /\ [kind |-> Unset, content |-> Unset, active |-> Unset, weight |-> Unset]
           \notin Edits

VARIABLES
    memory,    \* the committed row of each memory, or NoMemory
    newer,     \* the pairs of memories of which the first was updated later
    vector,    \* the text of each memory's stored vector, or NoContent
    unindexed, \* memories whose last indexing failed or was cut off
    request    \* what each request is doing and has read

vars == <<memory, newer, vector, unindexed, request>>
indexing == <<vector, unindexed>>

Existing == {m \in Memories : memory[m] # NoMemory}
KeyOf(x) == <<x.kind, Fold[x.content]>>
Key(m) == KeyOf(memory[m])
Active(m) == m \in Existing /\ memory[m].active

(* what the schema lets a model name: contents without a secret, a card    *)
(* number or a citation are the only ones                                  *)
Actions == [creates : SUBSET Candidates, retires : SUBSET Normalized]
(* _parse_extraction_response: at most MaxActions, one for each key, and   *)
(* none both created and revoked; another answer ends the extraction       *)
Answers ==
    {a \in Actions :
        LET keys == {KeyOf(c) : c \in a.creates} IN
        /\ Cardinality(a.creates) + Cardinality(a.retires) \in 1..MaxActions
        /\ \A c, d \in a.creates : KeyOf(c) = KeyOf(d) => c = d
        /\ keys \cap a.retires = {}}

(* a memory has at most one vector of the model in use, with the hash of a text *)
Vector == Contents \cup {NoContent}

Idle == [step |-> "idle"]
Rows(S) == UNION {[D -> Memory] : D \in SUBSET S}
Request ==
    {Idle}
    \cup [step : {"edit"}, id : Memories, loaded : Memory, edit : Edits]
    \cup [step : {"extract"}, answer : Answers,
          rows : Rows(Memories), newer : SUBSET (Memories \X Memories)]
    \cup [step : {"index"}, ids : SUBSET Memories,
          previous : Vector]
    \cup [step : {"embed"},
          texts : UNION {[D -> Contents] : D \in SUBSET Memories}]

TypeOK ==
    /\ memory \in [Memories -> Memory \cup {NoMemory}]
    /\ newer \subseteq Existing \X Existing
    /\ vector \in [Memories -> Vector]
    /\ \A m \in Memories \ Existing : vector[m] = NoContent
    /\ unindexed \subseteq Existing
    /\ request \in [Requests -> Request]

Init ==
    /\ memory = [m \in Memories |-> NoMemory]
    /\ newer = {}
    /\ vector = [m \in Memories |-> NoContent]
    /\ unindexed = {}
    /\ request = [r \in Requests |-> Idle]

Becomes(r, state) == request' = [request EXCEPT ![r] = state]
Index(ids, previous) ==
    IF ids = {} THEN Idle
    ELSE [step |-> "index", ids |-> ids, previous |-> previous]

Among(S) == newer \cap (S \X S)
(* updated_at is written by an UPDATE even when the code does not name it *)
Touched(ids) ==
    Among(ids) \cup Among(Existing \ ids) \cup (ids \X (Existing \ ids))

----------------------------------------------------------------------------
(* The memories the user manages *)

NewRow(c) == [kind |-> c.kind, content |-> c.content, active |-> TRUE,
              weight |-> c.weight]

(* create_memory, and the request goes on to index it *)
CreateMemory(r) ==
    /\ request[r] = Idle
    /\ \E m \in Memories \ Existing, c \in Candidates :
        /\ memory' = [memory EXCEPT ![m] = NewRow(c)]
        /\ newer' = newer \cup ({m} \X Existing)
        /\ Becomes(r, Index({m}, NoContent))
    /\ UNCHANGED indexing

(* the PATCH request loads the row; an absent one is answered with 404 *)
LoadEdit(r) ==
    /\ request[r] = Idle
    /\ \E m \in Existing, e \in Edits :
        Becomes(r, [step |-> "edit", id |-> m, loaded |-> memory[m], edit |-> e])
    /\ UNCHANGED <<memory, newer, indexing>>

(* the UPDATE sets the attributes that differ from the loaded row *)
Assigned(given, loaded, current) ==
    IF given \in {Unset, loaded} THEN current ELSE given
Written(m, q) ==
    [kind    |-> Assigned(q.edit.kind, q.loaded.kind, memory[m].kind),
     content |-> Assigned(q.edit.content, q.loaded.content, memory[m].content),
     active  |-> Assigned(q.edit.active, q.loaded.active, memory[m].active),
     weight  |-> Assigned(q.edit.weight, q.loaded.weight, memory[m].weight)]

(* fault: the comparison is made after the assignment *)
ContentNeverChanged(q) == q.edit.content \notin {Unset, q.edit.content}
(* fault: a text counts as changed when it is given *)
ContentGiven(q) == q.edit.content # Unset

ContentChanged(q) == q.edit.content \notin {Unset, q.loaded.content}

(* update_memory: a new text drops the vectors of the old one, another     *)
(* kind does not                                                           *)
CommitEdit(r) ==
    LET q == request[r] IN
    /\ q.step = "edit"
    /\ q.id \in Existing
    /\ memory' = [memory EXCEPT ![q.id] = Written(q.id, q)]
    /\ newer' = Touched({q.id})
    /\ vector' = IF ContentChanged(q)
                 THEN [vector EXCEPT ![q.id] = NoContent] ELSE vector
    /\ unindexed' = IF ContentChanged(q) THEN unindexed \ {q.id} ELSE unindexed
    /\ Becomes(r, IF q.edit.content = Unset THEN Idle
                  ELSE Index({q.id}, q.loaded.content))

(* the memory was deleted meanwhile and the UPDATE finds no row, the       *)
(* commit fails, or the server dies                                        *)
FailEdit(r) ==
    /\ request[r].step = "edit"
    /\ Becomes(r, Idle)
    /\ UNCHANGED <<memory, newer, indexing>>

(* fault: the vectors of a deleted memory stay *)
DeleteMemoryOnly(m) ==
    /\ m \in Existing
    /\ memory' = [memory EXCEPT ![m] = NoMemory]
    /\ newer' = Among(Existing \ {m})
    /\ unindexed' = unindexed \ {m}
    /\ UNCHANGED <<vector, request>>

(* delete_memory, with its vectors *)
DeleteMemory(m) ==
    /\ m \in Existing
    /\ memory' = [memory EXCEPT ![m] = NoMemory]
    /\ newer' = Among(Existing \ {m})
    /\ vector' = [vector EXCEPT ![m] = NoContent]
    /\ unindexed' = unindexed \ {m}
    /\ UNCHANGED request

----------------------------------------------------------------------------
(* index_memory_embeddings_best_effort *)

(* the memories whose stored hash is not that of their text *)
Pending(ids) == {m \in ids : vector[m] # memory[m].content}

(* the rows are read, in one statement for all; an edit that left the text *)
(* as it was indexes nothing                                               *)
LoadIndex(r) ==
    LET q == request[r] IN
    /\ q.step = "index"
    /\ q.ids \subseteq Existing
    /\ LET changed == {m \in q.ids : memory[m].content # q.previous}
           pending == Pending(changed)
       IN  Becomes(r, IF pending = {} THEN Idle
                      ELSE [step |-> "embed",
                            texts |-> [m \in pending |-> memory[m].content]])
    /\ UNCHANGED <<memory, newer, indexing>>

(* the memories whose vector q is to store *)
Due(q) ==
    CASE q.step = "index" -> {m \in q.ids \cap Existing :
                                 memory[m].content # q.previous}
      [] q.step = "embed" -> DOMAIN q.texts \cap Existing
      [] OTHER -> {}

(* the provider has answered for every text: the old vectors of the model  *)
(* are deleted, the new ones inserted; a refresh that raises afterwards is *)
(* only logged                                                             *)
StoreIndex(r) ==
    LET q == request[r] IN
    /\ q.step = "embed"
    /\ DOMAIN q.texts \subseteq Existing
    /\ vector' = [m \in Memories |->
                     IF m \in DOMAIN q.texts THEN q.texts[m] ELSE vector[m]]
    /\ unindexed' = unindexed \ Due(q)
    /\ Becomes(r, Idle)
    /\ UNCHANGED <<memory, newer>>

(* the provider or the database fails, a concurrent indexing inserted its  *)
(* vectors first, a memory is gone: all is rolled back and logged.  Or a   *)
(* refresh between the commit and the indexing raises, or the server dies: *)
(* no log names an indexing                                                *)
FailIndex(r) ==
    LET q == request[r] IN
    /\ q.step \in {"index", "embed"}
    /\ unindexed' = unindexed \cup Due(q)
    /\ Becomes(r, Idle)
    /\ UNCHANGED <<memory, newer, vector>>

----------------------------------------------------------------------------
(* extract_memories_best_effort *)

KeysOf(a) == a.retires \cup {KeyOf(c) : c \in a.creates}

(* the order in which the rows of one key are returned *)
Ranked(S) == {p \in Among(S) : Key(p[1]) = Key(p[2])}

(* the model has answered and the exact active memories are read *)
ReadActive(r) ==
    /\ request[r] = Idle
    /\ \E a \in Answers :
        LET found == {m \in Existing : Active(m) /\ Key(m) \in KeysOf(a)} IN
        Becomes(r, [step |-> "extract", answer |-> a,
                    rows |-> [m \in found |-> memory[m]],
                    newer |-> Ranked(found)])
    /\ UNCHANGED <<memory, newer, indexing>>

(* _active_exact_memories, of which the most recently updated is kept *)
Found(q, key) == {m \in DOMAIN q.rows : KeyOf(q.rows[m]) = key}
Newest(S, pairs) == {m \in S : \A n \in S : <<n, m>> \notin pairs}
(* fault: the least recently updated one is kept *)
Earliest(q, S) ==
    CHOOSE m \in S : LET oldest == {n \in S : \A k \in S : <<n, k>> \notin q.newer}
                     IN  oldest # {} => m \in oldest
Latest(q, S) ==
    CHOOSE m \in S : Newest(S, q.newer) # {} => m \in Newest(S, q.newer)

Known(q) == {c \in q.answer.creates : Found(q, KeyOf(c)) # {}}
Canonical(q, c) == Latest(q, Found(q, KeyOf(c)))
Duplicates(q) ==
    UNION {Found(q, KeyOf(c)) \ {Canonical(q, c)} : c \in Known(q)}
Revoked(q) == UNION {Found(q, key) : key \in q.answer.retires}
Strengthened(q) ==
    {c \in Known(q) : c.weight > q.rows[Canonical(q, c)].weight}
Inserted(q) == q.answer.creates \ Known(q)
Updated(q) == Duplicates(q) \cup Revoked(q)
                \cup {Canonical(q, c) : c \in Strengthened(q)}

(* the row of m after the UPDATEs of the extraction *)
Extracted(q, m) ==
    [memory[m] EXCEPT
        !.active = @ /\ m \notin Duplicates(q) \cup Revoked(q),
        !.weight = IF \E c \in Strengthened(q) : Canonical(q, c) = m
                   THEN (CHOOSE c \in Strengthened(q) :
                             Canonical(q, c) = m).weight
                   ELSE @]

(* id names the rows of the new memories *)
CommitExtraction(r) ==
    LET q == request[r] IN
    /\ q.step = "extract"
    /\ Updated(q) \subseteq Existing
    /\ \E id \in Injection(Inserted(q), Memories \ Existing) :
        LET new == {id[c] : c \in Inserted(q)}
            candidate(m) == CHOOSE c \in Inserted(q) : id[c] = m
        IN
        /\ memory' = [m \in Memories |->
                CASE m \in new -> NewRow(candidate(m))
                  [] m \in Existing -> Extracted(q, m)
                  [] OTHER -> NoMemory]
        /\ newer' = Touched(Updated(q)) \cup (new \X Existing)
        /\ Becomes(r, Index(new \cup {Canonical(q, c) : c \in Known(q)},
                            NoContent))
    /\ UNCHANGED indexing

(* a row it updates or the message it came from is gone, the commit fails  *)
(* or the server dies: all is rolled back                                  *)
AbandonExtraction(r) ==
    /\ request[r].step = "extract"
    /\ Becomes(r, Idle)
    /\ UNCHANGED <<memory, newer, indexing>>

----------------------------------------------------------------------------
Next ==
    \/ \E r \in Requests :
        \/ CreateMemory(r) \/ LoadEdit(r) \/ CommitEdit(r) \/ FailEdit(r)
        \/ LoadIndex(r) \/ StoreIndex(r) \/ FailIndex(r)
        \/ ReadActive(r) \/ CommitExtraction(r) \/ AbandonExtraction(r)
    \/ \E m \in Memories : DeleteMemory(m)

Spec == Init /\ [][Next]_vars

----------------------------------------------------------------------------
(* Properties *)

(* retrieve_memories_for_user joins a memory with its vector and reads no  *)
(* hash: what a chat can be given, whatever the similarity                 *)
Recallable(m) == Active(m) /\ vector[m] # NoContent

(* An active memory that no chat can recall is being indexed, or the last  *)
(* request that was to index it failed at that or was cut off: however     *)
(* edits, indexings and deletions overlap, none that succeeds drops a      *)
(* memory from recall.                                                     *)
ActiveIsRecallable ==
    \A m \in Memories : Active(m) =>
        \/ Recallable(m) \/ m \in unindexed
        \/ \E r \in Requests : m \in Due(request[r])

Stale(m) == m \in Existing /\ vector[m] \notin {NoContent, memory[m].content}

(* A vector comes to belong to another text than its memory's in one way   *)
(* only: an indexing stores it that had read the text before an edit was   *)
(* committed.  No edit and no extraction leaves one behind by itself.      *)
StaleOnlyByLateStore ==
    [][\A m \in Memories : Stale(m)' /\ ~Stale(m) =>
        \E r \in Requests :
            /\ request[r].step = "embed" /\ m \in DOMAIN request[r].texts
            /\ request[r].texts[m] # memory[m].content
            /\ request'[r] = Idle]_vars

Held(key) == {m \in Existing : Active(m) /\ Key(m) = key}

Commits(r) ==
    /\ request[r].step = "extract" /\ request'[r].step # "extract"
    /\ memory' # memory

(* the memories r would find now are those it has found *)
NothingMoved(r) ==
    LET q == request[r] IN
    /\ \A m \in DOMAIN q.rows : memory[m] = q.rows[m]
    /\ \A key \in KeysOf(q.answer) : Held(key) = Found(q, key)
    /\ Ranked(DOMAIN q.rows) = q.newer

(* An extraction nobody interfered with leaves one active memory of each   *)
(* text the model named, of those there were the one updated last, and     *)
(* none of those it revoked, and leaves the other memories as they are.    *)
ExtractionTakesEffect ==
    [][\A r \in Requests : Commits(r) /\ NothingMoved(r) =>
        \A key \in Normalized :
            \/ key \in request[r].answer.retires /\ Held(key)' = {}
            \/ /\ key \in KeysOf(request[r].answer) \ request[r].answer.retires
               /\ \E m \in Memories :
                      /\ Held(key)' = {m}
                      /\ Newest(Held(key), newer) # {} =>
                             m \in Newest(Held(key), newer)
            \/ key \notin KeysOf(request[r].answer) /\ Held(key)' = Held(key)]_vars
=============================================================================

------------------------ MODULE PersonalMemoryProofs ------------------------
(***************************************************************************)
(* What PersonalMemory promises for any number of requests and memories.   *)
(***************************************************************************)
EXTENDS PersonalMemory, TLAPS

(* the abbreviations are expanded everywhere *)
USE DEF Vector, Actions, indexing

(* What a request holds at each of its steps. *)
LEMMA Shapes ==
    ASSUME NEW q \in Request
    PROVE  /\ q.step = "edit" => /\ q.id \in Memories /\ q.loaded \in Memory
                                 /\ q.edit \in Edits
           /\ q.step = "extract" => q.answer \in Answers /\ q.rows \in Rows(Memories)
           /\ q.step = "index" => /\ q.ids \in SUBSET Memories
                                  /\ q.previous \in Contents \cup {NoContent}
           /\ q.step = "embed" => \E D \in SUBSET Memories : q.texts \in [D -> Contents]
BY DEF Request, Idle

LEMMA RowTypes ==
    ASSUME TypeOK, NEW m \in Existing
    PROVE  m \in Memories /\ memory[m] \in Memory
BY DEF TypeOK, Existing

LEMMA IndexType ==
    ASSUME NEW ids \in SUBSET Memories, NEW p \in Contents \cup {NoContent}
    PROVE  Index(ids, p) \in Request
BY DEF Index, Request

LEMMA NewRowType ==
    ASSUME NEW c \in Candidates
    PROVE  /\ NewRow(c) \in Memory
           /\ NewRow(c).kind = c.kind /\ NewRow(c).content = c.content
           /\ NewRow(c).active /\ NewRow(c).weight = c.weight
           /\ KeyOf(NewRow(c)) = KeyOf(c)
BY ContentAssumption DEF NewRow, Memory, KeyOf

LEMMA CanonicalFound ==
    ASSUME NEW q, NEW c \in Known(q)
    PROVE  Canonical(q, c) \in Found(q, KeyOf(c))
<1> DEFINE S == Found(q, KeyOf(c))
<1>1. S # {}
  BY DEF Known
<1>2. \E m \in S : Newest(S, q.newer) # {} => m \in Newest(S, q.newer)
  BY <1>1 DEF Newest
<1>3. QED
  BY <1>2 DEF Canonical, Latest

LEMMA TypeInit == Init => TypeOK
BY DEF Init, TypeOK, Existing, Idle, Request

LEMMA TypeEdits ==
    ASSUME TypeOK, NEW r \in Requests,
           CreateMemory(r) \/ LoadEdit(r) \/ CommitEdit(r) \/ FailEdit(r)
    PROVE  TypeOK'
<1>1. CASE CreateMemory(r)
  <2>1. PICK m \in Memories \ Existing, c \in Candidates :
            /\ memory' = [memory EXCEPT ![m] = NewRow(c)]
            /\ newer' = newer \cup ({m} \X Existing)
            /\ Becomes(r, Index({m}, NoContent))
    BY <1>1 DEF CreateMemory
  <2> DEFINE new == NewRow(c)
  <2>a. new \in Memory
    BY NewRowType
  <2>3. memory' \in [Memories -> Memory \cup {NoMemory}]
    BY <2>1, <2>a DEF TypeOK
  <2>4. Existing' = Existing \cup {m}
    <3> HIDE DEF new
    <3>1. memory' = [memory EXCEPT ![m] = new] /\ new # NoMemory
      BY <2>1, <2>a, MarkerAssumption DEF new
    <3>2. QED
      BY <3>1 DEF TypeOK, Existing
  <2>5. Index({m}, NoContent) \in Request
    BY IndexType
  <2>6. request' \in [Requests -> Request]
    BY <2>1, <2>5 DEF TypeOK, Becomes
  <2>7. QED
    BY <1>1, <2>1, <2>3, <2>4, <2>6 DEF CreateMemory, TypeOK
<1>2. CASE LoadEdit(r)
  <2>1. PICK m \in Existing, e \in Edits :
            Becomes(r, [step |-> "edit", id |-> m, loaded |-> memory[m], edit |-> e])
    BY <1>2 DEF LoadEdit
  <2>2. [step |-> "edit", id |-> m, loaded |-> memory[m], edit |-> e] \in Request
    BY RowTypes DEF Request
  <2>3. QED
    BY <1>2, <2>1, <2>2 DEF LoadEdit, TypeOK, Becomes, Existing
<1>3. CASE CommitEdit(r)
  <2> DEFINE q == request[r]
  <2>1. /\ q \in Request /\ q.step = "edit" /\ q.id \in Existing
        /\ memory' = [memory EXCEPT ![q.id] = Written(q.id, q)]
        /\ newer' = Touched({q.id})
        /\ vector' = IF ContentChanged(q)
                     THEN [vector EXCEPT ![q.id] = NoContent] ELSE vector
        /\ Becomes(r, IF q.edit.content = Unset THEN Idle
                      ELSE Index({q.id}, q.loaded.content))
        /\ unindexed' = IF ContentChanged(q) THEN unindexed \ {q.id} ELSE unindexed
    BY <1>3 DEF CommitEdit, TypeOK
  <2>2. /\ q.id \in Memories /\ memory[q.id] \in Memory
        /\ q.loaded \in Memory /\ q.edit \in Edits
    BY <2>1, Shapes, RowTypes
  <2>3. q.edit \in Edit
    BY <2>2, EditAssumption
  <2>4. Written(q.id, q) \in Memory
    BY <2>2, <2>3 DEF Written, Assigned, Edit, Memory
  <2>5. memory' \in [Memories -> Memory \cup {NoMemory}] /\ Existing' = Existing
    BY <2>1, <2>4, MarkerAssumption DEF TypeOK, Existing
  <2>6. Index({q.id}, q.loaded.content) \in Request /\ Idle \in Request
    BY <2>2, IndexType DEF Memory, Request
  <2>7. request' \in [Requests -> Request]
    BY <2>1, <2>6 DEF TypeOK, Becomes
  <2>8. newer' \subseteq Existing \X Existing
    BY <2>1 DEF Touched, Among, TypeOK
  <2>9. /\ vector' \in [Memories -> Contents \cup {NoContent}]
        /\ \A m \in Memories \ Existing : vector'[m] = NoContent
    BY <2>1, <2>2 DEF TypeOK
  <2>10. QED
    BY <2>1, <2>5, <2>7, <2>8, <2>9 DEF TypeOK
<1>4. CASE FailEdit(r)
  BY <1>4 DEF FailEdit, TypeOK, Becomes, Request, Existing
<1>5. QED
  BY <1>1, <1>2, <1>3, <1>4

LEMMA TypeDelete ==
    ASSUME TypeOK, NEW m \in Memories, DeleteMemory(m)
    PROVE  TypeOK'
<1>1. /\ m \in Existing /\ memory' = [memory EXCEPT ![m] = NoMemory]
      /\ newer' = Among(Existing \ {m})
      /\ vector' = [vector EXCEPT ![m] = NoContent]
      /\ unindexed' = unindexed \ {m} /\ request' = request
  BY DEF DeleteMemory
<1>2. Existing' = Existing \ {m}
  BY <1>1 DEF TypeOK, Existing
<1>3. newer' \subseteq (Existing \ {m}) \X (Existing \ {m})
  BY <1>1 DEF Among
<1>4. QED
  BY <1>1, <1>2, <1>3 DEF TypeOK

LEMMA TypeIndexing ==
    ASSUME TypeOK, NEW r \in Requests,
           LoadIndex(r) \/ StoreIndex(r) \/ FailIndex(r)
    PROVE  TypeOK'
<1> DEFINE q == request[r]
<1>0. q \in Request /\ Idle \in Request
  BY DEF TypeOK, Request
<1>1. CASE LoadIndex(r)
  <2> DEFINE changed == {m \in q.ids : memory[m].content # q.previous}
             next == IF Pending(changed) = {} THEN Idle
                     ELSE [step |-> "embed",
                           texts |-> [m \in Pending(changed) |-> memory[m].content]]
  <2>1. /\ Becomes(r, next) /\ q.ids \subseteq Existing
        /\ UNCHANGED <<memory, newer, indexing>>
    BY <1>1 DEF LoadIndex
  <2>2. Pending(changed) \subseteq Existing
    BY <2>1 DEF Pending
  <2>3. [m \in Pending(changed) |-> memory[m].content] \in [Pending(changed) -> Contents]
    BY <2>2, RowTypes DEF Memory
  <2>4. Pending(changed) \in SUBSET Memories
    BY <2>2 DEF Existing
  <2>5. next \in Request
    <3>1. ASSUME NEW D \in SUBSET Memories, NEW t \in [D -> Contents]
          PROVE  [step |-> "embed", texts |-> t] \in Request
      BY DEF Request
    <3>2. [step |-> "embed", texts |-> [m \in Pending(changed) |-> memory[m].content]]
              \in Request
      BY <3>1, <2>3, <2>4
    <3>3. QED
      BY <3>2, <1>0
  <2> HIDE DEF next
  <2>6. request' \in [Requests -> Request]
    BY <2>1, <2>5 DEF Becomes, TypeOK
  <2>7. QED
    BY <2>1, <2>6 DEF TypeOK, Existing
<1>3. CASE StoreIndex(r)
  <2>1. PICK D \in SUBSET Memories : q.texts \in [D -> Contents]
    BY <1>0, <1>3, Shapes DEF StoreIndex
  <2>2. /\ D \subseteq Existing /\ UNCHANGED <<memory, newer>>
        /\ vector' = [m \in Memories |-> IF m \in D THEN q.texts[m] ELSE vector[m]]
        /\ unindexed' = unindexed \ Due(q) /\ Becomes(r, Idle)
    BY <1>3, <2>1 DEF StoreIndex
  <2>3. /\ vector' \in [Memories -> Contents \cup {NoContent}]
        /\ \A m \in Memories \ Existing : vector'[m] = NoContent
    BY <2>1, <2>2 DEF TypeOK
  <2>4. QED
    BY <1>0, <2>2, <2>3 DEF TypeOK, Becomes, Existing
<1>4. CASE FailIndex(r)
  BY <1>0, <1>4 DEF FailIndex, Due, TypeOK, Becomes, Existing
<1>5. QED
  BY <1>1, <1>3, <1>4

LEMMA ExtractedType ==
    ASSUME TypeOK, NEW q \in Request, q.answer \in Answers, NEW m \in Existing
    PROVE  Extracted(q, m) \in Memory
<1> DEFINE w == IF \E c \in Strengthened(q) : Canonical(q, c) = m
                THEN (CHOOSE c \in Strengthened(q) : Canonical(q, c) = m).weight
                ELSE memory[m].weight
           b == memory[m].active /\ m \notin Duplicates(q) \cup Revoked(q)
<1>1. memory[m] \in Memory
  BY RowTypes
<1>2. \A c \in Strengthened(q) : c.weight \in Weights
  BY ContentAssumption DEF Strengthened, Known, Answers
<1>3. w \in Weights
  BY <1>1, <1>2 DEF Memory
<1>4. b \in BOOLEAN
  OBVIOUS
<1>5. Extracted(q, m) = [memory[m] EXCEPT !.active = b, !.weight = w]
  BY <1>1 DEF Extracted, Memory
<1> HIDE DEF w, b
<1>6. QED
  BY <1>1, <1>3, <1>4, <1>5 DEF Memory

LEMMA TypeExtraction ==
    ASSUME TypeOK, NEW r \in Requests,
           ReadActive(r) \/ CommitExtraction(r) \/ AbandonExtraction(r)
    PROVE  TypeOK'
<1>1. CASE ReadActive(r)
  <2>1. PICK a \in Answers :
            LET found == {m \in Existing : Active(m) /\ Key(m) \in KeysOf(a)} IN
            Becomes(r, [step |-> "extract", answer |-> a,
                        rows |-> [m \in found |-> memory[m]],
                        newer |-> Ranked(found)])
    BY <1>1 DEF ReadActive
  <2> DEFINE found == {m \in Existing : Active(m) /\ Key(m) \in KeysOf(a)}
  <2>2. found \in SUBSET Memories /\ [m \in found |-> memory[m]] \in [found -> Memory]
    BY RowTypes DEF Existing
  <2>3. [m \in found |-> memory[m]] \in Rows(Memories)
    BY <2>2 DEF Rows
  <2>4. Ranked(found) \in SUBSET (Memories \X Memories)
    BY <2>2 DEF Ranked, Among
  <2> DEFINE rows == [m \in found |-> memory[m]]
             pairs == Ranked(found)
  <2>5. [step |-> "extract", answer |-> a, rows |-> rows, newer |-> pairs] \in Request
    <3> HIDE DEF rows, pairs
    <3>1. rows \in Rows(Memories) /\ pairs \in SUBSET (Memories \X Memories)
      BY <2>3, <2>4 DEF rows, pairs
    <3>2. QED
      BY <3>1 DEF Request
  <2>6. request' \in [Requests -> Request]
    BY <2>1, <2>5 DEF Becomes, TypeOK
  <2>7. QED
    BY <1>1, <2>6 DEF ReadActive, TypeOK, Existing
<1>2. CASE CommitExtraction(r)
  <2> DEFINE q == request[r]
  <2>1. q \in Request /\ q.answer \in Answers /\ q.rows \in Rows(Memories)
    BY <1>2, Shapes DEF CommitExtraction, TypeOK
  <2>2. PICK id \in Injection(Inserted(q), Memories \ Existing) :
            LET new == {id[c] : c \in Inserted(q)}
                candidate(m) == CHOOSE c \in Inserted(q) : id[c] = m
            IN
            /\ memory' = [m \in Memories |->
                    CASE m \in new -> NewRow(candidate(m))
                      [] m \in Existing -> Extracted(q, m)
                      [] OTHER -> NoMemory]
            /\ newer' = Touched(Updated(q)) \cup (new \X Existing)
            /\ Becomes(r, Index(new \cup {Canonical(q, c) : c \in Known(q)},
                                NoContent))
    BY <1>2 DEF CommitExtraction
  <2> DEFINE new == {id[c] : c \in Inserted(q)}
             candidate(m) == CHOOSE c \in Inserted(q) : id[c] = m
             row(m) == NewRow(candidate(m))
  <2>3. q.answer.creates \subseteq Candidates
    BY <2>1 DEF Answers
  <2>5. new \subseteq Memories \ Existing
    BY <2>2 DEF Injection
  <2>6. ASSUME NEW m \in new PROVE row(m) \in Memory
    <3>1. candidate(m) \in Inserted(q)
      BY <2>6
    <3>2. QED
      BY <3>1, <2>3, NewRowType DEF Inserted
  <2>7. \A m \in Existing : Extracted(q, m) \in Memory
    BY <2>1, ExtractedType
  <2>8. /\ \A m \in new : memory'[m] = row(m)
        /\ \A m \in Existing : memory'[m] = Extracted(q, m)
        /\ \A m \in Memories \ (new \cup Existing) : memory'[m] = NoMemory
        /\ memory' = [m \in Memories |-> memory'[m]]
    <3> HIDE DEF row, candidate
    <3>1. memory' = [m \in Memories |-> CASE m \in new -> row(m)
                                          [] m \in Existing -> Extracted(q, m)
                                          [] OTHER -> NoMemory]
      BY <2>2 DEF row, candidate
    <3>2. Existing \subseteq Memories /\ new \cap Existing = {} /\ new \subseteq Memories
      BY <2>5 DEF Existing
    <3> HIDE DEF new
    <3>3. QED
      BY <3>1, <3>2
  <2> HIDE DEF row
  <2>9. memory' \in [Memories -> Memory \cup {NoMemory}]
    BY <2>5, <2>6, <2>7, <2>8
  <2>10. Existing' = Existing \cup new
    <3>1. Existing' = {m \in Memories : memory'[m] # NoMemory}
      BY DEF Existing
    <3>2. Existing \subseteq Memories
      BY DEF Existing
    <3> HIDE DEF new
    <3>3. QED
      BY <2>5, <2>6, <2>7, <2>8, <3>1, <3>2, MarkerAssumption
  <2>11. newer' \subseteq Existing' \X Existing'
    <3>1. Touched(Updated(q)) \subseteq Existing \X Existing
      <4>1. Updated(q) \subseteq Existing
        BY <1>2 DEF CommitExtraction
      <4>2. QED
        BY <4>1 DEF Touched, Among, TypeOK
    <3>2. newer' = Touched(Updated(q)) \cup (new \X Existing)
      BY <2>2
    <3> HIDE DEF new
    <3>3. QED
      BY <3>1, <3>2, <2>10
  <2>12. {Canonical(q, c) : c \in Known(q)} \subseteq Memories
    <3>1. \A key : Found(q, key) \subseteq Memories
      BY <2>1 DEF Found, Rows
    <3>2. QED
      BY <3>1, CanonicalFound
  <2>13. request' \in [Requests -> Request]
    <3> DEFINE ids == new \cup {Canonical(q, c) : c \in Known(q)}
    <3>1. Becomes(r, Index(ids, NoContent))
      BY <2>2
    <3>2. Index(ids, NoContent) \in Request
      BY <2>5, <2>12, IndexType
    <3> HIDE DEF ids
    <3>3. QED
      BY <3>1, <3>2 DEF TypeOK, Becomes
  <2>14. UNCHANGED <<vector, unindexed>>
    BY <1>2 DEF CommitExtraction
  <2> HIDE DEF new
  <2>15. QED
    BY <2>9, <2>10, <2>11, <2>13, <2>14 DEF TypeOK
<1>3. CASE AbandonExtraction(r)
  BY <1>3 DEF AbandonExtraction, TypeOK, Becomes, Request, Existing
<1>4. QED
  BY <1>1, <1>2, <1>3

LEMMA TypeStep == TypeOK /\ [Next]_vars => TypeOK'
<1> SUFFICES ASSUME TypeOK, [Next]_vars PROVE TypeOK'
  OBVIOUS
<1>1. CASE UNCHANGED vars
  BY <1>1 DEF vars, TypeOK, Existing
<1>2. CASE \E m \in Memories : DeleteMemory(m)
  BY <1>2, TypeDelete
<1>3. CASE \E r \in Requests : \/ CreateMemory(r) \/ LoadEdit(r)
                               \/ CommitEdit(r) \/ FailEdit(r)
  BY <1>3, TypeEdits
<1>4. CASE \E r \in Requests : \/ LoadIndex(r)
                               \/ StoreIndex(r) \/ FailIndex(r)
  BY <1>4, TypeIndexing
<1>5. CASE \E r \in Requests : \/ ReadActive(r) \/ CommitExtraction(r)
                               \/ AbandonExtraction(r)
  BY <1>5, TypeExtraction
<1>6. QED
  BY <1>1, <1>2, <1>3, <1>4, <1>5 DEF Next

(* The rows, vectors and requests keep their types. *)
THEOREM TypeCorrect == Spec => []TypeOK
<1>1. QED
  BY TypeInit, TypeStep, PTL DEF Spec

----------------------------------------------------------------------------
(* Recall *)

(* m is among the memories Due to r *)
Indexing(r, m) ==
    LET q == request[r] IN
    \/ q.step = "index" /\ m \in q.ids /\ memory[m].content # q.previous
    \/ q.step = "embed" /\ m \in DOMAIN q.texts

LEMMA IndexingIsDue ==
    ASSUME NEW r \in Requests, NEW m \in Existing
    PROVE  Indexing(r, m) <=> m \in Due(request[r])
BY DEF Indexing, Due

(* What ActiveIsRecallable says of one memory, used or not. *)
Covered(m) ==
    vector[m] # NoContent \/ m \in unindexed \/ \E r \in Requests : Indexing(r, m)
AllCovered == \A m \in Existing : Covered(m)

LEMMA CoverEdits ==
    ASSUME TypeOK, AllCovered, NEW r \in Requests,
           CreateMemory(r) \/ LoadEdit(r) \/ CommitEdit(r) \/ FailEdit(r)
    PROVE  AllCovered'
<1>1. CASE CreateMemory(r)
  <2>1. PICK m \in Memories \ Existing, c \in Candidates :
            /\ memory' = [memory EXCEPT ![m] = NewRow(c)]
            /\ Becomes(r, Index({m}, NoContent))
    BY <1>1 DEF CreateMemory
  <2>2. request[r].step = "idle" /\ UNCHANGED <<vector, unindexed>>
    BY <1>1 DEF CreateMemory, Idle
  <2>3. /\ request'[r] = [step |-> "index", ids |-> {m}, previous |-> NoContent]
        /\ \A s \in Requests : s # r => request'[s] = request[s]
    BY <2>1 DEF Becomes, Index, TypeOK
  <2>4. memory'[m].content \in Contents
    BY <2>1, NewRowType DEF TypeOK, Memory
  <2>5. Covered(m)'
    BY <2>3, <2>4, MarkerAssumption DEF Covered, Indexing
  <2>6. ASSUME NEW n \in Existing, n # m PROVE Covered(n)'
    <3>1. Covered(n) /\ memory'[n] = memory[n]
      BY <2>1, <2>6 DEF AllCovered, TypeOK, Existing
    <3>2. QED
      BY <3>1, <2>2, <2>3 DEF Covered, Indexing
  <2>7. Existing' \subseteq Existing \cup {m}
    BY <2>1 DEF Existing, TypeOK
  <2>8. QED
    BY <2>5, <2>6, <2>7 DEF AllCovered
<1>2. CASE CommitEdit(r)
  <2> DEFINE q == request[r]
  <2>1. /\ q.step = "edit" /\ q.id \in Existing
        /\ memory' = [memory EXCEPT ![q.id] = Written(q.id, q)]
        /\ vector' = IF ContentChanged(q)
                     THEN [vector EXCEPT ![q.id] = NoContent] ELSE vector
        /\ Becomes(r, IF q.edit.content = Unset THEN Idle
                      ELSE Index({q.id}, q.loaded.content))
        /\ unindexed' = IF ContentChanged(q) THEN unindexed \ {q.id} ELSE unindexed
    BY <1>2 DEF CommitEdit
  <2>2. PICK m \in Existing : m = q.id
    BY <2>1
  <2>3. m \in Memories /\ \A s \in Requests : s # r => request'[s] = request[s]
    BY <2>1 DEF TypeOK, Becomes, Existing
  <2>4. Existing' \subseteq Existing
    BY <2>1, <2>2, <2>3 DEF TypeOK, Existing
  <2>5. ASSUME NEW n \in Existing, n # m PROVE Covered(n)'
    <3>1. Covered(n) /\ memory'[n] = memory[n] /\ vector'[n] = vector[n]
      BY <2>1, <2>2, <2>5 DEF AllCovered, TypeOK, Existing
    <3>2. n \in unindexed => n \in unindexed'
      BY <2>1, <2>2, <2>5
    <3> HIDE DEF q
    <3>3. request[r].step = "edit"
      BY <2>1 DEF q
    <3>4. QED
      BY <3>1, <3>2, <3>3, <2>3 DEF Covered, Indexing
  <2>6. CASE ContentChanged(q)
    <3>1. /\ q.edit.content # Unset /\ q.edit.content # q.loaded.content
          /\ memory'[m].content = q.edit.content
      BY <2>1, <2>2, <2>3, <2>6 DEF ContentChanged, TypeOK, Written, Assigned
    <3>2. request'[r] = [step |-> "index", ids |-> {m}, previous |-> q.loaded.content]
      BY <2>1, <2>2, <3>1 DEF Becomes, TypeOK, Index
    <3>3. Indexing(r, m)'
      BY <3>1, <3>2 DEF Indexing
    <3>4. Covered(m)'
      BY <3>3 DEF Covered
    <3>5. QED
      BY <3>4, <2>4, <2>5 DEF AllCovered
  <2>7. CASE ~ContentChanged(q)
    <3>1. memory'[m].content = memory[m].content /\ vector' = vector
      BY <2>1, <2>2, <2>3, <2>7 DEF ContentChanged, TypeOK, Written, Assigned
    <3>2. Covered(m)
      BY <2>2 DEF AllCovered
    <3>3. Covered(m)'
      <4>1. unindexed' = unindexed /\ request[r].step = "edit"
        BY <2>1, <2>7
      <4> HIDE DEF q
      <4>2. QED
        BY <2>3, <3>1, <3>2, <4>1 DEF Covered, Indexing
    <3>4. QED
      BY <3>3, <2>4, <2>5 DEF AllCovered
  <2>8. QED
    BY <2>6, <2>7
<1>3. CASE LoadEdit(r) \/ FailEdit(r)
  <2>1. /\ request[r].step \in {"idle", "edit"} /\ UNCHANGED <<memory, vector, unindexed>>
        /\ \A s \in Requests : s # r => request'[s] = request[s]
    BY <1>3 DEF LoadEdit, FailEdit, Becomes, TypeOK, Idle
  <2>2. ASSUME NEW n \in Existing PROVE Covered(n)'
    BY <2>1, <2>2 DEF Covered, Indexing, AllCovered
  <2>3. QED
    BY <2>1, <2>2 DEF AllCovered, Existing
<1>4. QED
  BY <1>1, <1>2, <1>3

LEMMA CoverIndexing ==
    ASSUME TypeOK, AllCovered, NEW r \in Requests,
           LoadIndex(r) \/ StoreIndex(r) \/ FailIndex(r)
    PROVE  AllCovered'
<1> DEFINE q == request[r]
<1>1. /\ q \in Request /\ memory' = memory /\ Existing' = Existing
      /\ \A s \in Requests : s # r => request'[s] = request[s]
  BY DEF LoadIndex, StoreIndex, FailIndex, Becomes, TypeOK, Existing
<1>2. CASE LoadIndex(r)
  <2> DEFINE changed == {m \in q.ids : memory[m].content # q.previous}
  <2>1. /\ q.step = "index" /\ UNCHANGED <<vector, unindexed>>
        /\ Becomes(r, IF Pending(changed) = {} THEN Idle
                      ELSE [step |-> "embed",
                            texts |-> [m \in Pending(changed) |-> memory[m].content]])
    BY <1>2 DEF LoadIndex
  <2>2. ASSUME NEW n \in Existing PROVE Covered(n)'
    <3>1. CASE n \in Pending(changed)
      <4>1. request'[r] = [step |-> "embed",
                           texts |-> [m \in Pending(changed) |-> memory[m].content]]
        BY <2>1, <3>1 DEF Becomes, TypeOK
      <4>2. Indexing(r, n)'
        BY <4>1, <3>1 DEF Indexing
      <4>3. QED
        BY <4>2 DEF Covered
    <3>2. CASE n \notin Pending(changed)
      <4>1. vector[n] # NoContent \/ ~Indexing(r, n)
        <5>1. memory[n].content \in Contents
          BY RowTypes DEF Memory
        <5>2. QED
          BY <2>1, <3>2, <5>1, MarkerAssumption DEF Pending, Indexing
      <4>2. Covered(n)
        BY DEF AllCovered
      <4>3. QED
        BY <1>1, <2>1, <4>1, <4>2 DEF Covered, Indexing
    <3>3. QED
      BY <3>1, <3>2
  <2>3. QED
    BY <1>1, <2>2 DEF AllCovered
<1>4. CASE StoreIndex(r)
  <2>1. PICK D \in SUBSET Memories : q.texts \in [D -> Contents]
    BY <1>1, <1>4, Shapes DEF StoreIndex
  <2>2. /\ q.step = "embed" /\ unindexed' = unindexed \ (D \cap Existing)
        /\ vector' = [m \in Memories |-> IF m \in D THEN q.texts[m] ELSE vector[m]]
    BY <1>4, <2>1 DEF StoreIndex, Due
  <2>3. ASSUME NEW n \in Existing PROVE Covered(n)'
    <3>1. n \in Memories /\ Covered(n)
      BY DEF AllCovered, Existing
    <3>2. CASE n \in D
      BY <2>1, <2>2, <3>1, <3>2, MarkerAssumption DEF Covered
    <3>3. CASE n \notin D
      BY <1>1, <2>1, <2>2, <3>1, <3>3 DEF Covered, Indexing
    <3>4. QED
      BY <3>2, <3>3
  <2>4. QED
    BY <1>1, <2>3 DEF AllCovered
<1>5. CASE FailIndex(r)
  <2>1. vector' = vector /\ unindexed' = unindexed \cup Due(q)
    BY <1>5 DEF FailIndex
  <2>2. ASSUME NEW n \in Existing PROVE Covered(n)'
    <3>1. Covered(n) /\ (Indexing(r, n) => n \in Due(q))
      BY IndexingIsDue DEF AllCovered
    <3>2. QED
      BY <1>1, <2>1, <3>1 DEF Covered, Indexing
  <2>3. QED
    BY <1>1, <2>2 DEF AllCovered
<1>6. QED
  BY <1>2, <1>4, <1>5

(* The rows a committed extraction leaves: new ones, and the old ones with *)
(* the texts they had.                                                     *)
LEMMA ExtractionRows ==
    ASSUME TypeOK, NEW r \in Requests, CommitExtraction(r)
    PROVE  \E new \in SUBSET (Memories \ Existing), kept \in SUBSET Memories :
               /\ Existing' = Existing \cup new
               /\ \A m \in Existing :
                      /\ memory'[m].content = memory[m].content
                      /\ KeyOf(memory'[m]) = KeyOf(memory[m])
                      /\ memory'[m] = Extracted(request[r], m)
               /\ \A m \in new : \E c \in Inserted(request[r]) :
                      memory'[m] = NewRow(c)
               /\ \A c \in Inserted(request[r]) : \E m \in new :
                      memory'[m] = NewRow(c)
               /\ \A m, n \in new, c \in Inserted(request[r]) :
                      memory'[m] = NewRow(c) /\ memory'[n] = NewRow(c) => m = n
               /\ request' = [request EXCEPT ![r] = Index(new \cup kept, NoContent)]
<1> DEFINE q == request[r]
<1>1. PICK id \in Injection(Inserted(q), Memories \ Existing) :
          LET new == {id[c] : c \in Inserted(q)}
              candidate(m) == CHOOSE c \in Inserted(q) : id[c] = m
          IN
          /\ memory' = [m \in Memories |->
                  CASE m \in new -> NewRow(candidate(m))
                    [] m \in Existing -> Extracted(q, m)
                    [] OTHER -> NoMemory]
          /\ newer' = Touched(Updated(q)) \cup (new \X Existing)
          /\ Becomes(r, Index(new \cup {Canonical(q, c) : c \in Known(q)},
                              NoContent))
  BY DEF CommitExtraction
<1> DEFINE new == {id[c] : c \in Inserted(q)}
           kept == {Canonical(q, c) : c \in Known(q)}
           candidate(m) == CHOOSE c \in Inserted(q) : id[c] = m
           row(c) == NewRow(c)
<1>2. /\ q \in Request /\ q.step = "extract" /\ q.answer \in Answers
      /\ q.rows \in Rows(Memories)
  BY Shapes DEF CommitExtraction, TypeOK
<1>3. new \in SUBSET (Memories \ Existing) /\ Existing \subseteq Memories
  BY <1>1 DEF Injection, Existing
<1>4. kept \in SUBSET Memories
  <2>1. \A key : Found(q, key) \subseteq Memories
    BY <1>2 DEF Found, Rows
  <2>2. QED
    BY <2>1, CanonicalFound
<1>5. \A c \in Inserted(q) : candidate(id[c]) = c
  <2>1. \A c, d \in Inserted(q) : id[c] = id[d] => c = d
    BY <1>1 DEF Injection, IsInjective
  <2>2. QED
    BY <2>1
<1>6. /\ \A m \in new : memory'[m] = row(candidate(m))
      /\ \A m \in Existing : memory'[m] = Extracted(q, m)
      /\ \A m \in Memories \ (new \cup Existing) : memory'[m] = NoMemory
  <2>1. memory' = [m \in Memories |-> CASE m \in new -> row(candidate(m))
                                        [] m \in Existing -> Extracted(q, m)
                                        [] OTHER -> NoMemory]
    BY <1>1
  <2> HIDE DEF row, candidate, new
  <2>2. QED
    BY <2>1, <1>3
<1>7. \A c \in Inserted(q) : id[c] \in new /\ memory'[id[c]] = row(c)
  BY <1>5, <1>6
<1>8. \A m \in Existing : /\ memory'[m].content = memory[m].content
                         /\ KeyOf(memory'[m]) = KeyOf(memory[m])
  <2> SUFFICES ASSUME NEW m \in Existing
               PROVE  /\ memory'[m].content = memory[m].content
                      /\ KeyOf(memory'[m]) = KeyOf(memory[m])
    OBVIOUS
  <2>1. memory[m] \in Memory /\ memory'[m] = Extracted(q, m)
    BY <1>6, RowTypes
  <2>2. Extracted(q, m).content = memory[m].content
    BY <2>1 DEF Extracted, Memory
  <2>3. Extracted(q, m).kind = memory[m].kind
    BY <2>1 DEF Extracted, Memory
  <2>4. QED
    BY <2>1, <2>2, <2>3 DEF KeyOf
<1>9. \A m \in new : \E c \in Inserted(q) : m = id[c] /\ memory'[m] = row(c)
  <2>1. ASSUME NEW m \in new PROVE \E c \in Inserted(q) : m = id[c]
    BY <2>1
  <2> HIDE DEF new, row
  <2>2. QED
    BY <1>7, <2>1
<1>10. \A c, d \in Inserted(q) : row(c) = row(d) => c = d
  <2> SUFFICES ASSUME NEW c \in Inserted(q), NEW d \in Inserted(q), row(c) = row(d)
               PROVE  c = d
    OBVIOUS
  <2>1. c \in q.answer.creates /\ d \in q.answer.creates
    BY DEF Inserted
  <2>2. c \in Candidates /\ d \in Candidates
    BY <1>2, <2>1 DEF Answers
  <2>3. KeyOf(c) = KeyOf(d)
    BY <2>2, NewRowType
  <2>4. QED
    BY <1>2, <2>1, <2>3 DEF Answers
<1>11. \A m, n \in new, c \in Inserted(q) :
          memory'[m] = row(c) /\ memory'[n] = row(c) => m = n
  <2> SUFFICES ASSUME NEW m \in new, NEW n \in new, NEW c \in Inserted(q),
                      memory'[m] = row(c), memory'[n] = row(c)
               PROVE  m = n
    OBVIOUS
  <2>1. PICK d \in Inserted(q) : m = id[d] /\ memory'[m] = row(d)
    BY <1>9
  <2>2. PICK e \in Inserted(q) : n = id[e] /\ memory'[n] = row(e)
    BY <1>9
  <2>3. d = c /\ e = c
    BY <2>1, <2>2, <1>10
  <2>4. QED
    BY <2>1, <2>2, <2>3
<1>12. Existing' = Existing \cup new
  <2>1. ASSUME NEW m \in new PROVE memory'[m] \in Memory
    <3>1. PICK c \in Inserted(q) : memory'[m] = row(c)
      BY <2>1, <1>9
    <3>2. c \in Candidates
      BY <1>2 DEF Answers, Inserted
    <3>3. QED
      BY <3>1, <3>2, NewRowType
  <2>2. ASSUME NEW m \in Existing PROVE memory'[m] # NoMemory
    <3>1. TypeOK'
      BY TypeExtraction
    <3>2. memory[m] \in Memory /\ m \in Memories
      BY <2>2, RowTypes
    <3>3. memory'[m] \in Memory
      <4>1. memory'[m] = Extracted(q, m)
        BY <2>2, <1>6
      <4>2. m \in Existing
        BY <2>2
      <4>3. QED
        BY <4>1, <4>2, ExtractedType, <1>2
    <3>4. QED
      BY <3>3, MarkerAssumption
  <2>3. Existing' = {m \in Memories : memory'[m] # NoMemory}
    BY DEF Existing
  <2> HIDE DEF new
  <2>4. QED
    BY <1>3, <1>6, <2>1, <2>2, <2>3, MarkerAssumption
<1>13. request' = [request EXCEPT ![r] = Index(new \cup kept, NoContent)]
  BY <1>1 DEF Becomes
<1> HIDE DEF new, kept, candidate
<1>14. \A m \in new : \E c \in Inserted(q) : memory'[m] = row(c)
  BY <1>9
<1>15. \A c \in Inserted(q) : \E m \in new : memory'[m] = row(c)
  BY <1>7
<1>16. QED
  BY <1>3, <1>4, <1>6, <1>8, <1>11, <1>12, <1>13, <1>14, <1>15

LEMMA CoverExtraction ==
    ASSUME TypeOK, AllCovered, NEW r \in Requests,
           ReadActive(r) \/ CommitExtraction(r) \/ AbandonExtraction(r)
    PROVE  AllCovered'
<1>1. /\ request[r].step \in {"idle", "extract"} /\ UNCHANGED <<vector, unindexed>>
      /\ \A s \in Requests : s # r => request'[s] = request[s]
  <2>1. CASE ReadActive(r)
    BY <2>1 DEF ReadActive, Becomes, TypeOK, Idle
  <2>2. CASE CommitExtraction(r)
    <3>1. \E state : Becomes(r, state)
      BY <2>2 DEF CommitExtraction
    <3>2. request[r].step = "extract" /\ UNCHANGED <<vector, unindexed>>
      BY <2>2 DEF CommitExtraction
    <3>3. QED
      BY <3>1, <3>2 DEF Becomes, TypeOK
  <2>3. CASE AbandonExtraction(r)
    BY <2>3 DEF AbandonExtraction, Becomes, TypeOK
  <2>4. QED
    BY <2>1, <2>2, <2>3
<1>2. ASSUME NEW n \in Existing, memory'[n].content = memory[n].content
      PROVE  Covered(n)'
  <2>1. Covered(n)
    BY DEF AllCovered
  <2>2. QED
    BY <1>1, <1>2, <2>1 DEF Covered, Indexing
<1>3. CASE CommitExtraction(r)
  <2>1. PICK new \in SUBSET (Memories \ Existing), kept \in SUBSET Memories :
               /\ Existing' = Existing \cup new
               /\ \A m \in Existing :
                      /\ memory'[m].content = memory[m].content
                      /\ KeyOf(memory'[m]) = KeyOf(memory[m])
                      /\ memory'[m] = Extracted(request[r], m)
               /\ \A m \in new : \E c \in Inserted(request[r]) :
                      memory'[m] = NewRow(c)
               /\ \A c \in Inserted(request[r]) : \E m \in new :
                      memory'[m] = NewRow(c)
               /\ \A m, n \in new, c \in Inserted(request[r]) :
                      memory'[m] = NewRow(c) /\ memory'[n] = NewRow(c) => m = n
               /\ request' = [request EXCEPT ![r] = Index(new \cup kept, NoContent)]
    BY <1>3, ExtractionRows
  <2>2. ASSUME NEW m \in new PROVE Covered(m)'
    <3>1. request'[r] = [step |-> "index", ids |-> new \cup kept, previous |-> NoContent]
      BY <2>1, <2>2 DEF TypeOK, Index
    <3>2. request[r] \in Request /\ request[r].step = "extract"
      BY <1>3 DEF CommitExtraction, TypeOK
    <3>3. request[r].answer.creates \subseteq Candidates
      BY <3>2, Shapes DEF Answers
    <3>4. memory'[m].content # NoContent
      <4>1. PICK c \in Inserted(request[r]) :
                memory'[m] = NewRow(c)
        BY <2>1, <2>2
      <4>2. c \in Candidates
        BY <3>3 DEF Inserted
      <4>3. QED
        BY <4>1, <4>2, NewRowType, MarkerAssumption DEF Memory
    <3>5. Indexing(r, m)'
      BY <3>1, <3>4, <2>2 DEF Indexing
    <3>6. QED
      BY <3>5 DEF Covered
  <2>3. QED
    BY <1>2, <2>1, <2>2 DEF AllCovered
<1>4. CASE ReadActive(r) \/ AbandonExtraction(r)
  BY <1>2, <1>4 DEF ReadActive, AbandonExtraction, AllCovered, Existing
<1>5. QED
  BY <1>3, <1>4

LEMMA CoverStep == TypeOK /\ AllCovered /\ [Next]_vars => AllCovered'
<1> SUFFICES ASSUME TypeOK, AllCovered, [Next]_vars PROVE AllCovered'
  OBVIOUS
<1>1. CASE UNCHANGED vars
  BY <1>1 DEF vars, AllCovered, Covered, Indexing, Existing
<1>2. ASSUME NEW m \in Memories, DeleteMemory(m) PROVE AllCovered'
  <2>1. /\ memory' = [memory EXCEPT ![m] = NoMemory]
        /\ vector' = [vector EXCEPT ![m] = NoContent]
        /\ unindexed' = unindexed \ {m} /\ request' = request
    BY <1>2 DEF DeleteMemory
  <2>2. Existing' \subseteq Existing \ {m}
    BY <2>1 DEF TypeOK, Existing
  <2>3. ASSUME NEW n \in Existing \ {m} PROVE Covered(n)'
    <3>1. Covered(n) /\ memory'[n] = memory[n] /\ vector'[n] = vector[n]
      BY <2>1 DEF AllCovered, TypeOK, Existing
    <3>2. QED
      BY <3>1, <2>1 DEF Covered, Indexing
  <2>4. QED
    BY <2>2, <2>3 DEF AllCovered
<1>3. CASE \E r \in Requests : \/ CreateMemory(r) \/ LoadEdit(r)
                               \/ CommitEdit(r) \/ FailEdit(r)
  BY <1>3, CoverEdits
<1>4. CASE \E r \in Requests : \/ LoadIndex(r)
                               \/ StoreIndex(r) \/ FailIndex(r)
  BY <1>4, CoverIndexing
<1>5. CASE \E r \in Requests : \/ ReadActive(r) \/ CommitExtraction(r)
                               \/ AbandonExtraction(r)
  BY <1>5, CoverExtraction
<1>6. QED
  BY <1>1, <1>2, <1>3, <1>4, <1>5 DEF Next

(* No active memory drops out of recall unnoticed.                         *)
THEOREM Recall == Spec => []ActiveIsRecallable
<1>1. Init => AllCovered
  BY DEF Init, AllCovered, Existing
<1>2. AllCovered => ActiveIsRecallable
  BY IndexingIsDue DEF AllCovered, ActiveIsRecallable, Covered, Recallable, Active
<1>3. QED
  BY <1>1, <1>2, TypeInit, TypeStep, CoverStep, PTL DEF Spec

----------------------------------------------------------------------------
(* Stale vectors *)

LEMMA StaleStep ==
    ASSUME TypeOK, [Next]_vars, NEW m \in Memories, Stale(m)', ~Stale(m)
    PROVE  \E r \in Requests :
               /\ request[r].step = "embed" /\ m \in DOMAIN request[r].texts
               /\ request[r].texts[m] # memory[m].content
               /\ request'[r] = Idle
<1>1. m \in Existing' /\ vector'[m] # NoContent /\ vector'[m] # memory'[m].content
  BY DEF Stale
<1>2. m \notin Existing => vector[m] = NoContent
  BY DEF TypeOK
<1>3. ASSUME vector'[m] = vector[m] PROVE memory'[m].content # memory[m].content
  BY <1>1, <1>2, <1>3 DEF Stale
<1>4. CASE UNCHANGED vars
  BY <1>3, <1>4 DEF vars
<1>5. ASSUME NEW n \in Memories, DeleteMemory(n) PROVE FALSE
  <2>1. /\ memory' = [memory EXCEPT ![n] = NoMemory]
        /\ vector' = [vector EXCEPT ![n] = NoContent]
    BY <1>5 DEF DeleteMemory
  <2>2. n # m
    BY <1>1, <2>1 DEF TypeOK
  <2>3. QED
    BY <1>3, <2>1, <2>2 DEF TypeOK
<1>6. ASSUME NEW r \in Requests, CreateMemory(r) PROVE FALSE
  <2>1. PICK n \in Memories \ Existing, c \in Candidates :
            memory' = [memory EXCEPT ![n] = NewRow(c)]
    BY <1>6 DEF CreateMemory
  <2>2. vector' = vector /\ n # m
    BY <1>1, <1>6, <1>2 DEF CreateMemory
  <2>3. QED
    BY <1>3, <2>1, <2>2 DEF TypeOK
<1>7. ASSUME NEW r \in Requests, CommitEdit(r) PROVE FALSE
  <2> DEFINE q == request[r]
  <2>1. /\ memory' = [memory EXCEPT ![q.id] = Written(q.id, q)]
        /\ vector' = IF ContentChanged(q)
                     THEN [vector EXCEPT ![q.id] = NoContent] ELSE vector
    BY <1>7 DEF CommitEdit
  <2>2. CASE q.id # m
    BY <1>3, <2>1, <2>2 DEF TypeOK
  <2>3. CASE q.id = m
    BY <1>1, <1>3, <2>1, <2>3 DEF TypeOK, ContentChanged, Written, Assigned
  <2>4. QED
    BY <2>2, <2>3
<1>8. ASSUME NEW r \in Requests, CommitExtraction(r) PROVE FALSE
  <2>1. vector' = vector /\ m \in Existing
    BY <1>1, <1>2, <1>8 DEF CommitExtraction
  <2>2. memory'[m].content = memory[m].content
    BY <1>8, <2>1, ExtractionRows
  <2>3. QED
    BY <1>3, <2>1, <2>2
<1>9. ASSUME NEW r \in Requests, StoreIndex(r)
      PROVE  /\ request[r].step = "embed" /\ m \in DOMAIN request[r].texts
             /\ request[r].texts[m] # memory[m].content
             /\ request'[r] = Idle
  <2> DEFINE q == request[r]
  <2>1. /\ q.step = "embed" /\ memory' = memory /\ request'[r] = Idle
        /\ vector' = [n \in Memories |->
                         IF n \in DOMAIN q.texts THEN q.texts[n] ELSE vector[n]]
    BY <1>9 DEF StoreIndex, Becomes, TypeOK
  <2>2. m \in DOMAIN q.texts
    BY <1>3, <2>1
  <2>3. QED
    BY <1>1, <2>1, <2>2
<1>10. ASSUME NEW r \in Requests,
              \/ LoadEdit(r) \/ FailEdit(r) \/ LoadIndex(r)
              \/ FailIndex(r) \/ ReadActive(r) \/ AbandonExtraction(r)
       PROVE  FALSE
  BY <1>3, <1>10 DEF LoadEdit, FailEdit, LoadIndex, FailIndex,
                     ReadActive, AbandonExtraction
<1>11. QED
  BY <1>4, <1>5, <1>6, <1>7, <1>8, <1>9, <1>10 DEF Next

(* Only an indexing that had read the text before an edit stores a vector  *)
(* of another text.                                                        *)
THEOREM LateStores == Spec => StaleOnlyByLateStore
<1>1. TypeOK /\ [Next]_vars =>
          [\A m \in Memories : Stale(m)' /\ ~Stale(m) =>
              \E r \in Requests :
                  /\ request[r].step = "embed" /\ m \in DOMAIN request[r].texts
                  /\ request[r].texts[m] # memory[m].content
                  /\ request'[r] = Idle]_vars
  BY StaleStep
<1>2. QED
  BY <1>1, TypeInit, TypeStep, PTL DEF Spec, StaleOnlyByLateStore

----------------------------------------------------------------------------
(* The effect of an extraction *)

LEMMA EffectOfCommit ==
    ASSUME TypeOK, NEW r \in Requests, CommitExtraction(r), NothingMoved(r),
           NEW key \in Normalized
    PROVE  \/ key \in request[r].answer.retires /\ Held(key)' = {}
           \/ /\ key \in KeysOf(request[r].answer) \ request[r].answer.retires
              /\ \E m \in Memories :
                     /\ Held(key)' = {m}
                     /\ Newest(Held(key), newer) # {} =>
                            m \in Newest(Held(key), newer)
           \/ key \notin KeysOf(request[r].answer) /\ Held(key)' = Held(key)
<1> DEFINE q == request[r]
<1>1. /\ q \in Request /\ q.step = "extract" /\ q.answer \in Answers
      /\ q.rows \in Rows(Memories)
  BY Shapes DEF CommitExtraction, TypeOK
<1>2. PICK new \in SUBSET (Memories \ Existing), kept \in SUBSET Memories :
               /\ Existing' = Existing \cup new
               /\ \A m \in Existing :
                      /\ memory'[m].content = memory[m].content
                      /\ KeyOf(memory'[m]) = KeyOf(memory[m])
                      /\ memory'[m] = Extracted(q, m)
               /\ \A m \in new : \E c \in Inserted(q) :
                      memory'[m] = NewRow(c)
               /\ \A c \in Inserted(q) : \E m \in new :
                      memory'[m] = NewRow(c)
               /\ \A m, n \in new, c \in Inserted(q) :
                      memory'[m] = NewRow(c) /\ memory'[n] = NewRow(c) => m = n
               /\ request' = [request EXCEPT ![r] = Index(new \cup kept, NoContent)]
  BY ExtractionRows
<1> DEFINE News(k) == {m \in new : KeyOf(memory'[m]) = k}
           Off == Duplicates(q) \cup Revoked(q)
<1>3. ASSUME NEW m \in Existing
      PROVE  memory'[m].active <=> memory[m].active /\ m \notin Off
  <2>1. memory[m] \in Memory /\ memory'[m] = Extracted(q, m)
    BY <1>2, RowTypes
  <2> DEFINE w == IF \E c \in Strengthened(q) : Canonical(q, c) = m
                  THEN (CHOOSE c \in Strengthened(q) : Canonical(q, c) = m).weight
                  ELSE memory[m].weight
             b == memory[m].active /\ m \notin Off
  <2>2. Extracted(q, m) = [memory[m] EXCEPT !.active = b, !.weight = w]
    BY <2>1 DEF Extracted, Memory
  <2> HIDE DEF w, b
  <2>3. memory'[m].active = b
    BY <2>1, <2>2 DEF Memory
  <2>4. QED
    BY <2>3 DEF b
<1>4. Held(key)' = (Held(key) \ Off) \cup News(key)
  <2>1. Held(key)' = {m \in Existing' : memory'[m].active /\ KeyOf(memory'[m]) = key}
    BY DEF Held, Active, Key
  <2>2. Held(key) = {m \in Existing : memory[m].active /\ KeyOf(memory[m]) = key}
    BY DEF Held, Active, Key
  <2>3. ASSUME NEW m \in new PROVE memory'[m].active
    <3>1. PICK c \in Inserted(q) :
              memory'[m] = NewRow(c)
      BY <1>2
    <3>2. c \in Candidates
      BY <1>1 DEF Answers, Inserted
    <3>3. QED
      BY <3>1, <3>2, NewRowType
  <2> HIDE DEF Off
  <2>4. QED
    BY <1>2, <1>3, <2>1, <2>2, <2>3
<1>5. \A c, d \in q.answer.creates : KeyOf(c) = KeyOf(d) => c = d
  BY <1>1 DEF Answers
<1>6. \A c \in q.answer.creates : KeyOf(c) \notin q.answer.retires
  BY <1>1 DEF Answers
<1>7. \A m \in News(key) : \E c \in Inserted(q) :
          KeyOf(c) = key /\ memory'[m] = NewRow(c)
  <2> SUFFICES ASSUME NEW m \in News(key)
               PROVE  \E c \in Inserted(q) :
                          KeyOf(c) = key /\ memory'[m] = NewRow(c)
    OBVIOUS
  <2>1. PICK c \in Inserted(q) :
            memory'[m] = NewRow(c)
    BY <1>2
  <2>2. c \in Candidates
    BY <1>1 DEF Answers, Inserted
  <2>3. QED
    BY <2>1, <2>2, NewRowType
<1>8. \A k \in KeysOf(q.answer) : Held(k) = Found(q, k)
  BY DEF NothingMoved
<1>9. Inserted(q) \subseteq q.answer.creates /\ Known(q) \subseteq q.answer.creates
  BY DEF Inserted, Known
<1>10. \A m \in Off : \E k \in KeysOf(q.answer) : m \in Held(k)
  <2>1. \A m \in Duplicates(q) : \E k \in KeysOf(q.answer) : m \in Found(q, k)
    BY <1>9 DEF Duplicates, KeysOf
  <2>2. \A m \in Revoked(q) : \E k \in KeysOf(q.answer) : m \in Found(q, k)
    BY DEF Revoked, KeysOf
  <2>3. QED
    BY <1>8, <2>1, <2>2
<1>11. CASE key \in q.answer.retires
  <2>1. News(key) = {}
    BY <1>6, <1>7, <1>9, <1>11
  <2>2. Held(key) \subseteq Revoked(q)
    <3>1. key \in KeysOf(q.answer)
      BY <1>11 DEF KeysOf
    <3>2. QED
      BY <1>8, <1>11, <3>1 DEF Revoked
  <2>3. QED
    BY <1>4, <1>11, <2>1, <2>2
<1>12. CASE key \in KeysOf(q.answer) \ q.answer.retires
  <2>1. PICK c \in q.answer.creates : KeyOf(c) = key
    BY <1>12 DEF KeysOf
  <2>2. Held(key) = Found(q, key)
    BY <1>8, <1>12
  <2>3. CASE c \in Known(q)
    <3> DEFINE m == Canonical(q, c)
    <3>1. m \in Found(q, key)
      BY <2>1, <2>3, CanonicalFound
    <3>2. News(key) = {}
      BY <1>5, <1>7, <1>9, <2>1, <2>3 DEF Inserted
    <3>3. Found(q, key) \ {m} \subseteq Off
      BY <2>1, <2>3 DEF Duplicates
    <3>4. m \notin Revoked(q)
      BY <3>1, <1>12 DEF Revoked, Found
    <3>5. m \notin Duplicates(q)
      <4>1. \A d \in Known(q) : m \in Found(q, KeyOf(d)) => d = c
        BY <3>1, <1>5, <1>9, <2>1 DEF Found
      <4>2. QED
        BY <4>1 DEF Duplicates
    <3>6. m \in Memories
      BY <3>1, <1>1 DEF Found, Rows
    <3> HIDE DEF m, Off
    <3>7. m \notin Off
      BY <3>4, <3>5 DEF Off
    <3>8. Held(key)' = {m}
      BY <1>4, <2>2, <3>1, <3>2, <3>3, <3>7
    <3>9. Newest(Held(key), newer) # {} => m \in Newest(Held(key), newer)
      <4>1. Newest(Held(key), newer) = Newest(Held(key), q.newer)
        <5>1. \A n, k \in Held(key) : <<n, k>> \in newer <=> <<n, k>> \in q.newer
          <6>1. Held(key) \subseteq DOMAIN q.rows
            BY <2>2 DEF Found
          <6>2. \A n \in Held(key) : Key(n) = key
            BY DEF Held
          <6>3. q.newer = Ranked(DOMAIN q.rows)
            BY DEF NothingMoved
          <6>4. QED
            BY <6>1, <6>2, <6>3 DEF Ranked, Among
        <5>2. QED
          BY <5>1 DEF Newest
      <4>2. m = Latest(q, Held(key)) /\ m \in Held(key)
        BY <2>1, <2>2, <3>1 DEF m, Canonical
      <4>3. \E n \in Held(key) : Newest(Held(key), q.newer) # {} =>
                                    n \in Newest(Held(key), q.newer)
        BY <4>2 DEF Newest
      <4>4. QED
        BY <4>1, <4>2, <4>3 DEF Latest
    <3>10. QED
      BY <1>12, <3>6, <3>8, <3>9
  <2>4. CASE c \notin Known(q)
    <3>1. Held(key) = {} /\ c \in Inserted(q)
      BY <2>1, <2>2, <2>4 DEF Known, Inserted
    <3>2. PICK m \in new : memory'[m] = NewRow(c)
      BY <1>2, <3>1
    <3>3. ASSUME NEW n \in News(key) PROVE n = m
      <4>1. PICK d \in Inserted(q) : KeyOf(d) = key /\ memory'[n] = NewRow(d)
        BY <1>7
      <4>2. d = c
        BY <1>5, <1>9, <2>1, <3>1, <4>1
      <4>3. QED
        BY <1>2, <3>1, <3>2, <4>1, <4>2
    <3>4. m \in News(key)
      <4>1. c \in Candidates
        BY <1>1, <2>1 DEF Answers
      <4>2. QED
        BY <2>1, <3>2, <4>1, NewRowType
    <3>5. Held(key)' = {m}
      <4> HIDE DEF News, Off
      <4>1. QED
        BY <1>4, <3>1, <3>3, <3>4
    <3>6. Newest(Held(key), newer) = {}
      BY <3>1 DEF Newest
    <3>7. QED
      BY <1>12, <3>5, <3>6
  <2>5. QED
    BY <2>3, <2>4
<1>13. CASE key \notin KeysOf(q.answer)
  <2>1. News(key) = {}
    BY <1>7, <1>9, <1>13 DEF KeysOf
  <2>2. Held(key) \cap Off = {}
    BY <1>10, <1>13 DEF Held
  <2> HIDE DEF News, Off
  <2>3. QED
    BY <1>4, <1>13, <2>1, <2>2
<1>14. QED
  BY <1>11, <1>12, <1>13 DEF KeysOf

(* An extraction nobody interfered with does what the model asked for.     *)
THEOREM Extraction == Spec => ExtractionTakesEffect
<1> DEFINE Effect(r) ==
        \A key \in Normalized :
            \/ key \in request[r].answer.retires /\ Held(key)' = {}
            \/ /\ key \in KeysOf(request[r].answer) \ request[r].answer.retires
               /\ \E m \in Memories :
                     /\ Held(key)' = {m}
                     /\ Newest(Held(key), newer) # {} =>
                            m \in Newest(Held(key), newer)
            \/ key \notin KeysOf(request[r].answer) /\ Held(key)' = Held(key)
<1>1. ASSUME TypeOK, [Next]_vars, NEW r \in Requests, Commits(r), NothingMoved(r)
      PROVE  Effect(r)
  <2>1. CommitExtraction(r)
    <3>1. request[r].step = "extract" /\ request' # request /\ request'[r] # request[r]
      BY <1>1 DEF Commits
    <3>2. memory' # memory
      BY <1>1 DEF Commits
    <3>3. ASSUME NEW s \in Requests, NEW state, Becomes(s, state) PROVE s = r
      BY <3>1, <3>3 DEF Becomes, TypeOK
    <3>4. \A m \in Memories : ~DeleteMemory(m)
      BY <3>1 DEF DeleteMemory
    <3>5. \A s \in Requests :
              ~(\/ LoadEdit(s) \/ FailEdit(s) \/ LoadIndex(s)
                \/ StoreIndex(s) \/ FailIndex(s) \/ ReadActive(s) \/ AbandonExtraction(s))
      BY <3>2 DEF LoadEdit, FailEdit, LoadIndex, StoreIndex, FailIndex,
                  ReadActive, AbandonExtraction
    <3>6. ASSUME NEW s \in Requests, CreateMemory(s) PROVE FALSE
      <4>1. s = r /\ request[s] = Idle
        BY <3>3, <3>6 DEF CreateMemory
      <4>2. QED
        BY <3>1, <4>1 DEF Idle
    <3>7. \A s \in Requests : ~CommitEdit(s)
      BY <3>1, <3>3 DEF CommitEdit
    <3>8. \A s \in Requests : CommitExtraction(s) => s = r
      BY <3>3 DEF CommitExtraction
    <3>9. QED
      BY <1>1, <3>1, <3>4, <3>5, <3>6, <3>7, <3>8 DEF Next, vars
  <2>2. QED
    BY <1>1, <2>1, EffectOfCommit
<1>2. TypeOK /\ [Next]_vars =>
          [\A r \in Requests : Commits(r) /\ NothingMoved(r) => Effect(r)]_vars
  BY <1>1
<1>3. QED
  BY <1>2, TypeInit, TypeStep, PTL DEF Spec, ExtractionTakesEffect
=============================================================================

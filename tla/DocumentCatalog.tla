--------------------------- MODULE DocumentCatalog ---------------------------
(***************************************************************************)
(* What those who read a user's documents may rely on, and what they have  *)
(* to expect: there is one document per content, it has a status and an    *)
(* index that is searched.  An index comes as a whole with the embeddings  *)
(* of one model, only further models are added to it, and it goes with its *)
(* document.  A run completes its index and makes the document ready in    *)
(* one commit, unless another run has overtaken it.                        *)
(***************************************************************************)
CONSTANTS
    Docs,
    ContentOf,  \* the content of each document
    Textless,   \* documents without text, which have nothing to embed
    Models      \* embedding models

VARIABLES
    status,     \* of each document, or "absent"
    indexed,    \* documents with an index
    models      \* the models whose embeddings each index has

vars == <<status, indexed, models>>

Init ==
    /\ status = [d \in Docs |-> "absent"]
    /\ indexed = {}
    /\ models = [d \in Docs |-> {}]

Listed(d) == status[d] # "absent"

(* at least one run of the document has been claimed *)
Claimed(d) == status[d] \in {"processing", "ready", "failed"}

Becomes(d, state) == status' = [status EXCEPT ![d] = state]

Upload(d) ==
    /\ \A e \in Docs : Listed(e) => ContentOf[e] # ContentOf[d]
    /\ d \notin indexed
    /\ Becomes(d, "uploaded")
    /\ UNCHANGED <<indexed, models>>

Claim(d) == Listed(d) /\ Becomes(d, "processing") /\ UNCHANGED <<indexed, models>>

(* the failure may be that of the claim itself *)
Fail(d) == Listed(d) /\ Becomes(d, "failed") /\ UNCHANGED <<indexed, models>>

(* a run that was overtaken replaces the index and leaves the status *)
Index(d) ==
    /\ Claimed(d)
    /\ \/ Becomes(d, "ready")
       \/ UNCHANGED status /\ d \in indexed
    /\ indexed' = indexed \cup {d}
    /\ \E ms \in SUBSET Models :
        /\ models' = [models EXCEPT ![d] = ms]
        /\ IF d \in Textless THEN ms = {} ELSE \E m \in Models : ms = {m}

Embed(d) ==
    /\ d \in indexed \ Textless
    /\ \E m \in Models : models' = [models EXCEPT ![d] = @ \cup {m}]
    /\ UNCHANGED <<status, indexed>>

Delete(d) ==
    /\ Listed(d)
    /\ Becomes(d, "absent")
    /\ indexed' = indexed \ {d}
    /\ models' = [models EXCEPT ![d] = {}]

Next ==
    \E d \in Docs : \/ Upload(d) \/ Claim(d) \/ Fail(d)
                    \/ Index(d) \/ Embed(d) \/ Delete(d)

Spec == Init /\ [][Next]_vars
=============================================================================

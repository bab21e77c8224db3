--------------------------- MODULE GroundedAnswer ---------------------------
(***************************************************************************)
(* answer_question: retrieve, number the evidence, let the model draft an  *)
(* answer, check its citations, let a verifier judge it, repair it twice   *)
(* and refuse after that.  A draft is what validation tells apart: its     *)
(* form, the sources it cites, a block without a citation.  Requests share *)
(* nothing but the index, so one at a time is modelled.                    *)
(***************************************************************************)
EXTENDS EvidenceContext

CONSTANT Starts  \* the states of the index a request may find

ASSUME StartAssumption == Starts \in [Docs -> SUBSET IndexStates]

VARIABLES
    verifier,   \* RAG_GROUNDING_VERIFIER_ENABLED
    sources,    \* evidence_context.sources: the number of each chunk shown
    draft,      \* the draft of the answer
    attempt,    \* validation_attempt
    calls,      \* calls of provider.generate for drafts
    verdicts,   \* calls of verifier.verify
    supported,  \* auxiliary: responses the verifier found supported
    result      \* the RAGAnswerResult

answering == <<draft, attempt, calls, verdicts, supported, result>>
vars == <<retrieval, verifier, sources, answering>>

Numbers == 1..MaxSources

(* the sentinel alone; what is rejected whatever it cites: the sentinel    *)
(* with other text, a malformed reference, a block without a citation; or  *)
(* a text that cites numbers, MaxSources + 1 standing for unknown sources  *)
Contents ==
    [form : {"sentinel", "mixed", "malformed", "uncited"}, cites : {{}}] \cup
    [form : {"text"}, cites : SUBSET (1..(MaxSources + 1))]

Sentinel == [form |-> "sentinel", cites |-> {}]

NoDraft == [content |-> Sentinel, response |-> 0]
NoResult == [kind |-> "none", response |-> 0, citations |-> {}]

Init ==
    /\ index \in {i \in [Docs -> UNION {Starts[d] : d \in Docs}] :
                    \A d \in Docs : i[d] \in Starts[d]}
    /\ changes = 0
    /\ phase = "idle"
    /\ ask \in Asks
    /\ reranker \in BOOLEAN
    /\ verifier \in BOOLEAN
    /\ vec = NoRanking /\ lex = NoRanking /\ scored = {} /\ hits = NoRanking
    /\ served = {}
    /\ sources = NoRanking
    /\ draft = NoDraft
    /\ attempt = 0 /\ calls = 0 /\ verdicts = 0
    /\ supported = {}
    /\ result = NoResult

----------------------------------------------------------------------------

(* the question, perhaps rewritten, becomes a retrieval query *)
Ask ==
    /\ phase = "idle"
    /\ phase' = "vector"
    /\ served' = Usable
    /\ UNCHANGED <<index, changes, ask, reranker, rankings, hits, verifier,
                   sources, answering>>

Retrieve ==
    /\ SearchSimilar \/ SearchLexical \/ ScoreSpecific \/ Fuse \/ Rerank
    /\ UNCHANGED <<verifier, sources, answering>>

IndexChanges ==
    /\ OthersCommit
    /\ UNCHANGED <<verifier, sources, answering>>

(* without evidence the answer is a refusal and no model is asked; the     *)
(* hits and what was served are of no more use                             *)
BuildEvidence ==
    /\ phase = "evidence"
    /\ sources' = Sources
    /\ IF DOMAIN Sources = {}
       THEN /\ result' = [NoResult EXCEPT !.kind = "refusal"]
            /\ phase' = "done"
       ELSE /\ phase' = "draft"
            /\ UNCHANGED result
    /\ served' = served \cap DOMAIN Sources
    /\ vec' = NoRanking /\ lex' = NoRanking /\ scored' = {} /\ hits' = NoRanking
    /\ UNCHANGED <<index, changes, ask, reranker, verifier,
                   draft, attempt, calls, verdicts, supported>>

(* a call to the model; an empty answer is an error *)
Generate(next) ==
    /\ \E content \in Contents :
        draft' = [content |-> content, response |-> calls + 1]
    /\ calls' = calls + 1
    /\ phase' = next
    /\ UNCHANGED <<rows, ask, reranker, rankings, hits, verifier,
                   sources, verdicts, supported, result>>

Draft == phase = "draft" /\ Generate("validate") /\ UNCHANGED attempt

Known == {sources[c] : c \in DOMAIN sources}
Cited == {c \in DOMAIN sources : sources[c] \in draft.content.cites}

IsRefusal == draft.content.form = "sentinel"

(* validate_grounded_answer_draft accepts a text with citations *)
IsCited ==
    /\ draft.content.form = "text"
    /\ draft.content.cites # {}
    /\ draft.content.cites \subseteq Known

Finish(kind, citations) ==
    /\ result' = [kind |-> kind, response |-> draft.response, citations |-> citations]
    /\ phase' = "done"
    /\ UNCHANGED attempt

(* fault: the second rejection refuses *)
RejectEarly ==
    IF attempt >= 1
    THEN Finish("refusal", {})
    ELSE /\ phase' = "repair"
         /\ UNCHANGED <<attempt, result>>

(* fault: a third repair *)
RejectLate ==
    IF attempt > 2
    THEN Finish("refusal", {})
    ELSE /\ phase' = "repair"
         /\ UNCHANGED <<attempt, result>>

(* a CitationValidationError or an UnsupportedGroundingError *)
RejectDraft ==
    IF attempt >= 2
    THEN Finish("refusal", {})
    ELSE /\ phase' = "repair"
         /\ UNCHANGED <<attempt, result>>

(* fault: only the first draft is shown to the verifier *)
ValidateOnce ==
    /\ phase = "validate"
    /\ \/ IsRefusal /\ Finish("refusal", {})
       \/ IsCited /\ verifier /\ attempt = 0 /\ phase' = "verify" /\ UNCHANGED <<attempt, result>>
       \/ IsCited /\ ~(verifier /\ attempt = 0) /\ Finish("answer", Cited)
       \/ ~IsRefusal /\ ~IsCited /\ RejectDraft
    /\ UNCHANGED <<rows, ask, reranker, rankings, hits, verifier,
                   sources, draft, calls, verdicts, supported>>

Validate ==
    /\ phase = "validate"
    /\ \/ IsRefusal /\ Finish("refusal", {})
       \/ IsCited /\ verifier /\ phase' = "verify" /\ UNCHANGED <<attempt, result>>
       \/ IsCited /\ ~verifier /\ Finish("answer", Cited)
       \/ ~IsRefusal /\ ~IsCited /\ RejectDraft
    /\ UNCHANGED <<rows, ask, reranker, rankings, hits, verifier,
                   sources, draft, calls, verdicts, supported>>

Verify ==
    /\ phase = "verify"
    /\ verdicts' = verdicts + 1
    /\ \/ /\ supported' = supported \cup {draft.response}
          /\ Finish("answer", Cited)
       \/ RejectDraft /\ UNCHANGED supported
    /\ UNCHANGED <<rows, ask, reranker, rankings, hits, verifier,
                   sources, draft, calls>>

Repair == phase = "repair" /\ Generate("validate") /\ attempt' = attempt + 1

(* the embedding, the database, the model or the verifier fails, a verdict *)
(* is not one of two words or a draft is empty: the exception is answered  *)
RequestFails ==
    /\ phase \in SearchPhases \cup {"draft", "repair", "verify"}
    /\ phase' = "done"
    /\ result' = [NoResult EXCEPT !.kind = "failure"]
    /\ UNCHANGED <<rows, ask, reranker, rankings, hits, verifier, sources,
                   draft, attempt, calls, verdicts, supported>>

(* the result is returned; the request is over *)
Answered == phase = "done" /\ UNCHANGED vars

Next ==
    \/ Ask \/ Retrieve \/ IndexChanges \/ BuildEvidence
    \/ Draft \/ Validate \/ Verify \/ Repair \/ RequestFails \/ Answered

Spec == Init /\ [][Next]_vars

----------------------------------------------------------------------------
(* Properties *)

Fractions == {x \in Nat \X Nat : x[2] > 0}

TypeOK ==
    /\ index \in [Docs -> IndexStates]
    /\ changes \in 0..MaxChanges
    /\ phase \in SearchPhases \cup {"idle", "fuse", "rerank", "evidence", "draft",
                                    "validate", "verify", "repair", "done"}
    /\ ask \in Asks
    /\ reranker \in BOOLEAN /\ verifier \in BOOLEAN
    /\ \A ranking \in {vec, lex, sources} :
            /\ DOMAIN ranking \subseteq Chunks
            /\ \A c \in DOMAIN ranking : ranking[c] \in Nat \ {0}
    /\ DOMAIN hits \subseteq Chunks
    /\ \A c \in DOMAIN hits : hits[c] \in Fractions
    /\ scored \subseteq Chunks /\ served \subseteq Chunks
    /\ draft \in [content : Contents, response : Nat]
    /\ attempt \in 0..2 /\ calls \in Nat /\ verdicts \in Nat
    /\ supported \subseteq Nat
    /\ result.kind \in {"none", "answer", "refusal", "failure"}
    /\ result.response \in Nat /\ result.citations \subseteq Chunks

(* Whatever is shown to the model as a source was, at one moment of this   *)
(* request, a chunk with a vector of a ready document of the user and of   *)
(* the scope asked for, although documents are processed, rebuilt and      *)
(* deleted between the three statements of the search.                     *)
EvidenceWasReady ==
    \A c \in DOMAIN hits \cup DOMAIN sources : c \in served /\ InScope(c)

(* Rank fusion agrees with the rankings it joins: a chunk that is nowhere  *)
(* behind another is scored above it and is not cut when the other is kept,*)
(* and the cut keeps as many as it may (reciprocal_rank_fusion and the     *)
(* loop of search_hybrid_chunks).                                          *)
Ahead(c, d) ==
    /\ c # d
    /\ RankIn(vec, c, Missing) <= RankIn(vec, d, Missing)
    /\ RankIn(lex, c, Missing) <= RankIn(lex, d, Missing)

FusionRespectsRankings ==
    phase \in {"rerank", "evidence"} /\ (phase = "evidence" => ~Reranks) =>
        /\ Cardinality(DOMAIN hits) = Capped(Cardinality(Fusable), SearchK)
        /\ \A c \in Fusable, d \in DOMAIN hits :
                Ahead(c, d) => c \in DOMAIN hits /\ Higher(hits[c], hits[d])

(* The sources fit: they are numbered without a gap, are no more than      *)
(* asked for, none repeats a text or stands beside its own summary, and    *)
(* the texts as cut, headers included, stay within the context budget      *)
(* (build_evidence_context).                                               *)
Shown(c) ==
    LET left == MaxContext - Used({d \in DOMAIN sources : sources[d] < sources[c]}) - Header
    IN  Capped(Capped(Tokens[Text(c)], MaxSource), left)

EvidenceFits ==
    /\ {sources[c] : c \in DOMAIN sources} = 1..Cardinality(DOMAIN sources)
    /\ Cardinality(DOMAIN sources) <= MaxSources
    /\ \A c \in DOMAIN sources : Shown(c) >= 1
    /\ SumFunction([c \in DOMAIN sources |-> Header + Shown(c)]) <= MaxContext
    /\ \A c, d \in DOMAIN sources :
            c # d => Text(c) # Text(d) /\ ~(RoleOf[c.pos] = "summary" /\ Parent(d) = c)

(* While there is room for every candidate, no text is lost: the text of   *)
(* every hit is shown, or is the summary of a chunk that is shown.  So a   *)
(* chunk dropped as a duplicate must not take its summary along.           *)
TextsAreKept ==
    phase = "evidence" /\ DOMAIN Sources = Candidates =>
        \A h \in DOMAIN hits : \E c \in DOMAIN Sources :
            \/ Text(c) = Text(h)
            \/ ParentOf[c.pos] # 0 /\ Text(Parent(c)) = Text(h)

(* An answer is the last draft, cites a source and only sources that were  *)
(* shown, and with a verifier it is a draft the verifier itself found      *)
(* supported, however many drafts were rejected or repaired before; a      *)
(* refusal or a failure cites nothing (answer_question).                   *)
AnswerIsGrounded ==
    /\ result.kind = "answer" =>
        /\ result.citations # {}
        /\ result.citations = Cited
        /\ IsCited
        /\ result.response = calls
        /\ verifier => result.response \in supported
    /\ result.kind # "answer" => result.citations = {}

(* The user is refused only without evidence, when the model says so, or   *)
(* after the draft and both its repairs were rejected.                     *)
RefusalIsEarned ==
    result.kind = "refusal" =>
        \/ DOMAIN sources = {}
        \/ IsRefusal
        \/ calls = 3

(* A request costs at most three drafts and three verdicts, and none       *)
(* without evidence.                                                       *)
EffortIsBounded ==
    /\ calls <= 3 /\ verdicts <= calls
    /\ calls > 0 => DOMAIN sources # {}
=============================================================================

-------------------------- MODULE HybridRetrieval --------------------------
(***************************************************************************)
(* search_hybrid_chunks: the ranking by vectors, the ranking by words and  *)
(* the scoring of chunks only the second found are three SELECTs at READ   *)
(* COMMITTED, between which other requests process, rebuild and delete     *)
(* documents.  The index is seen as DocumentLifecycle commits it: each run *)
(* of the processing of a document replaces all its chunks by new rows     *)
(* with the same texts.  A ranking is a function from chunks to ranks.     *)
(***************************************************************************)
EXTENDS Integers, FiniteSets

CONSTANTS
    Docs,          \* documents of all users; their order is that of the ids
    Mine,          \* those of the user who asks
    MaxRuns,       \* bound on the processing runs of a document
    Positions,     \* chunk_index of the chunks of a document
    Roles, RoleOf, \* chunk_role at each position
    ParentOf,      \* the position of the parent chunk, 0 for none
    Models, Model, \* embedding models, and the configured one
    Queries,       \* texts a question may be searched by
    Similarity,    \* the cosine similarity to each query, in percent
    LexicalScore,  \* ts_rank_cd for each query, 0 without a match
    Asks,          \* the requests: query, scope, roles, floor and top_k
    RrfK,          \* rrf_k
    Depth,         \* RERANKER_CANDIDATE_DEPTH
    MaxChanges     \* bound on the commits of others during one request

ASSUME IndexAssumption ==
    /\ Docs \subseteq Nat /\ IsFiniteSet(Docs) /\ Mine \subseteq Docs
    /\ Positions \subseteq Nat /\ IsFiniteSet(Positions) /\ MaxRuns \in Nat
    /\ RoleOf \in [Positions -> Roles] /\ ParentOf \in [Positions -> Nat]
    /\ Model \in Models
ASSUME ScoreAssumption ==
    /\ Similarity \in [Queries -> [Docs -> [Positions -> -100..100]]]
    /\ LexicalScore \in [Queries -> [Docs -> [Positions -> Nat]]]
ASSUME AskAssumption ==
    /\ Asks \subseteq [query : Queries, scope : SUBSET Docs, roles : (SUBSET Roles) \ {{}},
                       floor : -100..100, topK : 1..50]
    /\ RrfK \in Nat \ {0} /\ Depth \in 1..50 /\ MaxChanges \in Nat

VARIABLES
    index,     \* committed rows: documents.status, last run, embedding models
    changes,   \* commits of others during this request
    phase,     \* the stage of the request
    ask,       \* what it asks for
    reranker,  \* RAG_RERANKER_ENABLED
    vec,       \* vector_hits
    lex,       \* lexical_hits
    scored,    \* enriched_hits
    hits,      \* the chunks returned, with their ranking_score
    served     \* auxiliary: chunks usable at some moment of this request

rows      == <<index, changes, served>>
rankings  == <<vec, lex, scored>>
retrieval == <<index, changes, phase, ask, reranker, vec, lex, scored, hits, served>>

Chunks == [doc : Docs, run : 1..MaxRuns, pos : Positions]
NoRanking == [c \in {} |-> 1]
SearchPhases == {"vector", "lexical", "score"}

Gone == [status |-> "absent", run |-> 0, models |-> {}]
IndexStates == [status : {"absent", "uploaded", "processing", "ready", "failed"},
                run : 0..MaxRuns, models : SUBSET Models]

----------------------------------------------------------------------------
(* Rankings *)

(* a comes before b in the lexicographic order of tuples of one length *)
Precedes(a, b) ==
    \E i \in DOMAIN a : a[i] < b[i] /\ \A j \in 1..(i - 1) : a[j] = b[j]

Rank(S, Before(_, _), c) == 1 + Cardinality({d \in S : Before(d, c)})

Top(S, Before(_, _), k) ==
    [c \in {d \in S : Rank(S, Before, d) <= k} |-> Rank(S, Before, c)]

(* scores are fractions, compared without rounding *)
Higher(x, y) == x[1] * y[2] > y[1] * x[2]

RankIn(ranking, c, missing) ==
    IF c \in DOMAIN ranking THEN ranking[c] ELSE missing

(* fault: a ranking that misses the chunk counts as rank 0 *)
RrfMissingIsFirst(v, l) == <<2 * RrfK + v + l, (RrfK + v) * (RrfK + l)>>

(* the sum of 1 / (RrfK + rank) over the rankings that have the chunk *)
Rrf(v, l) ==
    CASE v = 0 -> <<1, RrfK + l>>
      [] l = 0 -> <<1, RrfK + v>>
      [] OTHER -> <<2 * RrfK + v + l, (RrfK + v) * (RrfK + l)>>

FusedScore(c) == Rrf(RankIn(vec, c, 0), RankIn(lex, c, 0))

Missing == 1000000000

TieKey(c) ==
    LET v == RankIn(vec, c, Missing)
        l == RankIn(lex, c, Missing)
    IN  <<IF v < l THEN v ELSE l, v, l, c.doc, c.run, c.pos>>

FusedBefore(c, d) ==
    \/ Higher(FusedScore(c), FusedScore(d))
    \/ /\ ~Higher(FusedScore(d), FusedScore(c))
       /\ Precedes(TieKey(c), TieKey(d))

----------------------------------------------------------------------------
(* The three statements *)

Sim(c) == Similarity[ask.query][c.doc][c.pos]
Words(c) == LexicalScore[ask.query][c.doc][c.pos]

Ready(c) ==
    /\ c.doc \in Mine
    /\ index[c.doc].status = "ready"
    /\ index[c.doc].run = c.run

Embedded(c) == index[c.doc].run = c.run /\ Model \in index[c.doc].models

Usable == {c \in Chunks : Ready(c) /\ Embedded(c)}

InScope(c) ==
    /\ ask.scope = {} \/ c.doc \in ask.scope
    /\ RoleOf[c.pos] \in ask.roles

SimilarBefore(c, d) ==
    Precedes(<<-Sim(c), c.pos, c.doc, c.run>>, <<-Sim(d), d.pos, d.doc, d.run>>)
WordsBefore(c, d) ==
    Precedes(<<-Words(c), c.pos, c.doc, c.run>>, <<-Words(d), d.pos, d.doc, d.run>>)

Reranks == reranker /\ ask.topK <= Depth

SearchK == IF Reranks THEN Depth ELSE ask.topK
CandidateK == IF 4 * SearchK < 50 THEN 4 * SearchK ELSE 50

(* fault: the status of the document is not a condition of the search *)
SearchAnyStatus ==
    /\ phase = "vector"
    /\ vec' = Top({c \in Chunks : c.doc \in Mine /\ Embedded(c) /\ InScope(c)
                                  /\ Sim(c) >= ask.floor},
                  SimilarBefore, CandidateK)
    /\ phase' = "lexical"
    /\ UNCHANGED <<rows, ask, reranker, lex, scored, hits>>

SearchSimilar ==
    /\ phase = "vector"
    /\ vec' = Top({c \in Chunks : Ready(c) /\ Embedded(c) /\ InScope(c)
                                  /\ Sim(c) >= ask.floor},
                  SimilarBefore, CandidateK)
    /\ phase' = "lexical"
    /\ UNCHANGED <<rows, ask, reranker, lex, scored, hits>>

SearchLexical ==
    /\ phase = "lexical"
    /\ lex' = Top({c \in Chunks : Ready(c) /\ InScope(c) /\ Words(c) > 0},
                  WordsBefore, CandidateK)
    /\ phase' = "score"
    /\ UNCHANGED <<rows, ask, reranker, vec, scored, hits>>

ScoreSpecific ==
    /\ phase = "score"
    /\ scored' = {c \in DOMAIN lex \ DOMAIN vec :
                    Ready(c) /\ Embedded(c) /\ InScope(c)}
    /\ phase' = "fuse"
    /\ UNCHANGED <<rows, ask, reranker, vec, lex, hits>>

(* candidates whose vector was read; a score is never made up *)
Fusable == {c \in DOMAIN vec \cup scored : Sim(c) >= ask.floor}

Fuse ==
    /\ phase = "fuse"
    /\ hits' = [c \in DOMAIN Top(Fusable, FusedBefore, SearchK) |-> FusedScore(c)]
    /\ phase' = IF Reranks /\ Fusable # {} THEN "rerank" ELSE "evidence"
    /\ UNCHANGED <<rows, ask, reranker, rankings>>

RerankedBefore(score, c, d) ==
    \/ score[c] > score[d]
    \/ score[c] = score[d] /\ FusedBefore(c, d)

Best(score) ==
    {c \in DOMAIN hits :
        Cardinality({d \in DOMAIN hits : RerankedBefore(score, d, c)}) < ask.topK}

(* rerank_hits: exactly one score per candidate, in percent, or the hybrid *)
(* order stays; the best ask.topK are returned                             *)
Rerank ==
    /\ phase = "rerank"
    /\ \/ \E score \in [DOMAIN hits -> {0, 100}] :
            hits' = [c \in Best(score) |-> <<score[c], 100>>]
       \/ hits' = [c \in DOMAIN Top(DOMAIN hits, FusedBefore, ask.topK) |-> hits[c]]
    /\ phase' = "evidence"
    /\ UNCHANGED <<rows, ask, reranker, rankings>>

----------------------------------------------------------------------------
(* Commits of other requests while the statements run *)

Commit(d, state) ==
    /\ phase \in SearchPhases
    /\ changes < MaxChanges
    /\ changes' = changes + 1
    /\ index' = [index EXCEPT ![d] = state]
    /\ served' = served \cup Usable'
    /\ UNCHANGED <<phase, ask, reranker, rankings, hits>>

ClaimDocument(d) ==
    /\ index[d].status \in {"uploaded", "ready", "failed"}
    /\ Commit(d, [index[d] EXCEPT !.status = "processing"])

(* the rows of a run, embedded with the model of its server; a run that was *)
(* overtaken by another one leaves the status it finds                      *)
FinishProcessing(d) ==
    /\ index[d].status \notin {"absent", "uploaded"}
    /\ index[d].run < MaxRuns
    /\ \E m \in Models, status \in {"ready", index[d].status} :
        /\ status = "ready" \/ index[d].run > 0
        /\ Commit(d, [status |-> status, run |-> index[d].run + 1, models |-> {m}])

MarkFailed(d) ==
    /\ index[d].status \notin {"absent", "failed"}
    /\ Commit(d, [index[d] EXCEPT !.status = "failed"])

RebuildEmbeddings(d) ==
    /\ index[d].run > 0
    /\ \E m \in Models \ index[d].models :
        Commit(d, [index[d] EXCEPT !.models = @ \cup {m}])

DeleteDocument(d) == index[d].status # "absent" /\ Commit(d, Gone)

OthersCommit ==
    \E d \in Docs : \/ ClaimDocument(d) \/ FinishProcessing(d) \/ MarkFailed(d)
                    \/ RebuildEmbeddings(d) \/ DeleteDocument(d)

(* these are the commits of DocumentCatalog, which DocumentLifecycle keeps *)
Catalog == INSTANCE DocumentCatalog WITH
    status    <- [d \in Docs |-> index[d].status],
    indexed   <- {d \in Docs : index[d].run > 0},
    models    <- [d \in Docs |-> index[d].models],
    ContentOf <- [d \in Docs |-> d],
    Textless  <- {}
=============================================================================

------------------------------- MODULE VoiceTurn -------------------------------
(***************************************************************************)
(* A voice session on one conversation.  LiveKit calls llm_node with each  *)
(* utterance; a thread generates the answer with the chat engine, another  *)
(* one stores the turn, then the answer is given to be spoken.  LiveKit    *)
(* cancels an llm_node when the user speaks again: the thread it waits for *)
(* goes on, its result is dropped.  Meanwhile the conversation is written  *)
(* to, switched and deleted through the other endpoints.                   *)
(*                                                                         *)
(* Every SELECT and every commit is a step of its own.  An utterance is    *)
(* named by its number.  Answers and prompts are left out; known is what   *)
(* of the conversation an answer was asked for with.                       *)
(***************************************************************************)
EXTENDS Integers, Sequences, FiniteSets

CONSTANTS
    Docs,            \* identities of documents
    Images,          \* those a vision model looks at
    MaxScope,        \* MAX_CONVERSATION_DOCUMENTS
    NormalTurns,     \* NORMAL_CHAT_HISTORY_LIMIT, in turns
    KnowledgeTurns,  \* KNOWLEDGE_CHAT_HISTORY_LIMIT, in turns
    Languages,       \* _SUPPORTED_TTS_LANGUAGES
    Bangla, English, \* two of them
    Fallback,        \* settings.VOICE_TTS_DEFAULT_LANGUAGE
    Transcripts,     \* what can be told of a final transcript
    NoLanguage, NoSession,
    MaxUtterances,   \* bounds the utterances of the session
    MaxTexts         \* bounds the turns stored by other requests

Modes == {"normal", "knowledge"}
Utterances == 1 .. MaxUtterances
(* the language of the script and of the provider, or NoLanguage; how many *)
(* romanized Bangla words and whether any Latin letter was heard           *)
Transcript == [script : Languages \cup {NoLanguage},
               provider : Languages \cup {NoLanguage},
               words : Nat, latin : BOOLEAN]
Job == [mode : Modes, docs : SUBSET Docs]

ASSUME LanguageAssumption ==
    /\ {Bangla, English, Fallback} \subseteq Languages /\ NoLanguage \notin Languages
    /\ Transcripts \subseteq Transcript
ASSUME BoundAssumption ==
    /\ MaxUtterances \in Nat /\ MaxTexts \in Nat /\ MaxScope \in Nat
    /\ NormalTurns \in Nat \ {0} /\ KnowledgeTurns \in Nat \ {0}
    /\ IsFiniteSet(Docs) /\ Images \subseteq Docs /\ NoSession \notin Job

VARIABLES
    mode,     \* the mode of the conversation, "none" before and "deleted" after it
    log,      \* its stored turns: by whom (0 is another request), in which mode
    scope,    \* its conversation_documents
    doc,      \* "none", "ready" or "other" (not usable) for each document
    job,      \* the session's metadata: VoiceJobData
    language, \* last_spoken_language and _spoken_language
    consumed, \* _normal_documents_consumed
    node,     \* what became of the llm_node of each utterance
    thread,   \* the stage of the threads that work for it
    reply     \* the documents, fresh scope links and history of its answer

conversation == <<mode, log, scope>>
session == <<job, language, consumed>>
replies == <<node, thread, reply>>
vars == <<mode, log, scope, doc, job, language, consumed, node, thread, reply>>

Stages == {"idle", "queued", "loaded", "resolved", "asked", "generated",
           "persisting", "saving", "saved"}
Nodes == {"silent", "waiting", "cut", "failed", "spoken"}
Turn == [by : 0 .. MaxUtterances, mode : Modes]
Reply == [docs : SUBSET Docs, fresh : SUBSET Docs,
          known : SUBSET (0 .. MaxUtterances), alone : BOOLEAN]
NoReply == [docs |-> {}, fresh |-> {}, known |-> {}, alone |-> FALSE]

TypeOK ==
    /\ mode \in Modes \cup {"none", "deleted"}
    /\ log \in Seq(Turn)
    /\ scope \subseteq Docs
    /\ doc \in [Docs -> {"none", "ready", "other"}]
    /\ job \in Job \cup {NoSession}
    /\ language \in Languages \cup {NoLanguage}
    /\ consumed \in BOOLEAN
    /\ node \in [Utterances -> Nodes]
    /\ thread \in [Utterances -> Stages]
    /\ reply \in [Utterances -> Reply]
    /\ \A u \in Utterances :
        /\ node[u] = "waiting" => thread[u] # "idle"
        /\ thread[u] # "idle" => job # NoSession
        /\ \A v \in Utterances : node[u] = "waiting" /\ node[v] = "waiting" => u = v

Init ==
    /\ mode = "none" /\ log = <<>> /\ scope = {}
    /\ doc = [d \in Docs |-> "none"]
    /\ job = NoSession /\ language = NoLanguage /\ consumed = FALSE
    /\ node = [u \in Utterances |-> "silent"]
    /\ thread = [u \in Utterances |-> "idle"]
    /\ reply = [u \in Utterances |-> NoReply]

----------------------------------------------------------------------------
(* POST /voice/session *)

(* a conversation in another mode is refused *)
Resolvable(m) == mode \in {"none", m}
DocumentsReady(docs) == \A d \in docs : doc[d] = "ready"

OpenSession(m, docs) ==
    /\ job = NoSession /\ \A u \in Utterances : node[u] = "silent"
    /\ Resolvable(m) /\ DocumentsReady(docs)
    /\ mode' = m
    /\ job' = [mode |-> m, docs |-> docs]
    /\ UNCHANGED <<log, scope, doc, language, consumed, replies>>

(* the conversation is created before the documents are checked: a refused *)
(* request leaves it behind                                                *)
RefuseSession(m, docs) ==
    /\ mode = "none" /\ ~DocumentsReady(docs)
    /\ mode' = m
    /\ UNCHANGED <<log, scope, doc, session, replies>>

(* the job's process ends, and its threads with it *)
CloseSession ==
    /\ job # NoSession
    /\ job' = NoSession
    /\ node' = [u \in Utterances |-> IF node[u] = "waiting" THEN "cut" ELSE node[u]]
    /\ thread' = [u \in Utterances |-> "idle"]
    /\ UNCHANGED <<conversation, doc, language, consumed, reply>>

----------------------------------------------------------------------------
(* What is heard *)

LooksLikeBangla(t, previous) ==
    t.words >= 2 \/ (t.words >= 1 /\ previous = Bangla)

(* fault: the provider's guess is taken before the words heard *)
ResolveByProvider(t, previous) ==
    CASE t.script # NoLanguage -> t.script
      [] t.script = NoLanguage /\ t.provider # NoLanguage -> t.provider
      [] OTHER -> IF previous # NoLanguage THEN previous ELSE English

(* _resolve_voice_language, the first rule that applies *)
Resolve(t, previous) ==
    IF t.script # NoLanguage THEN t.script
    ELSE IF LooksLikeBangla(t, previous) THEN Bangla
    ELSE IF t.provider # NoLanguage THEN t.provider
    ELSE IF previous # NoLanguage THEN previous
    ELSE IF t.latin THEN English ELSE Fallback

Transcribe(t) ==
    /\ job # NoSession
    /\ language' = Resolve(t, language)
    /\ UNCHANGED <<conversation, doc, job, consumed, replies>>

(* fault: an utterance does not end the answer to the one before *)
CutNone(except) == [v \in Utterances |-> IF v \in except THEN "waiting" ELSE node[v]]

Cut(except) ==
    [v \in Utterances |-> IF v \in except THEN "waiting"
                          ELSE IF node[v] = "waiting" THEN "cut" ELSE node[v]]

(* the user's turn has ended: what is being answered is interrupted, and   *)
(* llm_node starts a thread for the new utterance                          *)
Hear(u) ==
    /\ job # NoSession /\ language # NoLanguage
    /\ node[u] = "silent" /\ \A v \in 1 .. u - 1 : node[v] # "silent"
    /\ node' = Cut({u})
    /\ thread' = [thread EXCEPT ![u] = "queued"]
    /\ UNCHANGED <<conversation, doc, session, reply>>

(* the user speaks, and nothing is made of it *)
Interrupt ==
    /\ \E u \in Utterances : node[u] = "waiting"
    /\ node' = Cut({})
    /\ UNCHANGED <<conversation, doc, session, thread, reply>>

----------------------------------------------------------------------------
(* _generate_turn, in a thread and with a session of its own *)

Goto(u, stage) == thread' = [thread EXCEPT ![u] = stage]

(* an exception ends the thread and, unless it was cut, the llm_node *)
Fail(u) ==
    /\ Goto(u, "idle")
    /\ node' = [node EXCEPT ![u] = IF @ = "waiting" THEN "failed" ELSE @]
    /\ UNCHANGED <<conversation, doc, session, reply>>

Continue(u, stage) ==
    /\ Goto(u, stage)
    /\ UNCHANGED <<conversation, doc, session, node, reply>>

(* the conversation has to be there, in the mode of the job *)
LoadConversation(u) ==
    /\ thread[u] = "queued"
    /\ IF mode = job.mode THEN Continue(u, "loaded") ELSE Fail(u)

Requested == IF job.mode = "normal" /\ consumed THEN {} ELSE job.docs

(* resolve_conversation_document_scope *)
ResolveScope(u) ==
    LET existing == IF job.mode = "knowledge" THEN scope ELSE {}
        effective == existing \cup Requested
    IN
    /\ thread[u] = "loaded"
    /\ IF Cardinality(effective) <= MaxScope /\ \A d \in effective : doc[d] = "ready"
       THEN /\ reply' = [reply EXCEPT
                  ![u].docs = Requested,
                  ![u].fresh = IF job.mode = "knowledge" THEN Requested \ scope ELSE {}]
            /\ Goto(u, "resolved")
            /\ UNCHANGED <<conversation, doc, session, node>>
       ELSE Fail(u)

(* the last n of a set of positions *)
LastOf(S, n) == {i \in S : Cardinality({j \in S : j > i}) < n}
OfKnowledge(S) == {i \in S : log[i].mode = "knowledge"}

(* fault: the oldest messages instead of the latest *)
EarliestTurns(m) == {i \in DOMAIN log : i <= NormalTurns}

(* get_recent_messages_for_conversation; a question of a Knowledge         *)
(* conversation takes twice as many and keeps those of its mode            *)
RecentTurns(m) ==
    IF m = "normal" THEN LastOf(DOMAIN log, NormalTurns)
    ELSE LastOf(OfKnowledge(LastOf(DOMAIN log, 2 * KnowledgeTurns)), KnowledgeTurns)

(* what the prompt has of the history *)
Authors(S) == {log[i].by : i \in S}

(* execute_chat_turn *)

(* the question is about the product itself, whose answer is fixed; only   *)
(* attachments of a normal turn are read before it is given                *)
TakeProductQuestion(u) ==
    /\ thread[u] = "resolved"
    /\ reply' = [reply EXCEPT ![u].alone = TRUE]
    /\ Goto(u, IF job.mode = "normal" /\ reply[u].docs # {} THEN "asked"
               ELSE "generated")
    /\ UNCHANGED <<conversation, doc, session, node>>

ReadHistory(u) ==
    /\ thread[u] = "resolved"
    /\ reply' = [reply EXCEPT ![u].known = Authors(RecentTurns(job.mode))]
    /\ Goto(u, "asked")
    /\ UNCHANGED <<conversation, doc, session, node>>

(* the history of a Knowledge conversation only serves to rewrite the      *)
(* question; when that fails the question is asked as it is                *)
AskAsIs(u) ==
    /\ thread[u] = "asked" /\ job.mode = "knowledge"
    /\ reply' = [reply EXCEPT ![u].known = {}, ![u].alone = TRUE]
    /\ UNCHANGED <<conversation, doc, session, node, thread>>

Converse(u) ==
    /\ thread[u] = "asked" /\ job.mode = "normal" /\ reply[u].docs = {}
    /\ Continue(u, "generated")

(* a single image is shown to a vision model, together with its text *)
IsImage(u) == \E d \in Images : reply[u].docs = {d} /\ doc[d] = "ready"
SeeImage(u) ==
    /\ thread[u] = "asked" /\ job.mode = "normal" /\ IsImage(u)
    /\ Continue(u, "generated")

(* attachments are read as they are now *)
ReadAttachments(u) ==
    /\ thread[u] = "asked" /\ job.mode = "normal"
    /\ reply[u].docs # {} /\ ~IsImage(u)
    /\ IF DocumentsReady(reply[u].docs) THEN Continue(u, "generated") ELSE Fail(u)

(* the grounded answer or refusal of the Knowledge mode *)
AnswerFromEvidence(u) ==
    /\ thread[u] = "asked" /\ job.mode = "knowledge"
    /\ Continue(u, "generated")

----------------------------------------------------------------------------
(* _persist_turn, in a second thread, if the llm_node still waits *)

Persist(u) ==
    /\ thread[u] = "generated"
    /\ Continue(u, IF node[u] = "waiting" THEN "persisting" ELSE "idle")

(* loaded again; the mode is not compared again *)
ReloadConversation(u) ==
    /\ thread[u] = "persisting"
    /\ IF mode \in Modes THEN Continue(u, "saving") ELSE Fail(u)

(* persist_chat_turn: the turn and its links, in one commit *)
Save(u) ==
    /\ thread[u] = "saving"
    /\ mode \in Modes
    /\ \A d \in reply[u].fresh : doc[d] # "none" /\ d \notin scope
    /\ log' = Append(log, [by |-> u, mode |-> job.mode])
    /\ scope' = scope \cup reply[u].fresh
    /\ Goto(u, "saved")
    /\ UNCHANGED <<mode, doc, session, node, reply>>

(* a provider, a query or the commit fails, or a row is not read again     *)
(* after the commit                                                        *)
Break(u) == thread[u] \notin {"idle", "generated"} /\ Fail(u)

(* fault: the answer is spoken as soon as it is there *)
SpeakUnsaved(u) ==
    /\ thread[u] \in {"generated", "saved"}
    /\ node' = [node EXCEPT ![u] = IF @ = "waiting" THEN "spoken" ELSE @]
    /\ Goto(u, IF thread[u] = "generated" THEN "persisting" ELSE "idle")
    /\ UNCHANGED <<conversation, doc, session, reply>>

(* fault: an interrupted answer counts as given *)
SpeakOrNot(u) ==
    /\ thread[u] = "saved"
    /\ node' = [node EXCEPT ![u] = IF @ = "waiting" THEN "spoken" ELSE @]
    /\ consumed' = (consumed \/ (job.mode = "normal" /\ job.docs # {}))
    /\ Goto(u, "idle")
    /\ UNCHANGED <<conversation, doc, job, language, reply>>

(* memories are extracted, then llm_node, unless it was cut, notes that    *)
(* the documents have been used and yields the answer                      *)
Speak(u) ==
    /\ thread[u] = "saved"
    /\ node' = [node EXCEPT ![u] = IF @ = "waiting" THEN "spoken" ELSE @]
    /\ consumed' = (consumed \/ (/\ node[u] = "waiting"
                                /\ job.mode = "normal" /\ job.docs # {}))
    /\ Goto(u, "idle")
    /\ UNCHANGED <<conversation, doc, job, language, reply>>

----------------------------------------------------------------------------
(* The rest of the API, seen from here *)

TextTurn ==
    /\ mode \in Modes
    /\ Cardinality({i \in DOMAIN log : log[i].by = 0}) < MaxTexts
    /\ log' = Append(log, [by |-> 0, mode |-> mode])
    /\ UNCHANGED <<mode, scope, doc, session, replies>>

ChangeMode ==
    /\ mode \in Modes
    /\ \E m \in Modes \ {mode} : mode' = m
    /\ UNCHANGED <<log, scope, doc, session, replies>>

DeleteConversation ==
    /\ mode \in Modes
    /\ mode' = "deleted" /\ log' = <<>> /\ scope' = {}
    /\ UNCHANGED <<doc, session, replies>>

(* a document is stored, processed, processed again *)
ChangeDoc(d) ==
    /\ doc' = [doc EXCEPT ![d] = IF @ = "ready" THEN "other" ELSE "ready"]
    /\ doc[d] = "none" => job = NoSession
    /\ UNCHANGED <<conversation, session, replies>>

DeleteDoc(d) ==
    /\ doc[d] # "none"
    /\ doc' = [doc EXCEPT ![d] = "none"]
    /\ scope' = scope \ {d}
    /\ UNCHANGED <<mode, log, session, replies>>

Work(u) ==
    \/ LoadConversation(u) \/ ResolveScope(u)
    \/ TakeProductQuestion(u) \/ ReadHistory(u) \/ AskAsIs(u)
    \/ Converse(u) \/ SeeImage(u) \/ ReadAttachments(u) \/ AnswerFromEvidence(u)
    \/ Persist(u) \/ ReloadConversation(u) \/ Save(u) \/ Speak(u) \/ Break(u)

Next ==
    \/ \E m \in Modes, docs \in SUBSET Docs :
        OpenSession(m, docs) \/ RefuseSession(m, docs)
    \/ CloseSession
    \/ \E t \in Transcripts : Transcribe(t)
    \/ \E u \in Utterances : Hear(u) \/ Work(u)
    \/ Interrupt
    \/ TextTurn \/ ChangeMode \/ DeleteConversation
    \/ \E d \in Docs : ChangeDoc(d) \/ DeleteDoc(d)

Spec == Init /\ [][Next]_vars

----------------------------------------------------------------------------
(* Properties *)

Spoken == {u \in Utterances : node[u] = "spoken"}

(* What the user has heard is stored in the conversation, unless it has    *)
(* been deleted since: no interruption, failure or race lets an answer be  *)
(* spoken that the history does not have.                                  *)
SpokenIsStored ==
    mode # "deleted" => \A u \in Spoken : u \in Authors(DOMAIN log)

Window == IF job.mode = "normal" THEN NormalTurns ELSE KnowledgeTurns

(* An answer is asked for with what was said before: the history it was    *)
(* given has every earlier answer the user heard, up to the limit of the   *)
(* history, although turns are stored by threads that outlive an           *)
(* interruption and by other requests; and the history has them in order.  *)
(* A question asked alone, without the history, is the exception.          *)
KnowsWhatWasSaid ==
    mode # "deleted" /\ job # NoSession =>
        \A i, j \in DOMAIN log :
            /\ log[i].by < log[j].by /\ {log[i].by, log[j].by} \subseteq Spoken
            /\ ~reply[log[j].by].alone
            => i < j /\ (j - i <= Window => log[i].by \in reply[log[j].by].known)

(* The documents of a normal session reach one answer: when they count as  *)
(* used the user has heard one answer they were given to and no other, and *)
(* as long as they do not he has heard none.                               *)
DocumentsReachOneAnswer ==
    job # NoSession /\ job.mode = "normal" /\ job.docs # {} =>
        /\ consumed => Cardinality({u \in Spoken : reply[u].docs = job.docs}) = 1
        /\ ~consumed => Spoken = {}

(* As long as no script decides for a language: who has been speaking      *)
(* Bangla stays with Bangla while any word of it is heard, and no guess or *)
(* default replaces the language when nothing can be told of an utterance. *)
LanguageIsKept ==
    [][\A t \in Transcripts :
        /\ Transcribe(t) /\ language # NoLanguage /\ t.script = NoLanguage
        /\ \/ t.words > 0 /\ language = Bangla
           \/ t.words = 0 /\ t.provider = NoLanguage
        => language' = language]_vars
=============================================================================

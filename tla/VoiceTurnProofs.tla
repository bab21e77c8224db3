---------------------------- MODULE VoiceTurnProofs ----------------------------
(***************************************************************************)
(* What VoiceTurn promises for any number of utterances and documents.     *)
(***************************************************************************)
EXTENDS VoiceTurn, FiniteSetTheorems, TLAPS

LEMMA RecentIsStored ==
    ASSUME NEW m \in Modes
    PROVE  RecentTurns(m) \subseteq DOMAIN log
BY DEF RecentTurns, LastOf, OfKnowledge

(* Who is read of the history is an utterance or another request. *)
LEMMA AuthorsType ==
    ASSUME TypeOK, NEW S \in SUBSET (DOMAIN log)
    PROVE  Authors(S) \subseteq 0 .. MaxUtterances
<1> SUFFICES ASSUME NEW i \in S
             PROVE  log[i].by \in 0 .. MaxUtterances
    BY DEF Authors
<1>1. log \in Seq(Turn) /\ i \in DOMAIN log
    BY DEF TypeOK
<1>2. log[i] \in Turn
    BY <1>1
<1> QED BY <1>2 DEF Turn

LEMMA ReplyTypes ==
    ASSUME NEW q \in Reply, NEW D \in SUBSET Docs, NEW F \in SUBSET Docs,
           NEW K \in SUBSET (0 .. MaxUtterances)
    PROVE  /\ [q EXCEPT !.docs = D, !.fresh = F] \in Reply
           /\ [q EXCEPT !.known = {}, !.alone = TRUE] \in Reply
           /\ [q EXCEPT !.known = K] \in Reply
           /\ [q EXCEPT !.alone = TRUE] \in Reply
BY DEF Reply

LEMMA ResolveType ==
    ASSUME NEW t \in Transcript, NEW p \in Languages \cup {NoLanguage}
    PROVE  Resolve(t, p) \in Languages
BY LanguageAssumption DEF Resolve, Transcript

(* A thread at work has a session, and the job its two fields.             *)
LEMMA JobTypes ==
    ASSUME TypeOK, NEW u \in Utterances, thread[u] # "idle"
    PROVE  /\ job \in Job /\ job.mode \in Modes /\ job.docs \in SUBSET Docs
           /\ Requested \in SUBSET Docs
BY DEF TypeOK, Job, Requested

LEMMA FailTypes ==
    ASSUME TypeOK, NEW u \in Utterances, Fail(u)
    PROVE  TypeOK'
BY DEF TypeOK, Fail, Goto, conversation, session, Nodes, Stages

LEMMA ContinueTypes ==
    ASSUME TypeOK, NEW u \in Utterances, NEW s \in Stages, thread[u] # "idle",
           s # "idle" \/ node[u] # "waiting", Continue(u, s)
    PROVE  TypeOK'
BY DEF TypeOK, Continue, Goto, conversation, session

LEMMA TypesInductive ==
    ASSUME TypeOK, [Next]_vars
    PROVE  TypeOK'
<1> USE DEF conversation, session, replies
<1>1. ASSUME NEW m \in Modes, NEW docs \in SUBSET Docs, OpenSession(m, docs)
      PROVE  TypeOK'
    BY <1>1 DEF OpenSession, TypeOK, Job
<1>2. ASSUME NEW m \in Modes, NEW docs \in SUBSET Docs, RefuseSession(m, docs)
      PROVE  TypeOK'
    BY <1>2 DEF RefuseSession, TypeOK
<1>3. CASE CloseSession
    BY <1>3 DEF CloseSession, TypeOK, Nodes, Stages
<1>4. ASSUME NEW t \in Transcripts, Transcribe(t)
      PROVE  TypeOK'
    <2>1. language' \in Languages
        BY <1>4, ResolveType, LanguageAssumption DEF Transcribe, TypeOK
    <2> QED BY <1>4, <2>1 DEF Transcribe, TypeOK
<1>5. ASSUME NEW u \in Utterances, Hear(u)
      PROVE  TypeOK'
    <2>1. node' \in [Utterances -> Nodes]
        BY <1>5 DEF Hear, Cut, TypeOK, Nodes
    <2>2. thread' = [thread EXCEPT ![u] = "queued"] /\ job' = job /\ job # NoSession
        BY <1>5 DEF Hear
    <2>3. \A v \in Utterances : node'[v] = "waiting" => v = u
        BY <1>5 DEF Hear, Cut
    <2> QED BY <1>5, <2>1, <2>2, <2>3 DEF Hear, TypeOK, Stages
<1>6. CASE Interrupt
    BY <1>6 DEF Interrupt, Cut, TypeOK, Nodes
<1>7. ASSUME NEW u \in Utterances, Work(u)
      PROVE  TypeOK'
    <2> USE JobTypes, FailTypes, ContinueTypes DEF Stages
    <2>1. CASE LoadConversation(u)
        BY <2>1 DEF LoadConversation
    <2>2. CASE ResolveScope(u)
        <3>1. Requested \in SUBSET Docs /\ Requested \ scope \in SUBSET Docs
            BY <2>2 DEF ResolveScope
        <3>2. CASE Fail(u)
            BY <3>2
        <3>3. CASE ~Fail(u)
            <4> DEFINE F == IF job.mode = "knowledge" THEN Requested \ scope ELSE {}
                       q == [reply[u] EXCEPT !.docs = Requested, !.fresh = F]
            <4>1. reply[u] \in Reply /\ F \in SUBSET Docs
                BY <3>1 DEF TypeOK
            <4>2. reply' = [reply EXCEPT ![u] = q]
                BY <2>2, <3>3 DEF ResolveScope, TypeOK
            <4> HIDE DEF F
            <4>3. q \in Reply
                BY <3>1, <4>1, ReplyTypes
            <4> HIDE DEF q
            <4> QED BY <2>2, <3>3, <4>2, <4>3 DEF ResolveScope, Goto, TypeOK
        <3> QED BY <3>2, <3>3
    <2>3. CASE TakeProductQuestion(u)
        BY <2>3, ReplyTypes DEF TakeProductQuestion, Goto, TypeOK
    <2>4. CASE ReadHistory(u)
        <3>1. Authors(RecentTurns(job.mode)) \subseteq 0 .. MaxUtterances
            BY <2>4, RecentIsStored, AuthorsType DEF ReadHistory
        <3> QED BY <2>4, <3>1, ReplyTypes DEF ReadHistory, Goto, TypeOK
    <2>5. CASE AskAsIs(u)
        <3>1. [reply[u] EXCEPT !.known = {}, !.alone = TRUE] \in Reply
            BY ReplyTypes DEF TypeOK
        <3> QED BY <2>5, <3>1 DEF AskAsIs, TypeOK
    <2>6. CASE Converse(u)
        BY <2>6 DEF Converse
    <2>7. CASE SeeImage(u)
        BY <2>7 DEF SeeImage
    <2>8. CASE ReadAttachments(u)
        BY <2>8 DEF ReadAttachments
    <2>9. CASE AnswerFromEvidence(u)
        BY <2>9 DEF AnswerFromEvidence
    <2>10. CASE Persist(u)
        BY <2>10 DEF Persist
    <2>11. CASE ReloadConversation(u)
        BY <2>11 DEF ReloadConversation
    <2>12. CASE Save(u)
        <3>1. [by |-> u, mode |-> job.mode] \in Turn
            BY <2>12, BoundAssumption DEF Save, Turn, Utterances
        <3>2. log' \in Seq(Turn) /\ scope' \subseteq Docs
            BY <2>12, <3>1 DEF Save, TypeOK, Reply
        <3> QED BY <2>12, <3>2 DEF Save, Goto, TypeOK
    <2>13. CASE Speak(u)
        BY <2>13 DEF Speak, Goto, TypeOK, Nodes
    <2>14. CASE Break(u)
        BY <2>14 DEF Break
    <2> QED BY <1>7, <2>1, <2>2, <2>3, <2>4, <2>5, <2>6, <2>7, <2>8, <2>9, <2>10,
               <2>11, <2>12, <2>13, <2>14 DEF Work
<1>8. CASE TextTurn
    <2>1. [by |-> 0, mode |-> mode] \in Turn
        BY <1>8, BoundAssumption DEF TextTurn, Turn
    <2> QED BY <1>8, <2>1 DEF TextTurn, TypeOK
<1>9. CASE ChangeMode
    BY <1>9 DEF ChangeMode, TypeOK
<1>10. CASE DeleteConversation
    BY <1>10 DEF DeleteConversation, TypeOK
<1>11. ASSUME NEW d \in Docs, ChangeDoc(d) \/ DeleteDoc(d)
       PROVE  TypeOK'
    BY <1>11 DEF ChangeDoc, DeleteDoc, TypeOK
<1>12. CASE UNCHANGED vars
    BY <1>12 DEF vars, TypeOK
<1> QED BY <1>1, <1>2, <1>3, <1>4, <1>5, <1>6, <1>7, <1>8, <1>9, <1>10, <1>11, <1>12
        DEF Next

(* TypeOK: the variables keep their types; one answer is awaited at a      *)
(* time, by a thread at work, and no thread outlives the session.          *)
THEOREM TypeCorrect == Spec => []TypeOK
<1>1. ASSUME Init PROVE TypeOK
    <2>1. NoReply \in Reply
        BY DEF NoReply, Reply
    <2>2. reply \in [Utterances -> Reply]
        BY <1>1, <2>1 DEF Init
    <2>3. /\ node \in [Utterances -> Nodes] /\ thread \in [Utterances -> Stages]
          /\ \A u \in Utterances : node[u] = "silent" /\ thread[u] = "idle"
        BY <1>1 DEF Init, Nodes, Stages
    <2>4. mode = "none" /\ log \in Seq(Turn) /\ doc \in [Docs -> {"none", "ready", "other"}]
        BY <1>1 DEF Init
    <2> QED BY <1>1, <2>2, <2>3, <2>4 DEF Init, TypeOK
<1> QED BY <1>1, TypesInductive, PTL DEF Spec

----------------------------------------------------------------------------
(* What is heard is stored *)

(* What is stored of an answer stays, and one whose thread is past its     *)
(* commit is there before anyone hears it.                                 *)
StoredFirst ==
    mode # "deleted" =>
        \A u \in Utterances :
            thread[u] = "saved" \/ node[u] = "spoken" => u \in Authors(DOMAIN log)

LEMMA AppendAuthors ==
    ASSUME TypeOK, NEW t \in Turn, log' = Append(log, t)
    PROVE  /\ Authors(DOMAIN log) \subseteq Authors(DOMAIN log)'
           /\ t.by \in Authors(DOMAIN log)'
<1>1. log \in Seq(Turn)
    BY DEF TypeOK
<1>2. /\ DOMAIN log' = 1 .. Len(log) + 1 /\ DOMAIN log = 1 .. Len(log)
      /\ log'[Len(log) + 1] = t /\ \A i \in DOMAIN log : log'[i] = log[i]
      /\ Len(log) \in Nat
    BY <1>1
<1>3. \A i \in DOMAIN log : i \in DOMAIN log'
    BY <1>2
<1>4. Len(log) + 1 \in DOMAIN log'
    BY <1>2
<1> QED BY <1>2, <1>3, <1>4 DEF Authors

(* Which steps can bring a thread past its commit or an answer out. *)
LEMMA StoredFirstInductive ==
    ASSUME TypeOK, StoredFirst, [Next]_vars
    PROVE  StoredFirst'
<1> USE DEF conversation, session, replies
<1>1. ASSUME log' = log, mode = "deleted" => mode' = "deleted",
             \A u \in Utterances :
                thread'[u] = "saved" \/ node'[u] = "spoken" =>
                    thread[u] = "saved" \/ node[u] = "spoken"
      PROVE  StoredFirst'
    BY <1>1 DEF StoredFirst, Authors
<1>2. ASSUME NEW u \in Utterances, Save(u)
      PROVE  StoredFirst'
    <2>1. [by |-> u, mode |-> job.mode] \in Turn
        BY <1>2, JobTypes, BoundAssumption DEF Save, Turn, Utterances
    <2>2. /\ Authors(DOMAIN log) \subseteq Authors(DOMAIN log)'
          /\ u \in Authors(DOMAIN log)'
        BY <1>2, <2>1, AppendAuthors DEF Save
    <2>3. \A v \in Utterances : v # u => thread'[v] = thread[v]
        BY <1>2 DEF Save, Goto, TypeOK
    <2> QED BY <1>2, <2>2, <2>3 DEF Save, StoredFirst
<1>3. CASE TextTurn
    <2>1. [by |-> 0, mode |-> mode] \in Turn
        BY <1>3, BoundAssumption DEF TextTurn, Turn
    <2>2. Authors(DOMAIN log) \subseteq Authors(DOMAIN log)'
        BY <1>3, <2>1, AppendAuthors DEF TextTurn
    <2> QED BY <1>3, <2>2 DEF TextTurn, StoredFirst
<1>4. CASE DeleteConversation
    BY <1>4 DEF DeleteConversation, StoredFirst
<1>5. ASSUME NEW u \in Utterances, NEW s \in Stages, s # "saved", Continue(u, s) \/ Fail(u)
      PROVE  StoredFirst'
    BY <1>1, <1>5 DEF Continue, Fail, Goto, TypeOK
<1>6. ASSUME NEW u \in Utterances, Work(u)
      PROVE  StoredFirst'
    <2>1. CASE ResolveScope(u) \/ TakeProductQuestion(u) \/ ReadHistory(u) \/ AskAsIs(u)
        <3>1. CASE Fail(u)
            BY <3>1, <1>5 DEF Stages
        <3>2. CASE ~Fail(u)
            BY <1>1, <2>1, <3>2 DEF ResolveScope, TakeProductQuestion, ReadHistory,
                AskAsIs, Goto, TypeOK
        <3> QED BY <3>1, <3>2
    <2>2. CASE Speak(u)
        BY <1>1, <2>2 DEF Speak, Goto, TypeOK
    <2>3. CASE \/ LoadConversation(u) \/ Converse(u) \/ SeeImage(u) \/ ReadAttachments(u)
               \/ AnswerFromEvidence(u) \/ Persist(u) \/ ReloadConversation(u) \/ Break(u)
        BY <1>5, <2>3 DEF LoadConversation, Converse, SeeImage, ReadAttachments,
            AnswerFromEvidence, Persist, ReloadConversation, Break, Stages
    <2> QED BY <1>2, <1>6, <2>1, <2>2, <2>3 DEF Work
<1>7. CASE \/ \E m \in Modes, docs \in SUBSET Docs :
                OpenSession(m, docs) \/ RefuseSession(m, docs)
           \/ \E t \in Transcripts : Transcribe(t)
           \/ ChangeMode
           \/ \E d \in Docs : ChangeDoc(d) \/ DeleteDoc(d)
    BY <1>1, <1>7 DEF OpenSession, RefuseSession, Transcribe, ChangeMode, ChangeDoc,
        DeleteDoc, Modes, Resolvable
<1>8. CASE CloseSession \/ Interrupt \/ \E u \in Utterances : Hear(u)
    BY <1>1, <1>8 DEF CloseSession, Interrupt, Hear, Cut, TypeOK
<1>9. CASE UNCHANGED vars
    BY <1>1, <1>9 DEF vars
<1> QED BY <1>3, <1>4, <1>6, <1>7, <1>8, <1>9 DEF Next

(* SpokenIsStored: whatever is interrupted, fails or runs beside it, an    *)
(* answer the user has heard is stored until the conversation is deleted.  *)
THEOREM HeardIsStored == Spec => []SpokenIsStored
<1>1. Init => StoredFirst
    BY DEF Init, StoredFirst
<1>2. StoredFirst => SpokenIsStored
    BY DEF StoredFirst, SpokenIsStored, Spoken
<1> QED BY <1>1, <1>2, TypeCorrect, StoredFirstInductive, PTL DEF Spec

----------------------------------------------------------------------------
(* The language *)

(* LanguageIsKept: as long as no script decides for a language, whoever    *)
(* speaks Bangla stays with it while one word of it is heard, and nothing  *)
(* replaces a language without a reason to.                                *)
THEOREM TheLanguageStays == Spec => LanguageIsKept
<1>1. ASSUME NEW t \in Transcripts, Transcribe(t), language # NoLanguage,
             t.script = NoLanguage,
             \/ t.words > 0 /\ language = Bangla
             \/ t.words = 0 /\ t.provider = NoLanguage
      PROVE  language' = language
    <2>1. t.words \in Nat
        BY LanguageAssumption DEF Transcript
    <2> QED BY <1>1, <2>1 DEF Transcribe, Resolve, LooksLikeBangla
<1>2. [Next]_vars => [\A t \in Transcripts :
        /\ Transcribe(t) /\ language # NoLanguage /\ t.script = NoLanguage
        /\ \/ t.words > 0 /\ language = Bangla
           \/ t.words = 0 /\ t.provider = NoLanguage
        => language' = language]_vars
    BY <1>1
<1> QED BY <1>2, PTL DEF Spec, LanguageIsKept

----------------------------------------------------------------------------
(* The documents of a normal session *)

Given == job # NoSession /\ job.mode = "normal" /\ job.docs # {}

(* Before anything was heard there is no answer and no use of documents.   *)
(* From then on the answer that is awaited is about them exactly as long   *)
(* as none has been given out.                                             *)
UsedOnce ==
    /\ \A u \in Utterances : node[u] = "silent" => reply[u].docs = {}
    /\ \A u \in Utterances : node[u] \in {"silent", "spoken"} => thread[u] = "idle"
    /\ \A u \in Utterances : thread[u] \in {"queued", "loaded"} => reply[u].docs = {}
    /\ consumed => \E u \in Utterances : node[u] = "spoken"
    /\ Given =>
        /\ ~consumed => Spoken = {}
        /\ consumed => \E s \in Spoken : \A u \in Spoken :
                           reply[u].docs = job.docs <=> u = s
        /\ \A u \in Utterances : node[u] = "waiting" =>
            /\ consumed => reply[u].docs # job.docs
            /\ ~consumed /\ thread[u] \notin {"queued", "loaded"} =>
                   reply[u].docs = job.docs

(* Steps that leave what is heard and what it is about as it is; a thread  *)
(* may go on, or end once its answer is not awaited.                       *)
LEMMA UsedOnceKept ==
    ASSUME TypeOK, UsedOnce, job' = job, consumed' = consumed,
           \A u \in Utterances : reply'[u].docs = reply[u].docs,
           \A u \in Utterances :
               /\ node'[u] = node[u] \/ (node[u] = "waiting" /\ node'[u] \in {"cut", "failed"})
               /\ \/ thread'[u] = thread[u]
                  \/ node[u] # "silent" /\ thread'[u] = "idle" /\ node'[u] # "waiting"
                  \/ thread[u] = "queued" /\ thread'[u] = "loaded"
                  \/ /\ thread[u] \notin {"idle", "queued", "loaded"}
                     /\ thread'[u] \notin {"queued", "loaded"}
    PROVE  UsedOnce'
<1>1. \A u \in Utterances : node'[u] = "silent" <=> node[u] = "silent"
    OBVIOUS
<1>2. Spoken' = Spoken
    BY DEF Spoken
<1>3. Given' <=> Given
    BY DEF Given
<1>4. \A u \in Utterances : thread'[u] \in {"queued", "loaded"} => reply'[u].docs = {}
    BY DEF UsedOnce
<1>5. \A u \in Utterances :
        /\ node'[u] = "silent" => reply'[u].docs = {}
        /\ node'[u] \in {"silent", "spoken"} => thread'[u] = "idle"
    BY <1>1 DEF UsedOnce
<1>6. ASSUME Given, NEW u \in Utterances, node'[u] = "waiting"
      PROVE  /\ consumed => reply'[u].docs # job.docs
             /\ ~consumed /\ thread'[u] \notin {"queued", "loaded"} =>
                    reply'[u].docs = job.docs
    <2>1. node[u] = "waiting" /\ thread[u] # "idle"
        BY <1>6 DEF TypeOK
    <2> QED BY <1>6, <2>1 DEF UsedOnce
<1>7. Given => \A u \in Spoken : u \in Utterances
    BY DEF Spoken
<1> QED BY <1>1, <1>2, <1>3, <1>4, <1>5, <1>6, <1>7 DEF UsedOnce

(* An answer that is given out is the first about the documents, or one    *)
(* after it that is not about them.                                        *)
LEMMA UsedOnceBySpeak ==
    ASSUME TypeOK, UsedOnce, NEW u \in Utterances, Speak(u)
    PROVE  UsedOnce'
<1>1. /\ job' = job /\ reply' = reply /\ thread[u] = "saved"
      /\ thread' = [thread EXCEPT ![u] = "idle"]
      /\ node' = [node EXCEPT ![u] = IF @ = "waiting" THEN "spoken" ELSE @]
    BY DEF Speak, Goto
<1>2. CASE node[u] # "waiting"
    <2>1. node[u] # "silent"
        BY <1>1 DEF UsedOnce
    <2>2. consumed' = consumed
        BY <1>2 DEF Speak, TypeOK
    <2> QED BY <1>1, <1>2, <2>1, <2>2, UsedOnceKept DEF TypeOK
<1>3. CASE node[u] = "waiting"
    <2>1. consumed' = (consumed \/ (job.mode = "normal" /\ job.docs # {}))
        BY <1>3 DEF Speak
    <2>2. Spoken' = Spoken \cup {u} /\ u \notin Spoken
        BY <1>1, <1>3 DEF Spoken, TypeOK
    <2>3. \A v \in Utterances : node'[v] # "waiting"
        BY <1>1, <1>3 DEF TypeOK
    <2>4. \A v \in Utterances : node'[v] = "silent" => node[v] = "silent" /\ v # u
        BY <1>1, <1>3 DEF TypeOK
    <2>5. \A v \in Utterances :
            thread'[v] \in {"queued", "loaded"} => thread[v] \in {"queued", "loaded"}
        BY <1>1 DEF TypeOK
    <2>6. node'[u] = "spoken" /\ \A v \in Utterances : v # u => thread'[v] = thread[v]
        BY <1>1, <1>3 DEF TypeOK
    <2>7. ASSUME Given
          PROVE  consumed' /\ \E s \in Spoken' : \A v \in Spoken' :
                                reply'[v].docs = job'.docs <=> v = s
        <3>1. consumed'
            BY <2>1, <2>7 DEF Given
        <3>2. CASE consumed
            <4>1. PICK s \in Spoken : \A v \in Spoken : reply[v].docs = job.docs <=> v = s
                BY <2>7, <3>2 DEF UsedOnce
            <4>2. reply[u].docs # job.docs /\ u # s
                BY <1>3, <2>2, <2>7, <3>2 DEF UsedOnce
            <4> QED BY <1>1, <2>2, <3>1, <4>1, <4>2
        <3>3. CASE ~consumed
            <4>1. Spoken' = {u}
                BY <2>2, <2>7, <3>3 DEF UsedOnce
            <4>2. reply[u].docs = job.docs
                BY <1>1, <1>3, <2>7, <3>3 DEF UsedOnce
            <4> QED BY <1>1, <3>1, <4>1, <4>2
        <3> QED BY <3>2, <3>3 DEF TypeOK
    <2>8. Given' <=> Given
        BY <1>1 DEF Given
    <2>9. \A v \in Utterances :
            /\ node'[v] = "silent" => reply'[v].docs = {}
            /\ node'[v] \in {"silent", "spoken"} => thread'[v] = "idle"
        <3>1. thread'[u] = "idle" /\ \A v \in Utterances : v # u => node'[v] = node[v]
            BY <1>1, <1>3 DEF TypeOK
        <3> QED BY <1>1, <2>4, <2>6, <3>1 DEF UsedOnce
    <2>10. \A v \in Utterances : thread'[v] \in {"queued", "loaded"} => reply'[v].docs = {}
        BY <1>1, <2>5 DEF UsedOnce
    <2> QED BY <2>3, <2>6, <2>7, <2>8, <2>9, <2>10 DEF UsedOnce
<1> QED BY <1>2, <1>3

LEMMA UsedOnceByResolve ==
    ASSUME TypeOK, UsedOnce, NEW u \in Utterances, ResolveScope(u), ~Fail(u)
    PROVE  UsedOnce'
<1>1. /\ job' = job /\ consumed' = consumed /\ node' = node /\ thread[u] = "loaded"
      /\ thread' = [thread EXCEPT ![u] = "resolved"]
      /\ reply'[u].docs = Requested
      /\ \A v \in Utterances : v # u => reply'[v] = reply[v]
    BY DEF ResolveScope, Goto, session, TypeOK, Reply
<1>2. node[u] \notin {"silent", "spoken"}
    BY <1>1 DEF UsedOnce
<1>3. Spoken' = Spoken /\ (Given' <=> Given)
    BY <1>1 DEF Spoken, Given
<1>4. \A v \in Utterances : v # u => thread'[v] = thread[v]
    BY <1>1 DEF TypeOK
<1>5. \A v \in Spoken : reply'[v] = reply[v]
    BY <1>1, <1>2 DEF Spoken
<1>6. ASSUME Given, NEW v \in Utterances, node'[v] = "waiting"
      PROVE  /\ consumed => reply'[v].docs # job.docs
             /\ ~consumed /\ thread'[v] \notin {"queued", "loaded"} =>
                    reply'[v].docs = job.docs
    BY <1>1, <1>4, <1>6 DEF UsedOnce, Requested, Given
<1>7. /\ \A v \in Utterances : node'[v] = "silent" => reply'[v].docs = {}
      /\ \A v \in Utterances : node'[v] \in {"silent", "spoken"} => thread'[v] = "idle"
      /\ \A v \in Utterances : thread'[v] \in {"queued", "loaded"} => reply'[v].docs = {}
    BY <1>1, <1>2, <1>4 DEF UsedOnce, TypeOK
<1> QED BY <1>1, <1>3, <1>5, <1>6, <1>7 DEF UsedOnce

LEMMA UsedOnceInductive ==
    ASSUME TypeOK, UsedOnce, [Next]_vars
    PROVE  UsedOnce'
<1> USE DEF conversation, session, replies
<1>1. ASSUME NEW m \in Modes, NEW docs \in SUBSET Docs, OpenSession(m, docs)
      PROVE  UsedOnce'
    <2>1. /\ node' = node /\ thread' = thread /\ reply' = reply /\ consumed' = consumed
          /\ \A u \in Utterances : node[u] = "silent"
        BY <1>1 DEF OpenSession
    <2>2. ~consumed /\ Spoken' = {}
        BY <2>1 DEF UsedOnce, Spoken
    <2> QED BY <2>1, <2>2 DEF UsedOnce
<1>2. CASE CloseSession
    <2>1. /\ job' = NoSession /\ reply' = reply /\ consumed' = consumed
          /\ \A u \in Utterances :
                /\ node'[u] = "silent" <=> node[u] = "silent"
                /\ node'[u] = "spoken" <=> node[u] = "spoken"
                /\ thread'[u] = "idle"
        BY <1>2 DEF CloseSession, TypeOK
    <2>2. ~Given'
        BY <2>1 DEF Given
    <2> QED BY <2>1, <2>2 DEF UsedOnce
<1>3. ASSUME NEW u \in Utterances, Hear(u)
      PROVE  UsedOnce'
    <2>1. /\ job' = job /\ reply' = reply /\ consumed' = consumed /\ node[u] = "silent"
          /\ thread'[u] = "queued" /\ node'[u] = "waiting"
          /\ \A v \in Utterances : v # u => thread'[v] = thread[v]
          /\ \A v \in Utterances : v # u =>
                /\ node'[v] # "waiting"
                /\ node'[v] = "silent" <=> node[v] = "silent"
                /\ node'[v] = "spoken" <=> node[v] = "spoken"
        BY <1>3 DEF Hear, Cut, TypeOK
    <2>2. Spoken' = Spoken /\ (Given' <=> Given)
        BY <2>1 DEF Spoken, Given
    <2>3. reply[u].docs = {}
        BY <2>1 DEF UsedOnce
    <2>4. Given => reply'[u].docs # job.docs
        BY <2>1, <2>3 DEF Given
    <2> QED BY <2>1, <2>2, <2>3, <2>4 DEF UsedOnce
<1>4. CASE Interrupt
    <2>1. \A v \in Utterances :
            node'[v] = node[v] \/ (node[v] = "waiting" /\ node'[v] = "cut")
        BY <1>4 DEF Interrupt, Cut, TypeOK
    <2> QED BY <1>4, <2>1, UsedOnceKept DEF Interrupt
<1>5. ASSUME NEW u \in Utterances, Fail(u), thread[u] # "idle"
      PROVE  UsedOnce'
    <2>1. node[u] # "silent"
        BY <1>5 DEF UsedOnce
    <2>2. /\ \A v \in Utterances : v # u => node'[v] = node[v] /\ thread'[v] = thread[v]
          /\ thread'[u] = "idle" /\ node'[u] # "waiting"
          /\ node'[u] = node[u] \/ (node[u] = "waiting" /\ node'[u] = "failed")
        BY <1>5 DEF Fail, Goto, TypeOK
    <2>3. job' = job /\ consumed' = consumed /\ reply' = reply
        BY <1>5 DEF Fail
    <2> QED BY <2>1, <2>2, <2>3, UsedOnceKept
<1>6. ASSUME NEW u \in Utterances, Work(u)
      PROVE  UsedOnce'
    <2>1. thread[u] # "idle" /\ node[u] # "silent"
        BY <1>6 DEF Work, LoadConversation, ResolveScope, TakeProductQuestion,
            ReadHistory, AskAsIs, Converse, SeeImage, ReadAttachments,
            AnswerFromEvidence, Persist, ReloadConversation, Save, Speak, Break, UsedOnce
    <2>2. CASE Fail(u)
        BY <1>5, <2>1, <2>2
    <2>3. CASE ResolveScope(u)
        BY <2>2, <2>3, UsedOnceByResolve
    <2>4. CASE Speak(u)
        BY <2>4, UsedOnceBySpeak
    <2>5. CASE ~Fail(u) /\ ~ResolveScope(u) /\ ~Speak(u)
        <3>1. /\ job' = job /\ consumed' = consumed /\ node' = node
              /\ \A v \in Utterances : reply'[v].docs = reply[v].docs
            BY <1>6, <2>5 DEF TypeOK, Reply, Work, LoadConversation, TakeProductQuestion,
                ReadHistory, AskAsIs, Converse, SeeImage, ReadAttachments,
                AnswerFromEvidence, Persist, ReloadConversation, Save, Break, Continue
        <3>2. /\ \A v \in Utterances : v # u => thread'[v] = thread[v]
              /\ \/ thread'[u] = thread[u]
                 \/ thread'[u] = "idle" /\ node[u] # "waiting"
                 \/ thread[u] = "queued" /\ thread'[u] = "loaded"
                 \/ /\ thread[u] \notin {"idle", "queued", "loaded"}
                    /\ thread'[u] \notin {"queued", "loaded"}
            BY <1>6, <2>5 DEF TypeOK, Work, LoadConversation, TakeProductQuestion,
                ReadHistory, AskAsIs, Converse, SeeImage, ReadAttachments,
                AnswerFromEvidence, Persist, ReloadConversation, Save, Break, Continue, Goto
        <3> QED BY <2>1, <3>1, <3>2, UsedOnceKept
    <2> QED BY <2>2, <2>3, <2>4, <2>5
<1>7. CASE \/ \E m \in Modes, docs \in SUBSET Docs : RefuseSession(m, docs)
           \/ \E t \in Transcripts : Transcribe(t)
           \/ TextTurn \/ ChangeMode \/ DeleteConversation
           \/ \E d \in Docs : ChangeDoc(d) \/ DeleteDoc(d)
           \/ UNCHANGED vars
    <2>1. /\ job' = job /\ consumed' = consumed /\ node' = node
          /\ thread' = thread /\ reply' = reply
        BY <1>7 DEF RefuseSession, Transcribe, TextTurn, ChangeMode, DeleteConversation,
            ChangeDoc, DeleteDoc, vars
    <2> QED BY <2>1, UsedOnceKept
<1> QED BY <1>1, <1>2, <1>3, <1>4, <1>6, <1>7 DEF Next

(* DocumentsReachOneAnswer: over any session, of any length and however    *)
(* interrupted, the documents given to it are what one heard answer is     *)
(* about once they count as used, and nothing was heard before.            *)
THEOREM DocumentsAreUsedOnce == Spec => []DocumentsReachOneAnswer
<1>1. Init => UsedOnce
    BY DEF Init, UsedOnce, NoReply, Given
<1>2. UsedOnce => DocumentsReachOneAnswer
    <2> SUFFICES ASSUME UsedOnce, Given, consumed
                 PROVE  Cardinality({u \in Spoken : reply[u].docs = job.docs}) = 1
        BY DEF DocumentsReachOneAnswer, UsedOnce, Given
    <2>1. PICK s \in Spoken : \A u \in Spoken : reply[u].docs = job.docs <=> u = s
        BY DEF UsedOnce
    <2>2. {u \in Spoken : reply[u].docs = job.docs} = {s}
        BY <2>1
    <2> QED BY <2>2, FS_Singleton
<1> QED BY <1>1, <1>2, TypeCorrect, UsedOnceInductive, PTL DEF Spec

----------------------------------------------------------------------------
(* What the next answer knows *)

(* Utterances are heard one after the other, and only the last is awaited: *)
(* when one is heard, what the user has heard of those before it is final. *)
(* An answer is stored once, in the mode of the session.                   *)
InOrder ==
    /\ \A u \in Utterances : node[u] \in {"silent", "spoken"} => thread[u] = "idle"
    /\ \A u, v \in Utterances :
        u < v /\ node[u] \in {"silent", "waiting"} => node[v] = "silent"
    /\ \A i \in DOMAIN log : log[i].by \in Utterances =>
        /\ node[log[i].by] # "silent"
        /\ thread[log[i].by] \in {"idle", "saved"}
        /\ job # NoSession => log[i].mode = job.mode

Answering(v) == thread[v] \in {"asked", "generated", "persisting", "saving"}

(* An answer under way knows each answer heard before it that its place in *)
(* the log will be near, and one that is stored those that it is near.     *)
KnowsBefore ==
    mode # "deleted" /\ job # NoSession =>
        \A i \in DOMAIN log, v \in Utterances :
            log[i].by < v /\ log[i].by \in Spoken /\ ~reply[v].alone =>
                /\ Answering(v) /\ Len(log) - i < Window => log[i].by \in reply[v].known
                /\ \A j \in DOMAIN log : log[j].by = v =>
                    i < j /\ (j - i <= Window => log[i].by \in reply[v].known)

LEMMA LogFacts ==
    ASSUME TypeOK
    PROVE  /\ Len(log) \in Nat /\ DOMAIN log = 1 .. Len(log)
           /\ \A i \in DOMAIN log : log[i].by \in 0 .. MaxUtterances
<1>1. log \in Seq(Turn)
    BY DEF TypeOK
<1>2. \A i \in DOMAIN log : log[i] \in Turn
    BY <1>1
<1> QED BY <1>1, <1>2 DEF Turn

LEMMA AppendFacts ==
    ASSUME TypeOK, NEW t \in Turn, log' = Append(log, t)
    PROVE  /\ DOMAIN log' = DOMAIN log \cup {Len(log) + 1} /\ Len(log') = Len(log) + 1
           /\ log'[Len(log) + 1] = t /\ \A i \in DOMAIN log : log'[i] = log[i]
<1>1. log \in Seq(Turn)
    BY DEF TypeOK
<1> QED BY <1>1

(* The last n of a set of places have each that is among the last n of all. *)
LEMMA NearIsLast ==
    ASSUME TypeOK, NEW S \in SUBSET (DOMAIN log), NEW i \in S, NEW n \in Nat,
           Len(log) - i < n
    PROVE  i \in LastOf(S, n)
<1> DEFINE After == {j \in S : j > i}
<1> USE LogFacts
<1>1. After \subseteq i + 1 .. Len(log)
    OBVIOUS
<1>2. /\ IsFiniteSet(i + 1 .. Len(log))
      /\ Cardinality(i + 1 .. Len(log)) =
            IF i + 1 > Len(log) THEN 0 ELSE Len(log) - (i + 1) + 1
    <2>1. i + 1 \in Int /\ Len(log) \in Int
        OBVIOUS
    <2> HIDE LogFacts
    <2> QED BY <2>1, FS_Interval
<1>3. IsFiniteSet(After) /\ Cardinality(After) <= Cardinality(i + 1 .. Len(log))
    BY <1>1, <1>2, FS_Subset
<1>4. Cardinality(After) \in Nat
    BY <1>3, FS_CardinalityType
<1>5. Cardinality(i + 1 .. Len(log)) = Len(log) - i
    BY <1>2
<1>6. Cardinality(After) < n
    BY <1>3, <1>4, <1>5
<1> QED BY <1>6 DEF LastOf

LEMMA NearIsRecent ==
    ASSUME TypeOK, InOrder, job # NoSession,
           NEW i \in DOMAIN log, log[i].by \in Utterances, Len(log) - i < Window
    PROVE  i \in RecentTurns(job.mode)
<1>0. /\ job.mode \in Modes /\ log[i].mode = job.mode
      /\ NormalTurns \in Nat /\ KnowledgeTurns \in Nat /\ 2 * KnowledgeTurns \in Nat
    BY BoundAssumption DEF InOrder, TypeOK, Job
<1>1. CASE job.mode = "normal"
    <2>1. Len(log) - i < NormalTurns
        BY <1>1 DEF Window
    <2> QED BY <1>0, <1>1, <2>1, NearIsLast DEF RecentTurns
<1>2. CASE job.mode # "normal"
    <2> DEFINE Twice == LastOf(DOMAIN log, 2 * KnowledgeTurns)
    <2>1. Len(log) - i < KnowledgeTurns
        BY <1>2 DEF Window
    <2>2. Len(log) - i < 2 * KnowledgeTurns
        BY <1>0, <2>1, LogFacts
    <2>3. i \in Twice
        BY <1>0, <2>2, NearIsLast
    <2>4. i \in OfKnowledge(Twice)
        BY <1>0, <1>2, <2>3 DEF OfKnowledge, Modes
    <2>5. OfKnowledge(Twice) \in SUBSET (DOMAIN log)
        BY DEF OfKnowledge, LastOf
    <2>6. i \in LastOf(OfKnowledge(Twice), KnowledgeTurns)
        BY <1>0, <2>1, <2>4, <2>5, NearIsLast
    <2> QED BY <1>2, <2>6 DEF RecentTurns
<1> QED BY <1>1, <1>2

(* What a thread may do without a word to its answer: go on, end, or wait. *)
LEMMA OrderKept ==
    ASSUME TypeOK, InOrder,
           log' \in {log, <<>>}, job' \in {job, NoSession},
           \A u \in Utterances :
               /\ node'[u] = "silent" <=> node[u] = "silent"
               /\ node'[u] = "waiting" => node[u] = "waiting"
               /\ thread[u] = "idle" => thread'[u] = "idle"
               /\ node'[u] = "spoken" => thread'[u] = "idle"
               /\ thread[u] = "saved" => thread'[u] \in {"idle", "saved"}
    PROVE  InOrder'
<1>1. \A u \in Utterances : node[u] \in {"silent", "spoken"} => thread[u] = "idle"
    BY DEF InOrder
<1>2. \A u \in Utterances : node'[u] \in {"silent", "spoken"} => thread'[u] = "idle"
    BY <1>1
<1>3. \A u, v \in Utterances :
        u < v /\ node'[u] \in {"silent", "waiting"} => node'[v] = "silent"
    BY DEF InOrder
<1>4. ASSUME NEW i \in DOMAIN log', log'[i].by \in Utterances
      PROVE  /\ node'[log'[i].by] # "silent"
             /\ thread'[log'[i].by] \in {"idle", "saved"}
             /\ job' # NoSession => log'[i].mode = job'.mode
    <2>1. log' = log
        BY <1>4
    <2> QED BY <1>4, <2>1 DEF InOrder
<1> QED BY <1>2, <1>3, <1>4 DEF InOrder

LEMMA KnowsKept ==
    ASSUME TypeOK, InOrder, KnowsBefore, log' = log, job' = job,
           mode = "deleted" => mode' = "deleted",
           \A u \in Utterances :
               /\ node'[u] = "spoken" <=> node[u] = "spoken"
               /\ Answering(u)' => Answering(u)
               /\ reply'[u].known = reply[u].known /\ reply'[u].alone = reply[u].alone
    PROVE  KnowsBefore'
<1>1. Spoken' = Spoken /\ Window' = Window
    BY DEF Spoken, Window
<1> QED BY <1>1 DEF KnowsBefore

(* A turn that is stored by another request, or by the thread of u. *)
LEMMA AppendKeeps ==
    ASSUME TypeOK, InOrder, KnowsBefore, NEW t \in Turn, log' = Append(log, t),
           job' = job, node' = node, mode' = mode, reply' = reply,
           \A v \in Utterances : v # t.by => thread'[v] = thread[v],
           t.by \in Utterances =>
               /\ thread[t.by] = "saving" /\ thread'[t.by] = "saved"
               /\ t.mode = job.mode
    PROVE  InOrder' /\ KnowsBefore'
<1> USE AppendFacts, LogFacts
<1>1. t.by \in Utterances => node[t.by] \notin {"silent", "spoken"}
    BY DEF InOrder
<1>2. Spoken' = Spoken /\ t.by \notin Spoken /\ Window' = Window
    BY <1>1 DEF Spoken, Window
<1>3. \A i \in DOMAIN log : log[i].by # t.by \/ t.by \notin Utterances
    BY DEF InOrder
<1>4. InOrder'
    <2>1. \A u \in Utterances : node'[u] \in {"silent", "spoken"} => thread'[u] = "idle"
        BY <1>1 DEF InOrder
    <2>2. ASSUME NEW i \in DOMAIN log', log'[i].by \in Utterances
          PROVE  /\ node'[log'[i].by] # "silent"
                 /\ thread'[log'[i].by] \in {"idle", "saved"}
                 /\ job' # NoSession => log'[i].mode = job'.mode
        <3>1. CASE i = Len(log) + 1
            BY <1>1, <2>2, <3>1
        <3>2. CASE i \in DOMAIN log
            <4>1. log'[i] = log[i] /\ log[i].by # t.by
                BY <1>3, <2>2, <3>2
            <4> QED BY <2>2, <3>2, <4>1 DEF InOrder
        <3> QED BY <3>1, <3>2
    <2>3. \A u, v \in Utterances :
            u < v /\ node'[u] \in {"silent", "waiting"} => node'[v] = "silent"
        BY DEF InOrder
    <2> QED BY <2>1, <2>2, <2>3 DEF InOrder
<1>5. ASSUME mode # "deleted", job # NoSession,
             NEW i \in DOMAIN log', NEW v \in Utterances,
             log'[i].by < v, log'[i].by \in Spoken, ~reply[v].alone
      PROVE  /\ Answering(v)' /\ Len(log') - i < Window => log'[i].by \in reply[v].known
             /\ \A j \in DOMAIN log' : log'[j].by = v =>
                    i < j /\ (j - i <= Window => log'[i].by \in reply[v].known)
    <2>1. i \in DOMAIN log /\ log'[i] = log[i]
        BY <1>2, <1>5
    <2>2. Window \in Nat
        BY BoundAssumption DEF Window
    <2>3. /\ Answering(v) /\ Len(log) - i < Window => log[i].by \in reply[v].known
          /\ \A j \in DOMAIN log : log[j].by = v =>
                    i < j /\ (j - i <= Window => log[i].by \in reply[v].known)
        BY <1>5, <2>1 DEF KnowsBefore
    <2>4. CASE v = t.by
        <3>1. Answering(v) /\ ~Answering(v)'
            BY <2>4 DEF Answering
        <3>2. ASSUME NEW j \in DOMAIN log', log'[j].by = v
              PROVE  i < j /\ (j - i <= Window => log'[i].by \in reply[v].known)
            <4>1. j = Len(log) + 1
                BY <1>3, <2>4, <3>2
            <4>2. i < j /\ (j - i <= Window => Len(log) - i < Window)
                BY <2>1, <2>2, <4>1
            <4> QED BY <2>1, <2>3, <3>1, <4>2
        <3> QED BY <3>1, <3>2
    <2>5. CASE v # t.by
        <3>1. Answering(v)' => Answering(v)
            BY <2>5 DEF Answering
        <3>2. Len(log') - i < Window => Len(log) - i < Window
            BY <2>1, <2>2
        <3>3. ASSUME NEW j \in DOMAIN log', log'[j].by = v
              PROVE  i < j /\ (j - i <= Window => log'[i].by \in reply[v].known)
            <4>1. j \in DOMAIN log /\ log'[j] = log[j]
                BY <2>5, <3>3
            <4> QED BY <2>1, <2>3, <3>3, <4>1
        <3> QED BY <2>1, <2>3, <3>1, <3>2, <3>3
    <2> QED BY <2>4, <2>5
<1> QED BY <1>2, <1>4, <1>5 DEF KnowsBefore

(* The answer of u is about to be asked for, with the history or alone. *)
LEMMA AskKeeps ==
    ASSUME TypeOK, InOrder, KnowsBefore, NEW u \in Utterances,
           thread[u] \in {"resolved", "asked"},
           log' = log, job' = job, mode' = mode, node' = node,
           \A v \in Utterances : v # u => reply'[v] = reply[v] /\ thread'[v] = thread[v],
           \/ reply'[u].alone
           \/ reply'[u].known = Authors(RecentTurns(job.mode))
    PROVE  KnowsBefore'
<1>1. Spoken' = Spoken /\ Window' = Window
    BY DEF Spoken, Window
<1>2. \A j \in DOMAIN log : log[j].by # u
    BY DEF InOrder
<1>3. ASSUME mode # "deleted", job # NoSession,
             NEW i \in DOMAIN log, NEW v \in Utterances,
             log[i].by < v, log[i].by \in Spoken, ~reply'[v].alone
      PROVE  /\ Answering(v)' /\ Len(log) - i < Window => log[i].by \in reply'[v].known
             /\ \A j \in DOMAIN log : log[j].by = v =>
                    i < j /\ (j - i <= Window => log[i].by \in reply'[v].known)
    <2>1. CASE v = u
        <3>1. log[i].by \in Utterances
            BY <1>3 DEF Spoken
        <3>2. Len(log) - i < Window => i \in RecentTurns(job.mode)
            BY <1>3, <3>1, NearIsRecent
        <3> QED BY <1>2, <1>3, <2>1, <3>2 DEF Authors
    <2>2. CASE v # u
        <3>1. Answering(v)' => Answering(v)
            BY <2>2 DEF Answering
        <3> QED BY <1>3, <2>2, <3>1 DEF KnowsBefore
    <2> QED BY <2>1, <2>2
<1> QED BY <1>1, <1>3 DEF KnowsBefore

(* When an answer is given out no later utterance has been heard. *)
LEMMA SpeakKeeps ==
    ASSUME TypeOK, InOrder, KnowsBefore, NEW u \in Utterances, Speak(u)
    PROVE  InOrder' /\ KnowsBefore'
<1> USE DEF conversation, session
<1>1. /\ log' = log /\ job' = job /\ mode' = mode /\ reply' = reply
      /\ thread[u] = "saved" /\ thread'[u] = "idle"
      /\ \A v \in Utterances : v # u => thread'[v] = thread[v] /\ node'[v] = node[v]
      /\ node'[u] = IF node[u] = "waiting" THEN "spoken" ELSE node[u]
    BY DEF Speak, Goto, TypeOK
<1>2. node[u] \notin {"silent", "spoken"}
    BY <1>1 DEF InOrder
<1>3. InOrder'
    <2>1. \A v \in Utterances : v # u /\ node[v] \in {"silent", "spoken"} => thread[v] = "idle"
        BY DEF InOrder
    <2>2. \A v \in Utterances : node'[v] = "spoken" => thread'[v] = "idle"
        BY <1>1, <2>1
    <2>3. \A v \in Utterances : node'[v] = "silent" <=> node[v] = "silent"
        BY <1>1, <1>2
    <2>4. \A v \in Utterances : node'[v] = "waiting" => node[v] = "waiting"
        BY <1>1, <1>2
    <2>5. \A v \in Utterances : thread[v] = "saved" => thread'[v] \in {"idle", "saved"}
        BY <1>1
    <2>6. \A v \in Utterances : thread[v] = "idle" => thread'[v] = "idle"
        BY <1>1
    <2> QED BY <1>1, <2>2, <2>3, <2>4, <2>5, <2>6, OrderKept
<1>4. \A v \in Utterances : Answering(v)' => Answering(v)
    BY <1>1 DEF Answering
<1>5. CASE node[u] # "waiting"
    <2>1. \A v \in Utterances : node'[v] = "spoken" <=> node[v] = "spoken"
        BY <1>1, <1>5
    <2> QED BY <1>1, <1>3, <1>4, <2>1, KnowsKept
<1>6. CASE node[u] = "waiting"
    <2>1. \A v \in Utterances : u < v =>
            node[v] = "silent" /\ ~Answering(v) /\ \A j \in DOMAIN log : log[j].by # v
        BY <1>6 DEF InOrder, Answering
    <2>2. Spoken' = Spoken \cup {u} /\ Window' = Window
        BY <1>1, <1>6 DEF Spoken, Window
    <2> QED BY <1>1, <1>3, <1>4, <2>1, <2>2 DEF KnowsBefore
<1> QED BY <1>5, <1>6

LEMMA KnowsInductive ==
    ASSUME TypeOK, InOrder, KnowsBefore, [Next]_vars
    PROVE  InOrder' /\ KnowsBefore'
<1> USE DEF conversation, session, replies
<1>1. ASSUME NEW m \in Modes, NEW docs \in SUBSET Docs, OpenSession(m, docs)
      PROVE  InOrder' /\ KnowsBefore'
    <2>1. /\ node' = node /\ thread' = thread /\ log' = log
          /\ \A u \in Utterances : node[u] = "silent"
        BY <1>1 DEF OpenSession
    <2>2. Spoken' = {}
        BY <2>1 DEF Spoken
    <2>3. \A i \in DOMAIN log : log[i].by \notin Utterances
        BY <2>1 DEF InOrder
    <2> QED BY <2>1, <2>2, <2>3 DEF InOrder, KnowsBefore
<1>2. CASE CloseSession
    <2>1. /\ job' = NoSession /\ log' = log
          /\ \A u \in Utterances :
                /\ node'[u] = "silent" <=> node[u] = "silent"
                /\ node'[u] # "waiting" /\ thread'[u] = "idle"
        BY <1>2 DEF CloseSession, TypeOK
    <2> QED BY <2>1, OrderKept DEF KnowsBefore
<1>3. ASSUME NEW u \in Utterances, Hear(u)
      PROVE  InOrder' /\ KnowsBefore'
    <2>1. /\ job' = job /\ reply' = reply /\ log' = log /\ mode' = mode
          /\ node[u] = "silent" /\ thread'[u] = "queued" /\ node'[u] = "waiting"
          /\ \A v \in Utterances : v < u => node[v] # "silent"
          /\ \A v \in Utterances : v # u => thread'[v] = thread[v]
          /\ \A v \in Utterances : v # u =>
                /\ node'[v] # "waiting"
                /\ node'[v] = "silent" <=> node[v] = "silent"
                /\ node'[v] = "spoken" <=> node[v] = "spoken"
        BY <1>3, BoundAssumption DEF Hear, Cut, TypeOK, Utterances
    <2>2. \A v \in Utterances : Answering(v)' => Answering(v)
        BY <2>1 DEF Answering
    <2>3. \A v \in Utterances : node'[v] = "spoken" <=> node[v] = "spoken"
        BY <2>1
    <2>4. KnowsBefore'
        BY <2>1, <2>2, <2>3, KnowsKept
    <2>5. \A v \in Utterances : node'[v] \in {"silent", "spoken"} => thread'[v] = "idle"
        BY <2>1 DEF InOrder
    <2>6. ASSUME NEW v \in Utterances, NEW w \in Utterances, v < w,
                 node'[v] \in {"silent", "waiting"}
          PROVE  node'[w] = "silent"
        <3>1. v # w /\ (v = u \/ node[v] = "silent")
            BY <2>1, <2>6 DEF Utterances
        <3>2. node[w] = "silent"
            BY <2>1, <2>6, <3>1 DEF InOrder
        <3>3. w # u
            BY <2>1, <2>6, <3>1
        <3> QED BY <2>1, <3>2, <3>3
    <2>7. \A i \in DOMAIN log : log[i].by \in Utterances => log[i].by # u
        BY <2>1 DEF InOrder
    <2>8. \A i \in DOMAIN log : log[i].by \in Utterances =>
            /\ node'[log[i].by] # "silent"
            /\ thread'[log[i].by] \in {"idle", "saved"}
            /\ job # NoSession => log[i].mode = job.mode
        BY <2>1, <2>7 DEF InOrder
    <2> QED BY <2>1, <2>4, <2>5, <2>6, <2>8 DEF InOrder
<1>4. CASE Interrupt
    <2>1. \A v \in Utterances :
            node'[v] = node[v] \/ (node[v] = "waiting" /\ node'[v] = "cut")
        BY <1>4 DEF Interrupt, Cut, TypeOK
    <2>2. /\ log' = log /\ job' = job /\ mode' = mode /\ thread' = thread /\ reply' = reply
        BY <1>4 DEF Interrupt
    <2>3. \A v \in Utterances : node[v] = "spoken" => thread[v] = "idle"
        BY DEF InOrder
    <2>4. InOrder'
        BY <2>1, <2>2, <2>3, OrderKept
    <2>5. KnowsBefore'
        BY <2>1, <2>2, KnowsKept DEF Answering
    <2> QED BY <2>4, <2>5
<1>5. ASSUME NEW u \in Utterances, Work(u)
      PROVE  InOrder' /\ KnowsBefore'
    <2>1. thread[u] # "idle" /\ node[u] \notin {"silent", "spoken"}
        BY <1>5 DEF Work, LoadConversation, ResolveScope, TakeProductQuestion,
            ReadHistory, AskAsIs, Converse, SeeImage, ReadAttachments,
            AnswerFromEvidence, Persist, ReloadConversation, Save, Speak, Break, InOrder
    <2>2. \A v \in Utterances : node[v] = "spoken" => thread[v] = "idle"
        BY DEF InOrder
    <2>3. CASE Fail(u) /\ ~Speak(u)
        <3>1. /\ log' = log /\ job' = job /\ mode' = mode /\ reply' = reply
              /\ thread'[u] = "idle"
              /\ node'[u] = node[u] \/ (node[u] = "waiting" /\ node'[u] = "failed")
              /\ \A v \in Utterances : v # u => thread'[v] = thread[v] /\ node'[v] = node[v]
            BY <2>3 DEF Fail, Goto, TypeOK
        <3>2. InOrder'
            BY <2>1, <2>2, <3>1, OrderKept
        <3>3. KnowsBefore'
            BY <3>1, KnowsKept DEF Answering
        <3> QED BY <3>2, <3>3
    <2>4. CASE Speak(u)
        BY <2>4, SpeakKeeps
    <2>5. CASE Save(u)
        <3>1. [by |-> u, mode |-> job.mode] \in Turn
            BY <2>5, JobTypes, BoundAssumption DEF Save, Turn, Utterances
        <3>2. /\ thread' = [thread EXCEPT ![u] = "saved"] /\ thread[u] = "saving"
              /\ log' = Append(log, [by |-> u, mode |-> job.mode])
              /\ job' = job /\ node' = node /\ mode' = mode /\ reply' = reply
            BY <2>5 DEF Save, Goto
        <3>3. /\ thread'[u] = "saved"
              /\ \A v \in Utterances : v # u => thread'[v] = thread[v]
            BY <3>2 DEF TypeOK
        <3> QED BY <3>1, <3>2, <3>3, AppendKeeps
    <2>6. CASE ~Fail(u) /\ ~Save(u) /\ ~Speak(u)
        <3>1. /\ log' = log /\ job' = job /\ mode' = mode /\ node' = node
              /\ thread[u] # "saved"
              /\ \A v \in Utterances : v # u => thread'[v] = thread[v] /\ reply'[v] = reply[v]
            BY <1>5, <2>6 DEF TypeOK, Work, LoadConversation, ResolveScope, TakeProductQuestion,
                ReadHistory, AskAsIs, Converse, SeeImage, ReadAttachments,
                AnswerFromEvidence, Persist, ReloadConversation, Break, Continue, Goto
        <3>2. InOrder'
            BY <2>1, <2>2, <3>1, OrderKept
        <3>3. CASE TakeProductQuestion(u) \/ ReadHistory(u) \/ AskAsIs(u)
            <4>1. thread[u] \in {"resolved", "asked"}
                BY <3>3 DEF TakeProductQuestion, ReadHistory, AskAsIs
            <4>2. \/ reply'[u].alone
                  \/ reply'[u].known = Authors(RecentTurns(job.mode))
                BY <3>3 DEF TypeOK, Reply, TakeProductQuestion, ReadHistory, AskAsIs
            <4>3. KnowsBefore'
                BY <3>1, <4>1, <4>2, AskKeeps
            <4> QED BY <3>2, <4>3
        <3>4. CASE ~(TakeProductQuestion(u) \/ ReadHistory(u) \/ AskAsIs(u))
            <4>1. reply'[u].known = reply[u].known /\ reply'[u].alone = reply[u].alone
                BY <1>5, <2>6, <3>4 DEF TypeOK, Reply, Work, LoadConversation, ResolveScope,
                    Converse, SeeImage, ReadAttachments, AnswerFromEvidence, Persist,
                    ReloadConversation, Break, Continue
            <4>2. Answering(u)' => Answering(u)
                BY <1>5, <2>6, <3>4 DEF Answering, TypeOK, Work, LoadConversation, ResolveScope,
                    Converse, SeeImage, ReadAttachments, AnswerFromEvidence, Persist,
                    ReloadConversation, Break, Continue, Goto
            <4>3. \A v \in Utterances : Answering(v)' => Answering(v)
                BY <3>1, <4>2 DEF Answering
            <4>4. \A v \in Utterances :
                    reply'[v].known = reply[v].known /\ reply'[v].alone = reply[v].alone
                BY <3>1, <4>1
            <4>5. KnowsBefore'
                BY <3>1, <4>3, <4>4, KnowsKept
            <4> QED BY <3>2, <4>5
        <3> QED BY <3>3, <3>4
    <2> QED BY <2>3, <2>4, <2>5, <2>6
<1>6. CASE TextTurn
    <2>1. [by |-> 0, mode |-> mode] \in Turn
        BY <1>6, BoundAssumption DEF TextTurn, Turn
    <2>2. 0 \notin Utterances
        BY BoundAssumption DEF Utterances
    <2>3. /\ log' = Append(log, [by |-> 0, mode |-> mode])
          /\ job' = job /\ node' = node /\ mode' = mode /\ reply' = reply /\ thread' = thread
        BY <1>6 DEF TextTurn
    <2> QED BY <2>1, <2>2, <2>3, AppendKeeps
<1>7. CASE DeleteConversation
    <2>1. /\ log' = <<>> /\ job' = job /\ mode' = "deleted"
          /\ node' = node /\ thread' = thread
        BY <1>7 DEF DeleteConversation
    <2>2. \A v \in Utterances : node[v] = "spoken" => thread[v] = "idle"
        BY DEF InOrder
    <2> QED BY <2>1, <2>2, OrderKept DEF KnowsBefore
<1>8. CASE \/ \E m \in Modes, docs \in SUBSET Docs : RefuseSession(m, docs)
           \/ \E t \in Transcripts : Transcribe(t)
           \/ ChangeMode
           \/ \E d \in Docs : ChangeDoc(d) \/ DeleteDoc(d)
           \/ UNCHANGED vars
    <2>1. /\ job' = job /\ log' = log /\ node' = node
          /\ thread' = thread /\ reply' = reply
          /\ mode = "deleted" => mode' = "deleted"
        BY <1>8 DEF RefuseSession, Transcribe, ChangeMode, ChangeDoc, DeleteDoc, Modes, vars
    <2>2. \A v \in Utterances : node[v] = "spoken" => thread[v] = "idle"
        BY DEF InOrder
    <2>3. InOrder'
        BY <2>1, <2>2, OrderKept
    <2>4. KnowsBefore'
        BY <2>1, KnowsKept DEF Answering
    <2> QED BY <2>3, <2>4
<1> QED BY <1>1, <1>2, <1>3, <1>4, <1>5, <1>6, <1>7, <1>8 DEF Next

(* KnowsWhatWasSaid: for any number of utterances, however interrupted, and *)
(* histories of any length, an answer is asked for with every answer the    *)
(* user heard before it and that is near enough in the log.                 *)
THEOREM AnswersKnowWhatWasSaid == Spec => []KnowsWhatWasSaid
<1>1. Init => InOrder /\ KnowsBefore
    BY DEF Init, InOrder, KnowsBefore
<1>2. TypeOK /\ KnowsBefore => KnowsWhatWasSaid
    <2> SUFFICES ASSUME KnowsBefore, mode # "deleted", job # NoSession,
                        NEW i \in DOMAIN log, NEW j \in DOMAIN log,
                        log[i].by < log[j].by, {log[i].by, log[j].by} \subseteq Spoken,
                        ~reply[log[j].by].alone
                 PROVE  i < j /\ (j - i <= Window => log[i].by \in reply[log[j].by].known)
        BY DEF KnowsWhatWasSaid
    <2>1. log[j].by \in Utterances
        BY DEF Spoken
    <2> QED BY <2>1 DEF KnowsBefore
<1> QED BY <1>1, <1>2, TypeCorrect, KnowsInductive, PTL DEF Spec
=============================================================================

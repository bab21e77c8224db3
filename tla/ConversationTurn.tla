-------------------------- MODULE ConversationTurn --------------------------
(***************************************************************************)
(* Conversations of one user: chat turns, settings, projects and the       *)
(* documents a Knowledge conversation has been scoped to.                  *)
(*                                                                         *)
(* A request loads the conversation once and goes on with that snapshot;   *)
(* a model answers between the load and the commit.  An UPDATE writes the  *)
(* attributes that differ from the snapshot, without a condition, and      *)
(* fails when the row is gone.  A user may give the placeholder "New chat" *)
(* as a title, and a first message without a word (or of just that text)   *)
(* leads to it too.                                                        *)
(***************************************************************************)
EXTENDS Naturals, FiniteSets

CONSTANTS
    Requests,     \* request slots
    Convs,        \* identities of conversations
    Projects,     \* identities of projects
    ProjectMode,  \* the mode a project is created with, which never changes
    Docs,         \* identities of documents
    NoConv, NoProject,
    MaxScope,     \* MAX_CONVERSATION_DOCUMENTS
    MaxTurns      \* bounds the turns a conversation stores

Modes == {"normal", "knowledge"}

ASSUME ProjectsAssumption ==
    /\ ProjectMode \in [Projects -> Modes]
    /\ NoProject \notin Projects
    /\ NoConv \notin Convs
ASSUME ScopeAssumption == MaxScope \in Nat /\ MaxTurns \in Nat /\ IsFiniteSet(Docs)

VARIABLES
    stored,    \* conversations with a row
    mode,      \* mode
    title,     \* "placeholder", "derived" from a turn or "named" by the user
    project,   \* project_id
    unnamed,   \* auxiliary: conversations that were given the placeholder
    turns,     \* how many turns are stored (two messages each)
    attached,  \* documents attached to the stored messages of Knowledge turns
    scope,     \* conversation_documents
    projects,  \* projects with a row
    doc,       \* "none", "ready" or "other" (not usable) for each document
    pc,        \* the stage of each request
    conv,      \* the conversation it works on
    seen,      \* its snapshot of mode, title and project
    expired,   \* the snapshot was expired by a rollback
    turn,      \* the turn it answers: documents, and whether it is Knowledge
    fresh,     \* documents it will add to the scope
    titling,   \* the title its turn gives, or "kept"
    write      \* the values it will write

rows     == <<stored, mode, title, project, unnamed>>
messages == <<turns, attached, scope>>
request  == <<pc, conv, seen, expired, turn, fresh, titling, write>>
vars == <<stored, mode, title, project, unnamed, turns, attached, scope, projects, doc,
          pc, conv, seen, expired, turn, fresh, titling, write>>

Titles  == {"placeholder", "derived", "named"}
Settings == [mode : Modes, title : Titles, project : Projects \cup {NoProject}]
Turns == [docs : SUBSET Docs, knowledge : BOOLEAN]

Unwritten == [mode |-> "normal", title |-> "placeholder", project |-> NoProject]
NoTurn == [docs |-> {}, knowledge |-> FALSE]

Asking == {"asked", "answering", "answered", "persisting"}
Stages == {"idle", "creating", "updating", "deleting"} \cup Asking

RowsTyped ==
    /\ stored \subseteq Convs
    /\ mode \in [Convs -> Modes]
    /\ title \in [Convs -> Titles]
    /\ project \in [Convs -> Projects \cup {NoProject}]
    /\ unnamed \subseteq Convs
    /\ turns \in [Convs -> 0 .. MaxTurns]
    /\ attached \in [Convs -> SUBSET Docs]
    /\ scope \in [Convs -> SUBSET Docs]
    /\ projects \subseteq Projects
    /\ doc \in [Docs -> {"none", "ready", "other"}]

RequestsTyped ==
    /\ pc \in [Requests -> Stages]
    /\ conv \in [Requests -> Convs \cup {NoConv}]
    /\ \A r \in Requests : pc[r] # "idle" => conv[r] \in Convs
    /\ seen \in [Requests -> Settings]
    /\ expired \in [Requests -> BOOLEAN]
    /\ turn \in [Requests -> Turns]
    /\ fresh \in [Requests -> SUBSET Docs]
    /\ titling \in [Requests -> {"kept", "derived", "placeholder"}]
    /\ write \in [Requests -> Settings]

TypeOK == RowsTyped /\ RequestsTyped

Init ==
    /\ stored = {} /\ unnamed = {} /\ projects = {}
    /\ mode = [c \in Convs |-> "normal"]
    /\ title = [c \in Convs |-> "placeholder"]
    /\ project = [c \in Convs |-> NoProject]
    /\ turns = [c \in Convs |-> 0]
    /\ attached = [c \in Convs |-> {}]
    /\ scope = [c \in Convs |-> {}]
    /\ doc = [d \in Docs |-> "none"]
    /\ pc = [r \in Requests |-> "idle"]
    /\ conv = [r \in Requests |-> NoConv]
    /\ seen = [r \in Requests |-> Unwritten]
    /\ expired = [r \in Requests |-> FALSE]
    /\ turn = [r \in Requests |-> NoTurn]
    /\ fresh = [r \in Requests |-> {}]
    /\ titling = [r \in Requests |-> "kept"]
    /\ write = [r \in Requests |-> Unwritten]

----------------------------------------------------------------------------
Row(c) == [mode |-> mode[c], title |-> title[c], project |-> project[c]]

Goto(r, stage) == pc' = [pc EXCEPT ![r] = stage]

(* fault: the session closes before the response is streamed *)
EndEarly(r) ==
    /\ conv' = [conv EXCEPT ![r] = NoConv]
    /\ UNCHANGED <<pc, seen, expired, turn, fresh, titling, write>>

(* the request is answered, fails, or its server dies: the session closes  *)
End(r) ==
    /\ Goto(r, "idle")
    /\ conv' = [conv EXCEPT ![r] = NoConv]
    /\ seen' = [seen EXCEPT ![r] = Unwritten]
    /\ expired' = [expired EXCEPT ![r] = FALSE]
    /\ turn' = [turn EXCEPT ![r] = NoTurn]
    /\ fresh' = [fresh EXCEPT ![r] = {}]
    /\ titling' = [titling EXCEPT ![r] = "kept"]
    /\ write' = [write EXCEPT ![r] = Unwritten]

(* what a turn uses of its snapshot besides the mode, which turn keeps *)
TitleOf(c) == [Unwritten EXCEPT !.title = title[c]]

(* a stored conversation is loaded for a request that begins *)
Load(r, c, stage, snapshot) ==
    /\ pc[r] = "idle" /\ c \in stored
    /\ Goto(r, stage)
    /\ conv' = [conv EXCEPT ![r] = c]
    /\ seen' = [seen EXCEPT ![r] = snapshot]

(* a foreign key to a project that has been deleted refuses the statement *)
ProjectExists(p) == p \in projects \cup {NoProject}

----------------------------------------------------------------------------
(* Conversations and projects *)

(* POST /conversations: the project is checked, the row inserted later *)
CheckNewConversation(r, c, m, p) ==
    /\ pc[r] = "idle"
    /\ c \notin stored /\ \A q \in Requests : conv[q] # c
    /\ p # NoProject => p \in projects /\ ProjectMode[p] = m
    /\ Goto(r, "creating")
    /\ conv' = [conv EXCEPT ![r] = c]
    /\ \E t \in {"placeholder", "named"} :
        write' = [write EXCEPT ![r] = [mode |-> m, title |-> t, project |-> p]]
    /\ UNCHANGED <<rows, messages, projects, doc, seen, expired, turn, fresh, titling>>

CreateConversation(r) ==
    /\ pc[r] = "creating"
    /\ LET c == conv[r] IN
        IF ProjectExists(write[r].project)
        THEN /\ stored' = stored \cup {c}
             /\ mode' = [mode EXCEPT ![c] = write[r].mode]
             /\ title' = [title EXCEPT ![c] = write[r].title]
             /\ project' = [project EXCEPT ![c] = write[r].project]
             /\ UNCHANGED unnamed
        ELSE UNCHANGED rows
    /\ End(r)
    /\ UNCHANGED <<messages, projects, doc>>

(* PATCH /conversations/{id}.  target is the mode asked for, or the loaded *)
(* one; assign says whether the request names a project.  A change of mode *)
(* without a project detaches the conversation; a project must have the    *)
(* mode the conversation will have.  newTitle is the title given, or the   *)
(* loaded one.                                                             *)
CheckUpdate(r, c, target, assign, p, newTitle) ==
    LET moved == IF assign THEN p
                 ELSE IF target # mode[c] THEN NoProject ELSE project[c] IN
    /\ Load(r, c, "updating", Row(c))
    /\ assign /\ p # NoProject => p \in projects /\ ProjectMode[p] = target
    /\ newTitle \in {title[c], "named", "placeholder"}
    /\ write' = [write EXCEPT ![r] =
                   [mode |-> target, title |-> newTitle, project |-> moved]]
    /\ UNCHANGED <<rows, messages, projects, doc, expired, turn, fresh, titling>>

(* the value an UPDATE leaves: only what differs from the snapshot is written *)
Written(current, loaded, new) == IF new = loaded THEN current ELSE new

(* c is given the title new by a request that loaded another one *)
Entitle(c, loaded, new) ==
    unnamed' = IF new = loaded THEN unnamed
               ELSE IF new = "placeholder" THEN unnamed \cup {c}
               ELSE unnamed \ {c}

(* update_conversation; fails when the row or the new project is gone *)
UpdateConversation(r) ==
    /\ pc[r] = "updating"
    /\ LET c == conv[r] IN
        IF c \in stored /\ (write[r].project = seen[r].project \/ ProjectExists(write[r].project))
        THEN /\ mode' = [mode EXCEPT ![c] = Written(@, seen[r].mode, write[r].mode)]
             /\ title' = [title EXCEPT ![c] = Written(@, seen[r].title, write[r].title)]
             /\ project' = [project EXCEPT ![c] = Written(@, seen[r].project, write[r].project)]
             /\ Entitle(c, seen[r].title, write[r].title)
        ELSE UNCHANGED <<mode, title, project, unnamed>>
    /\ End(r)
    /\ UNCHANGED <<stored, messages, projects, doc>>

LoadForDelete(r, c) ==
    /\ Load(r, c, "deleting", Unwritten)
    /\ UNCHANGED <<rows, messages, projects, doc, expired, turn, fresh, titling, write>>

(* fault: the links of a deleted conversation stay *)
DeleteKeepsLinks(r) ==
    /\ pc[r] = "deleting"
    /\ stored' = stored \ {conv[r]}
    /\ turns' = [turns EXCEPT ![conv[r]] = 0]
    /\ End(r)
    /\ UNCHANGED <<mode, title, project, unnamed, attached, scope, projects, doc>>

(* the row is deleted, which cascades; a row already gone is not an error *)
DeleteConversation(r) ==
    /\ pc[r] = "deleting"
    /\ LET c == conv[r] IN
        /\ stored' = stored \ {c}
        /\ mode' = [mode EXCEPT ![c] = "normal"]
        /\ title' = [title EXCEPT ![c] = "placeholder"]
        /\ project' = [project EXCEPT ![c] = NoProject]
        /\ unnamed' = unnamed \ {c}
        /\ turns' = [turns EXCEPT ![c] = 0]
        /\ attached' = [attached EXCEPT ![c] = {}]
        /\ scope' = [scope EXCEPT ![c] = {}]
    /\ End(r)
    /\ UNCHANGED <<projects, doc>>

CreateProject(p) ==
    /\ p \notin projects
    /\ \A r \in Requests : p \notin {write[r].project, seen[r].project}
    /\ projects' = projects \cup {p}
    /\ UNCHANGED <<rows, messages, doc, request>>

(* ON DELETE SET NULL: the conversations return to the history *)
DeleteProject(p) ==
    /\ p \in projects
    /\ projects' = projects \ {p}
    /\ project' = [c \in Convs |-> IF project[c] = p THEN NoProject ELSE project[c]]
    /\ UNCHANGED <<stored, mode, title, unnamed, messages, doc, request>>

----------------------------------------------------------------------------
(* Chat turns: POST /conversations/{id}/messages and .../messages/stream *)

(* a stream is refused for a Knowledge conversation and does not resolve   *)
(* a scope                                                                 *)
LoadForTurn(r, c, docs, stream) ==
    /\ Load(r, c, IF stream THEN "answering" ELSE "asked", TitleOf(c))
    /\ stream => mode[c] = "normal"
    /\ turn' = [turn EXCEPT ![r] = [docs |-> docs, knowledge |-> mode[c] = "knowledge"]]
    /\ UNCHANGED <<rows, messages, projects, doc, expired, fresh, titling, write>>

(* resolve_conversation_document_scope; every refusal answers 422 *)
ResolveScope(r) ==
    LET existing  == IF turn[r].knowledge THEN scope[conv[r]] ELSE {}
        effective == existing \cup turn[r].docs IN
    /\ pc[r] = "asked"
    /\ \/ /\ Cardinality(effective) <= MaxScope
          /\ \A d \in effective : doc[d] = "ready"
          /\ fresh' = [fresh EXCEPT ![r] =
                         IF turn[r].knowledge THEN turn[r].docs \ existing ELSE {}]
          /\ Goto(r, "answering")
          /\ UNCHANGED <<conv, seen, expired, turn, titling, write>>
       \/ /\ \/ Cardinality(effective) > MaxScope
             \/ \E d \in effective : doc[d] # "ready"
          /\ End(r)
    /\ UNCHANGED <<rows, messages, projects, doc>>

(* memory retrieval failed: its rollback expires the loaded conversation *)
MemoryFails(r) ==
    /\ pc[r] = "answering" /\ ~turn[r].knowledge /\ ~expired[r]
    /\ expired' = [expired EXCEPT ![r] = TRUE]
    /\ UNCHANGED <<rows, messages, projects, doc, pc, conv, seen, turn, fresh, titling, write>>

(* an expired conversation is loaded again when it is next used, which     *)
(* fails when it is gone                                                   *)
Reload(r) ==
    /\ pc[r] \in {"answering", "answered"} /\ expired[r]
    /\ IF conv[r] \in stored
       THEN /\ seen' = [seen EXCEPT ![r] = TitleOf(conv[r])]
            /\ expired' = [expired EXCEPT ![r] = FALSE]
            /\ UNCHANGED <<pc, conv, turn, fresh, titling, write>>
       ELSE End(r)
    /\ UNCHANGED <<rows, messages, projects, doc>>

(* the model answers; attachments of a normal turn are read first *)
Answer(r) ==
    /\ pc[r] = "answering"
    /\ turn[r].knowledge \/ \A d \in turn[r].docs : doc[d] = "ready"
    /\ Goto(r, "answered")
    /\ UNCHANGED <<rows, messages, projects, doc, conv, seen, expired, turn, fresh, titling, write>>

(* _title_first_conversation_turn reads whether a message is stored; a     *)
(* first message that gives no title gives the placeholder                 *)
CheckTitle(r) ==
    /\ pc[r] = "answered" /\ ~expired[r]
    /\ \E t \in IF seen[r].title = "placeholder" /\ turns[conv[r]] = 0
               THEN {"derived", "placeholder"} ELSE {"kept"} :
        titling' = [titling EXCEPT ![r] = t]
    /\ Goto(r, "persisting")
    /\ UNCHANGED <<rows, messages, projects, doc, conv, seen, expired, turn, fresh, write>>

(* fault: the title is set on the detached object only *)
PersistUntitled(r) ==
    /\ pc[r] = "persisting"
    /\ conv[r] \in stored /\ turns[conv[r]] < MaxTurns
    /\ turns' = [turns EXCEPT ![conv[r]] = @ + 1]
    /\ End(r)
    /\ UNCHANGED <<rows, attached, scope, projects, doc>>

(* fault: the links of the scope are not part of the turn *)
PersistWithoutScope(r) ==
    /\ pc[r] = "persisting"
    /\ conv[r] \in stored /\ turns[conv[r]] < MaxTurns
    /\ \A d \in turn[r].docs : doc[d] # "none"
    /\ turns' = [turns EXCEPT ![conv[r]] = @ + 1]
    /\ attached' = [attached EXCEPT ![conv[r]] =
                      IF turn[r].knowledge THEN @ \cup turn[r].docs ELSE @]
    /\ End(r)
    /\ UNCHANGED <<rows, scope, projects, doc>>

(* the commit needs the conversation and the documents (foreign keys), and *)
(* no other turn may have linked the same documents (primary key)          *)
CanPersist(r) ==
    /\ conv[r] \in stored
    /\ \A d \in turn[r].docs : doc[d] # "none"
    /\ fresh[r] \cap scope[conv[r]] = {}

(* persist_chat_turn: title, messages, links and attachments in one commit; *)
(* the placeholder is the loaded title, which an UPDATE leaves out          *)
PersistTurn(r) ==
    /\ pc[r] = "persisting" /\ CanPersist(r)
    /\ LET c == conv[r] IN
        /\ turns[c] < MaxTurns
        /\ turns' = [turns EXCEPT ![c] = @ + 1]
        /\ title' = IF titling[r] = "derived" THEN [title EXCEPT ![c] = "derived"] ELSE title
        /\ Entitle(c, "kept", titling[r])
        /\ scope' = [scope EXCEPT ![c] = @ \cup fresh[r]]
        /\ attached' = [attached EXCEPT ![c] =
                          IF turn[r].knowledge THEN @ \cup turn[r].docs ELSE @]
    /\ End(r)
    /\ UNCHANGED <<stored, mode, project, projects, doc>>

PersistFails(r) ==
    /\ pc[r] = "persisting" /\ ~CanPersist(r)
    /\ End(r)
    /\ UNCHANGED <<rows, messages, projects, doc>>

(* the provider fails, the client leaves the stream or the server dies *)
Abandon(r) ==
    /\ pc[r] # "idle"
    /\ End(r)
    /\ UNCHANGED <<rows, messages, projects, doc>>

----------------------------------------------------------------------------
(* the documents' own life, seen from here *)
ChangeDoc(d) ==
    /\ doc' = [doc EXCEPT ![d] = IF @ = "ready" THEN "other" ELSE "ready"]
    /\ doc[d] = "none" => \A r \in Requests : d \notin turn[r].docs \cup fresh[r]
    /\ UNCHANGED <<rows, messages, projects, request>>

(* a document's deletion cascades into links and attachments *)
DeleteDoc(d) ==
    /\ doc[d] # "none"
    /\ doc' = [doc EXCEPT ![d] = "none"]
    /\ scope' = [c \in Convs |-> scope[c] \ {d}]
    /\ attached' = [c \in Convs |-> attached[c] \ {d}]
    /\ UNCHANGED <<rows, turns, projects, request>>

SettingsStep(r) ==
    \/ \E c \in Convs, m \in Modes, p \in Projects \cup {NoProject} :
        CheckNewConversation(r, c, m, p)
    \/ CreateConversation(r)
    \/ \E c \in Convs, m \in Modes, p \in Projects \cup {NoProject},
          assign \in BOOLEAN, t \in Titles : CheckUpdate(r, c, m, assign, p, t)
    \/ UpdateConversation(r)
    \/ \E c \in Convs : LoadForDelete(r, c)
    \/ DeleteConversation(r)

TurnStep(r) ==
    \/ \E c \in Convs, docs \in SUBSET Docs, stream \in BOOLEAN : LoadForTurn(r, c, docs, stream)
    \/ ResolveScope(r) \/ MemoryFails(r) \/ Reload(r) \/ Answer(r)
    \/ CheckTitle(r) \/ PersistTurn(r) \/ PersistFails(r) \/ Abandon(r)

Next ==
    \/ \E r \in Requests : SettingsStep(r) \/ TurnStep(r)
    \/ \E p \in Projects : CreateProject(p) \/ DeleteProject(p)
    \/ \E d \in Docs : ChangeDoc(d) \/ DeleteDoc(d)

Spec == Init /\ [][Next]_vars

----------------------------------------------------------------------------
(* Properties *)

(* docs/ARCHITECTURE.md: a project and its conversations use the same      *)
(* mode.                                                                   *)
ProjectModeMatches ==
    \A c \in stored : project[c] # NoProject => ProjectMode[project[c]] = mode[c]

(* "A knowledge conversation can reference at most 50 documents".          *)
ScopeIsCapped == \A c \in Convs : Cardinality(scope[c]) <= MaxScope

(* Whatever turns, deletions and document deletions overlap, nothing names *)
(* what is gone: a deleted conversation leaves no messages or links, a     *)
(* deleted document no links, a deleted project no conversations.          *)
NothingDangles ==
    /\ \A c \in Convs \ stored : turns[c] = 0 /\ scope[c] = {} /\ attached[c] = {}
    /\ \A c \in Convs : \A d \in scope[c] \cup attached[c] : doc[d] # "none"
    /\ \A c \in stored : ProjectExists(project[c])

(* What a stored Knowledge turn attached, while it exists, is in the       *)
(* conversation's scope, also when turns attach it together: later turns   *)
(* search it.                                                              *)
AttachedIsInScope == \A c \in Convs : attached[c] \subseteq scope[c]

(* A conversation with a turn has the placeholder title only when it was    *)
(* given it, by a rename or by a first message without a word: the title a  *)
(* first turn derives is not lost, however first turns that are answered    *)
(* together and renames overlap.                                            *)
Titled(c) == title[c] # "placeholder" \/ c \in unnamed
PlaceholderIsReplaced == \A c \in stored : turns[c] > 0 => Titled(c)

(* Attachments of a normal turn never enter the conversation's scope:      *)
(* a scope only grows by the documents of a Knowledge turn that is stored  *)
(* in the same commit.                                                     *)
ScopeGrowsWithTurn ==
    [][\A c \in Convs : \A d \in scope'[c] \ scope[c] :
        turns'[c] = turns[c] + 1 /\ d \in attached'[c]]_vars
=============================================================================

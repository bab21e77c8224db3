----------------------- MODULE ConversationTurnProofs -----------------------
(***************************************************************************)
(* What holds of ConversationTurn for any requests, conversations,         *)
(* projects and documents.  Each invariant is proved with one step per     *)
(* kind of action; the last two theorems have a premise on how requests    *)
(* overlap.                                                                *)
(***************************************************************************)
EXTENDS ConversationTurn, FiniteSetTheorems, TLAPS

(* The values that an idle request keeps are settings and a turn.           *)
LEMMA EmptyValues == Unwritten \in Settings /\ NoTurn \in Turns
BY DEF Unwritten, Settings, NoTurn, Turns, Modes, Titles

(* So are those it loads.                                                   *)
LEMMA LoadedValues ==
    ASSUME RowsTyped, NEW c \in Convs
    PROVE  Row(c) \in Settings /\ TitleOf(c) \in Settings
BY DEF RowsTyped, Row, TitleOf, Unwritten, Settings, Modes, Titles

LEMMA EndKeepsTypes ==
    ASSUME RequestsTyped, NEW r \in Requests, End(r) PROVE RequestsTyped'
BY EmptyValues DEF RequestsTyped, End, Goto, Stages

(* The steps that write to the database; all others leave it as it is.      *)
DatabaseStep ==
    \/ \E r \in Requests : \/ CreateConversation(r) \/ UpdateConversation(r)
                          \/ DeleteConversation(r) \/ PersistTurn(r)
    \/ \E p \in Projects : CreateProject(p) \/ DeleteProject(p)
    \/ \E d \in Docs : ChangeDoc(d) \/ DeleteDoc(d)

Quiet == UNCHANGED <<rows, messages, projects, doc>>

LEMMA DatabaseSteps == [Next]_vars => DatabaseStep \/ Quiet
<1> SUFFICES ASSUME [Next]_vars, ~DatabaseStep PROVE Quiet
  OBVIOUS
<1> USE DEF Quiet
<1>1. ASSUME NEW r \in Requests, ResolveScope(r) \/ MemoryFails(r) \/ Reload(r)
             \/ Answer(r) \/ CheckTitle(r) \/ PersistFails(r) \/ Abandon(r)
      PROVE  Quiet
  BY <1>1 DEF ResolveScope, MemoryFails, Reload, Answer, CheckTitle, PersistFails, Abandon
<1>2. ASSUME NEW r \in Requests, NEW c \in Convs, NEW m, NEW p, NEW assign, NEW t,
             \/ CheckNewConversation(r, c, m, p) \/ LoadForDelete(r, c)
             \/ CheckUpdate(r, c, m, assign, p, t)
      PROVE  Quiet
  BY <1>2 DEF CheckNewConversation, CheckUpdate, LoadForDelete
<1>3. ASSUME NEW r \in Requests, NEW c \in Convs, NEW docs, NEW stream,
              LoadForTurn(r, c, docs, stream)
       PROVE  Quiet
  BY <1>3 DEF LoadForTurn
<1>4. CASE UNCHANGED vars
  BY <1>4 DEF vars, rows, messages
<1> HIDE DEF Quiet
<1> QED
  BY <1>1, <1>2, <1>3, <1>4 DEF Next, SettingsStep, TurnStep, DatabaseStep

(* The rows keep their types.                                               *)
LEMMA RowsKeepTypes == TypeOK /\ [Next]_vars => RowsTyped'
<1> SUFFICES ASSUME TypeOK, [Next]_vars PROVE RowsTyped'
  OBVIOUS
<1> USE DEF TypeOK, RowsTyped
<1>1. CASE Quiet
  BY <1>1 DEF Quiet, rows, messages
<1>2. ASSUME NEW r \in Requests, CreateConversation(r) PROVE RowsTyped'
  <2>1. write[r] \in Settings /\ conv[r] \in Convs
    BY <1>2 DEF RequestsTyped, CreateConversation
  <2>2. /\ write[r].mode \in Modes /\ write[r].title \in Titles
        /\ write[r].project \in Projects \cup {NoProject}
    BY <2>1 DEF Settings
  <2> QED
    BY <1>2, <2>1, <2>2 DEF CreateConversation, messages, rows
<1>3. ASSUME NEW r \in Requests, UpdateConversation(r) PROVE RowsTyped'
  <2>1. unnamed' \subseteq Convs
    BY <1>3 DEF RequestsTyped, UpdateConversation, Entitle
  <2>2. write[r] \in Settings
    BY DEF RequestsTyped
  <2> QED
    BY <1>3, <2>1, <2>2 DEF UpdateConversation, messages, Settings, Written
<1>4. ASSUME NEW r \in Requests, DeleteConversation(r) PROVE RowsTyped'
  <2>1. 0 \in 0 .. MaxTurns /\ "normal" \in Modes /\ "placeholder" \in Titles
    BY ScopeAssumption DEF Modes, Titles
  <2>2. scope' \in [Convs -> SUBSET Docs] /\ attached' \in [Convs -> SUBSET Docs]
    BY <1>4 DEF DeleteConversation
  <2> QED
    BY <1>4, <2>1, <2>2 DEF DeleteConversation
<1>5. ASSUME NEW r \in Requests, PersistTurn(r) PROVE RowsTyped'
  BY <1>5, ScopeAssumption DEF RequestsTyped, PersistTurn, Turns, Titles, Entitle
<1>6. ASSUME NEW p \in Projects, CreateProject(p) \/ DeleteProject(p) PROVE RowsTyped'
  BY <1>6 DEF CreateProject, DeleteProject, rows, messages
<1>7. ASSUME NEW d \in Docs, ChangeDoc(d) \/ DeleteDoc(d) PROVE RowsTyped'
  BY <1>7 DEF ChangeDoc, DeleteDoc, rows, messages
<1> HIDE DEF TypeOK, RowsTyped
<1> QED
  BY <1>1, <1>2, <1>3, <1>4, <1>5, <1>6, <1>7, DatabaseSteps DEF DatabaseStep, Quiet

(* The requests keep their types, and an open one has its conversation.     *)
LEMMA RequestsKeepTypes == TypeOK /\ [Next]_vars => RequestsTyped'
<1> SUFFICES ASSUME TypeOK, [Next]_vars PROVE RequestsTyped'
  OBVIOUS
<1> USE DEF TypeOK, RequestsTyped, Goto, Stages, Asking
<1>1. CASE UNCHANGED request
  BY <1>1 DEF request
<1>2. ASSUME NEW r \in Requests, End(r) PROVE RequestsTyped'
  BY <1>2, EndKeepsTypes
<1>3. ASSUME NEW r \in Requests, NEW c \in Convs, NEW m \in Modes,
             NEW p \in Projects \cup {NoProject}, CheckNewConversation(r, c, m, p)
      PROVE  RequestsTyped'
  <2>1. \A t \in {"placeholder", "named"} :
          [mode |-> m, title |-> t, project |-> p] \in Settings
    BY DEF Settings, Titles
  <2> QED
    BY <1>3, <2>1 DEF CheckNewConversation
<1>4. ASSUME NEW r \in Requests, NEW c \in Convs, NEW m \in Modes,
             NEW p \in Projects \cup {NoProject},
             NEW assign \in BOOLEAN, NEW t \in Titles,
             CheckUpdate(r, c, m, assign, p, t)
      PROVE  RequestsTyped'
  <2> DEFINE moved == IF assign THEN p ELSE IF m # mode[c] THEN NoProject ELSE project[c]
             w == [mode |-> m, title |-> t, project |-> moved]
  <2>1. Row(c) \in Settings
    BY LoadedValues
  <2>2. moved \in Projects \cup {NoProject}
    BY DEF RowsTyped
  <2>3. w \in Settings
    BY <2>2 DEF Settings
  <2>4. write' = [write EXCEPT ![r] = w]
    BY <1>4 DEF CheckUpdate
  <2> HIDE DEF w
  <2> QED
    BY <1>4, <2>1, <2>3, <2>4 DEF CheckUpdate, Load
<1>5. ASSUME NEW r \in Requests, NEW c \in Convs, LoadForDelete(r, c) PROVE RequestsTyped'
  BY <1>5, EmptyValues DEF LoadForDelete, Load
<1>6. ASSUME NEW r \in Requests, NEW c \in Convs, NEW docs \in SUBSET Docs,
             NEW stream \in BOOLEAN, LoadForTurn(r, c, docs, stream)
      PROVE  RequestsTyped'
  <2>1. TitleOf(c) \in Settings
    BY LoadedValues
  <2>2. [docs |-> docs, knowledge |-> mode[c] = "knowledge"] \in Turns
    BY DEF Turns
  <2> QED
    BY <1>6, <2>1, <2>2 DEF LoadForTurn, Load
<1>7. ASSUME NEW r \in Requests, ResolveScope(r), ~End(r) PROVE RequestsTyped'
  <2>1. turn[r].docs \subseteq Docs
    BY DEF Turns
  <2> QED
    BY <1>7, <2>1 DEF ResolveScope
<1>8. ASSUME NEW r \in Requests, Reload(r), ~End(r) PROVE RequestsTyped'
  <2>1. TitleOf(conv[r]) \in Settings
    BY <1>8, LoadedValues DEF Reload
  <2> QED
    BY <1>8, <2>1 DEF Reload
<1>9. ASSUME NEW r \in Requests, MemoryFails(r) \/ Answer(r) PROVE RequestsTyped'
  BY <1>9 DEF MemoryFails, Answer
<1>10. ASSUME NEW r \in Requests, CheckTitle(r) PROVE RequestsTyped'
  BY <1>10 DEF CheckTitle
<1>11. ASSUME NEW r \in Requests, CreateConversation(r) \/ UpdateConversation(r)
              \/ DeleteConversation(r) \/ PersistTurn(r) \/ PersistFails(r) \/ Abandon(r)
       PROVE  RequestsTyped'
  BY <1>2, <1>11 DEF CreateConversation, UpdateConversation, DeleteConversation, PersistTurn,
                     PersistFails, Abandon
<1>12. ASSUME NEW p \in Projects, CreateProject(p) \/ DeleteProject(p) PROVE RequestsTyped'
  BY <1>1, <1>12 DEF CreateProject, DeleteProject
<1>13. ASSUME NEW d \in Docs, ChangeDoc(d) \/ DeleteDoc(d) PROVE RequestsTyped'
  BY <1>1, <1>13 DEF ChangeDoc, DeleteDoc
<1>14. CASE UNCHANGED vars
  BY <1>1, <1>14 DEF vars, request
<1> HIDE DEF TypeOK, RequestsTyped, Goto, Stages, Asking
<1> QED
  BY <1>2, <1>3, <1>4, <1>5, <1>6, <1>7, <1>8, <1>9, <1>10, <1>11, <1>12, <1>13, <1>14
     DEF Next, SettingsStep, TurnStep

(* The variables keep their types, and a request that is open has its       *)
(* conversation.                                                            *)
THEOREM TypeCorrect == Spec => []TypeOK
<1>1. Init => TypeOK
  <2>1. Init => RowsTyped
    BY ScopeAssumption DEF Init, RowsTyped, Modes, Titles
  <2>2. Init => RequestsTyped
    BY EmptyValues DEF Init, RequestsTyped, Stages
  <2> QED
    BY <2>1, <2>2 DEF TypeOK
<1>2. TypeOK /\ [Next]_vars => TypeOK'
  BY RowsKeepTypes, RequestsKeepTypes DEF TypeOK
<1> QED
  BY <1>1, <1>2, PTL DEF Spec

(* A request adds to the scope only what its Knowledge turn attached, and   *)
(* knows it only after it has read the scope.                               *)
FreshIsAttached ==
    \A r \in Requests :
        /\ pc[r] \notin {"answering", "answered", "persisting"} => fresh[r] = {}
        /\ fresh[r] \subseteq turn[r].docs
        /\ fresh[r] # {} => turn[r].knowledge

(* FreshIsAttached is inductive.                                            *)
LEMMA FreshIsAttachedHolds == Spec => []FreshIsAttached
<1> USE DEF FreshIsAttached, NoTurn
<1>1. Init => FreshIsAttached
  BY DEF Init
<1>2. TypeOK /\ FreshIsAttached /\ [Next]_vars => FreshIsAttached'
  <2> SUFFICES ASSUME TypeOK, FreshIsAttached, [Next]_vars PROVE FreshIsAttached'
    OBVIOUS
  <2> USE DEF TypeOK, RowsTyped, RequestsTyped, rows, messages, request, Goto, End
  <2>1. CASE UNCHANGED vars
    BY <2>1 DEF vars
  <2>2. ASSUME NEW r \in Requests, NEW c \in Convs, NEW m \in Modes,
                NEW p \in Projects \cup {NoProject},
                CheckNewConversation(r, c, m, p)
         PROVE  FreshIsAttached'
    BY <2>2 DEF CheckNewConversation
  <2>3. ASSUME NEW r \in Requests,
                CreateConversation(r)
         PROVE  FreshIsAttached'
    BY <2>3 DEF CreateConversation
  <2>4. ASSUME NEW r \in Requests, NEW c \in Convs, NEW m \in Modes,
                NEW p \in Projects \cup {NoProject},
                NEW assign \in BOOLEAN, NEW t \in Titles,
                CheckUpdate(r, c, m, assign, p, t)
         PROVE  FreshIsAttached'
    BY <2>4 DEF CheckUpdate, Load
  <2>5. ASSUME NEW r \in Requests,
                UpdateConversation(r)
         PROVE  FreshIsAttached'
    BY <2>5 DEF UpdateConversation
  <2>6. ASSUME NEW r \in Requests, NEW c \in Convs,
                LoadForDelete(r, c)
         PROVE  FreshIsAttached'
    BY <2>6 DEF LoadForDelete, Load
  <2>7. ASSUME NEW r \in Requests,
                DeleteConversation(r)
         PROVE  FreshIsAttached'
    BY <2>7 DEF DeleteConversation
  <2>8. ASSUME NEW r \in Requests, NEW c \in Convs, NEW docs \in SUBSET Docs,
                NEW stream \in BOOLEAN,
                LoadForTurn(r, c, docs, stream)
         PROVE  FreshIsAttached'
    BY <2>8 DEF LoadForTurn, Load
  <2>9. ASSUME NEW r \in Requests,
                ResolveScope(r)
         PROVE  FreshIsAttached'
    BY <2>9 DEF ResolveScope
  <2>10. ASSUME NEW r \in Requests,
                MemoryFails(r) \/ Reload(r)
         PROVE  FreshIsAttached'
    BY <2>10 DEF MemoryFails, Reload
  <2>11. ASSUME NEW r \in Requests,
                Answer(r) \/ CheckTitle(r)
         PROVE  FreshIsAttached'
    BY <2>11 DEF Answer, CheckTitle
  <2>12. ASSUME NEW r \in Requests,
                PersistTurn(r)
         PROVE  FreshIsAttached'
    BY <2>12 DEF PersistTurn, CanPersist
  <2>13. ASSUME NEW r \in Requests,
                PersistFails(r) \/ Abandon(r)
         PROVE  FreshIsAttached'
    BY <2>13 DEF PersistFails, Abandon
  <2>14. ASSUME NEW p \in Projects,
                CreateProject(p) \/ DeleteProject(p)
         PROVE  FreshIsAttached'
    BY <2>14 DEF CreateProject, DeleteProject
  <2>15. ASSUME NEW d \in Docs,
                ChangeDoc(d) \/ DeleteDoc(d)
         PROVE  FreshIsAttached'
    BY <2>15 DEF ChangeDoc, DeleteDoc
  <2> HIDE DEF TypeOK, RowsTyped, RequestsTyped, rows, messages, request, Goto, End, FreshIsAttached, NoTurn
  <2> QED
    BY <2>1, <2>2, <2>3, <2>4, <2>5, <2>6, <2>7, <2>8, <2>9,
       <2>10, <2>11, <2>12, <2>13, <2>14, <2>15
       DEF Next, SettingsStep, TurnStep
<1> QED
  BY <1>1, <1>2, TypeCorrect, PTL DEF Spec

(* No other request has the conversation that one is creating.              *)
CreatingIsAlone ==
    \A r \in Requests :
        pc[r] = "creating" =>
            /\ conv[r] \notin stored
            /\ \A q \in Requests : q # r => conv[q] # conv[r]

(* CreatingIsAlone is inductive: only stored conversations are loaded.       *)
LEMMA CreatingIsAloneHolds == Spec => []CreatingIsAlone
<1> USE ProjectsAssumption
<1> USE DEF CreatingIsAlone
<1>1. Init => CreatingIsAlone
  BY DEF Init
<1>2. TypeOK /\ CreatingIsAlone /\ [Next]_vars => CreatingIsAlone'
  <2> SUFFICES ASSUME TypeOK, CreatingIsAlone, [Next]_vars PROVE CreatingIsAlone'
    OBVIOUS
  <2> USE DEF TypeOK, RowsTyped, RequestsTyped, rows, messages, request, Goto, End
  <2>1. CASE UNCHANGED vars
    BY <2>1 DEF vars
  <2>2. ASSUME NEW r \in Requests, NEW c \in Convs, NEW m \in Modes,
                NEW p \in Projects \cup {NoProject},
                CheckNewConversation(r, c, m, p)
         PROVE  CreatingIsAlone'
    BY <2>2 DEF CheckNewConversation
  <2>3. ASSUME NEW r \in Requests,
                CreateConversation(r)
         PROVE  CreatingIsAlone'
    BY <2>3 DEF CreateConversation
  <2>4. ASSUME NEW r \in Requests, NEW c \in Convs, NEW m \in Modes,
                NEW p \in Projects \cup {NoProject},
                NEW assign \in BOOLEAN, NEW t \in Titles,
                CheckUpdate(r, c, m, assign, p, t)
         PROVE  CreatingIsAlone'
    BY <2>4 DEF CheckUpdate, Load
  <2>5. ASSUME NEW r \in Requests,
                UpdateConversation(r)
         PROVE  CreatingIsAlone'
    BY <2>5 DEF UpdateConversation
  <2>6. ASSUME NEW r \in Requests, NEW c \in Convs,
                LoadForDelete(r, c)
         PROVE  CreatingIsAlone'
    BY <2>6 DEF LoadForDelete, Load
  <2>7. ASSUME NEW r \in Requests,
                DeleteConversation(r)
         PROVE  CreatingIsAlone'
    BY <2>7 DEF DeleteConversation
  <2>8. ASSUME NEW r \in Requests, NEW c \in Convs, NEW docs \in SUBSET Docs,
                NEW stream \in BOOLEAN,
                LoadForTurn(r, c, docs, stream)
         PROVE  CreatingIsAlone'
    BY <2>8 DEF LoadForTurn, Load
  <2>9. ASSUME NEW r \in Requests,
                ResolveScope(r)
         PROVE  CreatingIsAlone'
    BY <2>9 DEF ResolveScope
  <2>10. ASSUME NEW r \in Requests,
                MemoryFails(r) \/ Reload(r)
         PROVE  CreatingIsAlone'
    BY <2>10 DEF MemoryFails, Reload
  <2>11. ASSUME NEW r \in Requests,
                Answer(r) \/ CheckTitle(r)
         PROVE  CreatingIsAlone'
    BY <2>11 DEF Answer, CheckTitle
  <2>12. ASSUME NEW r \in Requests,
                PersistTurn(r)
         PROVE  CreatingIsAlone'
    BY <2>12 DEF PersistTurn, CanPersist
  <2>13. ASSUME NEW r \in Requests,
                PersistFails(r) \/ Abandon(r)
         PROVE  CreatingIsAlone'
    BY <2>13 DEF PersistFails, Abandon
  <2>14. ASSUME NEW p \in Projects,
                CreateProject(p) \/ DeleteProject(p)
         PROVE  CreatingIsAlone'
    BY <2>14 DEF CreateProject, DeleteProject
  <2>15. ASSUME NEW d \in Docs,
                ChangeDoc(d) \/ DeleteDoc(d)
         PROVE  CreatingIsAlone'
    BY <2>15 DEF ChangeDoc, DeleteDoc
  <2> HIDE DEF TypeOK, RowsTyped, RequestsTyped, rows, messages, request, Goto, End, CreatingIsAlone
  <2> QED
    BY <2>1, <2>2, <2>3, <2>4, <2>5, <2>6, <2>7, <2>8, <2>9,
       <2>10, <2>11, <2>12, <2>13, <2>14, <2>15
       DEF Next, SettingsStep, TurnStep
<1> QED
  BY <1>1, <1>2, TypeCorrect, PTL DEF Spec

(* Whatever overlaps, deletions leave nothing behind: each commit that      *)
(* names a row is refused when the row is gone, and what a turn links it    *)
(* also attached.                                                           *)
THEOREM NothingIsLeftDangling == Spec => []NothingDangles
<1> USE DEF NothingDangles, ProjectExists
<1>1. Init => NothingDangles
  BY DEF Init
<1>2. TypeOK /\ FreshIsAttached /\ NothingDangles /\ [Next]_vars => NothingDangles'
  <2> SUFFICES ASSUME TypeOK, FreshIsAttached, NothingDangles, [Next]_vars PROVE NothingDangles'
    OBVIOUS
  <2> USE DEF TypeOK, RowsTyped, RequestsTyped
  <2>1. CASE Quiet
    BY <2>1 DEF Quiet, rows, messages
  <2>2. ASSUME NEW r \in Requests, CreateConversation(r) PROVE NothingDangles'
    BY <2>2 DEF CreateConversation, messages, rows
  <2>3. ASSUME NEW r \in Requests, UpdateConversation(r) PROVE NothingDangles'
    BY <2>3 DEF UpdateConversation, messages, Written
  <2>4. ASSUME NEW r \in Requests, DeleteConversation(r) PROVE NothingDangles'
    BY <2>4 DEF DeleteConversation
  <2>5. ASSUME NEW r \in Requests, PersistTurn(r) PROVE NothingDangles'
    BY <2>5 DEF PersistTurn, CanPersist, FreshIsAttached
  <2>6. ASSUME NEW p \in Projects, CreateProject(p) \/ DeleteProject(p) PROVE NothingDangles'
    BY <2>6 DEF CreateProject, DeleteProject, rows, messages
  <2>7. ASSUME NEW d \in Docs, ChangeDoc(d) \/ DeleteDoc(d) PROVE NothingDangles'
    BY <2>7 DEF ChangeDoc, DeleteDoc, rows, messages
  <2> QED
    BY <2>1, <2>2, <2>3, <2>4, <2>5, <2>6, <2>7, DatabaseSteps DEF DatabaseStep
<1> QED
  BY <1>1, <1>2, TypeCorrect, FreshIsAttachedHolds, PTL DEF Spec

(* A Knowledge turn in progress will add what the scope lacks: a document   *)
(* it attached that is not fresh was in the scope when that was read, and   *)
(* leaves it only by being deleted.                                         *)
FreshCompletesScope ==
    \A r \in Requests :
        pc[r] \in {"answering", "answered", "persisting"} /\ turn[r].knowledge
            /\ conv[r] \in stored
        => \A d \in turn[r].docs : doc[d] # "none" => d \in fresh[r] \cup scope[conv[r]]

(* FreshCompletesScope is inductive.                                        *)
LEMMA FreshCompletesScopeHolds == Spec => []FreshCompletesScope
<1> USE DEF FreshCompletesScope
<1>1. Init => FreshCompletesScope
  BY DEF Init
<1>2. TypeOK /\ CreatingIsAlone /\ FreshCompletesScope /\ [Next]_vars => FreshCompletesScope'
  <2> SUFFICES ASSUME TypeOK, CreatingIsAlone, FreshCompletesScope, [Next]_vars PROVE FreshCompletesScope'
    OBVIOUS
  <2> USE DEF TypeOK, RowsTyped, RequestsTyped, rows, messages, request, Goto, End
  <2>1. CASE UNCHANGED vars
    BY <2>1 DEF vars
  <2>2. ASSUME NEW r \in Requests, NEW c \in Convs, NEW m \in Modes,
                NEW p \in Projects \cup {NoProject},
                CheckNewConversation(r, c, m, p)
         PROVE  FreshCompletesScope'
    BY <2>2 DEF CheckNewConversation
  <2>3. ASSUME NEW r \in Requests,
                CreateConversation(r)
         PROVE  FreshCompletesScope'
    BY <2>3 DEF CreateConversation, CreatingIsAlone
  <2>4. ASSUME NEW r \in Requests, NEW c \in Convs, NEW m \in Modes,
                NEW p \in Projects \cup {NoProject},
                NEW assign \in BOOLEAN, NEW t \in Titles,
                CheckUpdate(r, c, m, assign, p, t)
         PROVE  FreshCompletesScope'
    BY <2>4 DEF CheckUpdate, Load
  <2>5. ASSUME NEW r \in Requests,
                UpdateConversation(r)
         PROVE  FreshCompletesScope'
    BY <2>5 DEF UpdateConversation
  <2>6. ASSUME NEW r \in Requests, NEW c \in Convs,
                LoadForDelete(r, c)
         PROVE  FreshCompletesScope'
    BY <2>6 DEF LoadForDelete, Load
  <2>7. ASSUME NEW r \in Requests,
                DeleteConversation(r)
         PROVE  FreshCompletesScope'
    BY <2>7 DEF DeleteConversation
  <2>8. ASSUME NEW r \in Requests, NEW c \in Convs, NEW docs \in SUBSET Docs,
                NEW stream \in BOOLEAN,
                LoadForTurn(r, c, docs, stream)
         PROVE  FreshCompletesScope'
    BY <2>8 DEF LoadForTurn, Load
  <2>9. ASSUME NEW r \in Requests,
                ResolveScope(r)
         PROVE  FreshCompletesScope'
    BY <2>9 DEF ResolveScope
  <2>10. ASSUME NEW r \in Requests,
                MemoryFails(r) \/ Reload(r)
         PROVE  FreshCompletesScope'
    BY <2>10 DEF MemoryFails, Reload
  <2>11. ASSUME NEW r \in Requests,
                Answer(r) \/ CheckTitle(r)
         PROVE  FreshCompletesScope'
    BY <2>11 DEF Answer, CheckTitle
  <2>12. ASSUME NEW r \in Requests,
                PersistTurn(r)
         PROVE  FreshCompletesScope'
    BY <2>12 DEF PersistTurn, CanPersist
  <2>13. ASSUME NEW r \in Requests,
                PersistFails(r) \/ Abandon(r)
         PROVE  FreshCompletesScope'
    BY <2>13 DEF PersistFails, Abandon
  <2>14. ASSUME NEW p \in Projects,
                CreateProject(p) \/ DeleteProject(p)
         PROVE  FreshCompletesScope'
    BY <2>14 DEF CreateProject, DeleteProject
  <2>15. ASSUME NEW d \in Docs,
                ChangeDoc(d) \/ DeleteDoc(d)
         PROVE  FreshCompletesScope'
    <3>1. CASE ChangeDoc(d)
      BY <3>1 DEF ChangeDoc
    <3>2. CASE DeleteDoc(d)
      <4>1. UNCHANGED request /\ stored' = stored
        BY <3>2 DEF DeleteDoc
      <4>2. \A e \in Docs : doc'[e] # "none" => doc[e] # "none" /\ e # d
        BY <3>2 DEF DeleteDoc
      <4>3. \A c \in Convs, e \in Docs : e # d /\ e \in scope[c] => e \in scope'[c]
        BY <3>2 DEF DeleteDoc
      <4>4. \A q \in Requests : turn[q].docs \subseteq Docs
        BY DEF Turns
      <4> QED
        BY <4>1, <4>2, <4>3, <4>4
    <3> QED
      BY <2>15, <3>1, <3>2
  <2> HIDE DEF TypeOK, RowsTyped, RequestsTyped, rows, messages, request, Goto, End, FreshCompletesScope
  <2> QED
    BY <2>1, <2>2, <2>3, <2>4, <2>5, <2>6, <2>7, <2>8, <2>9,
       <2>10, <2>11, <2>12, <2>13, <2>14, <2>15
       DEF Next, SettingsStep, TurnStep
<1> QED
  BY <1>1, <1>2, TypeCorrect, CreatingIsAloneHolds, PTL DEF Spec

(* What a stored Knowledge turn attached is in its conversation's scope     *)
(* while the document exists, also when turns attach documents together.    *)
THEOREM AttachmentsAreSearched == Spec => []AttachedIsInScope
<1> USE DEF AttachedIsInScope
<1>1. Init => AttachedIsInScope
  BY DEF Init
<1>2. TypeOK /\ FreshCompletesScope /\ AttachedIsInScope /\ [Next]_vars => AttachedIsInScope'
  <2> SUFFICES ASSUME TypeOK, FreshCompletesScope, AttachedIsInScope, [Next]_vars
               PROVE  AttachedIsInScope'
    OBVIOUS
  <2> USE DEF TypeOK, RowsTyped, RequestsTyped
  <2>1. CASE Quiet
    BY <2>1 DEF Quiet, rows, messages
  <2>2. ASSUME NEW r \in Requests, CreateConversation(r) \/ UpdateConversation(r)
        PROVE  AttachedIsInScope'
    BY <2>2 DEF CreateConversation, UpdateConversation, messages
  <2>3. ASSUME NEW r \in Requests, DeleteConversation(r) PROVE AttachedIsInScope'
    BY <2>3 DEF DeleteConversation
  <2>4. ASSUME NEW r \in Requests, PersistTurn(r) PROVE AttachedIsInScope'
    BY <2>4 DEF PersistTurn, CanPersist, FreshCompletesScope
  <2>5. ASSUME NEW p \in Projects, CreateProject(p) \/ DeleteProject(p) PROVE AttachedIsInScope'
    BY <2>5 DEF CreateProject, DeleteProject, messages
  <2>6. ASSUME NEW d \in Docs, ChangeDoc(d) \/ DeleteDoc(d) PROVE AttachedIsInScope'
    BY <2>6 DEF ChangeDoc, DeleteDoc, messages
  <2> QED
    BY <2>1, <2>2, <2>3, <2>4, <2>5, <2>6, DatabaseSteps DEF DatabaseStep
<1> QED
  BY <1>1, <1>2, TypeCorrect, FreshCompletesScopeHolds, PTL DEF Spec

(* A conversation that has a title, or was given the placeholder, keeps     *)
(* one or the other, so a turn that will not title its conversation finds   *)
(* it so.                                                                   *)
TitleInv ==
    /\ PlaceholderIsReplaced
    /\ \A r \in Requests :
        /\ pc[r] \in Asking /\ conv[r] \in stored /\ seen[r].title # "placeholder"
           => Titled(conv[r])
        /\ pc[r] = "persisting" /\ conv[r] \in stored /\ titling[r] = "kept"
           => Titled(conv[r])

(* TitleInv is inductive.                                                   *)
LEMMA TitleInvHolds == Spec => []TitleInv
<1> USE DEF TitleInv, PlaceholderIsReplaced, Titled, Asking
<1>1. Init => TitleInv
  BY DEF Init
<1>2. TypeOK /\ CreatingIsAlone /\ NothingDangles /\ TitleInv /\ [Next]_vars => TitleInv'
  <2> SUFFICES ASSUME TypeOK, CreatingIsAlone, NothingDangles, TitleInv, [Next]_vars PROVE TitleInv'
    OBVIOUS
  <2> USE DEF TypeOK, RowsTyped, RequestsTyped, rows, messages, request, Goto, End
  <2>1. CASE UNCHANGED vars
    BY <2>1 DEF vars
  <2>2. ASSUME NEW r \in Requests, NEW c \in Convs, NEW m \in Modes,
                NEW p \in Projects \cup {NoProject},
                CheckNewConversation(r, c, m, p)
         PROVE  TitleInv'
    BY <2>2 DEF CheckNewConversation
  <2>3. ASSUME NEW r \in Requests,
                CreateConversation(r)
         PROVE  TitleInv'
    BY <2>3 DEF CreateConversation, CreatingIsAlone, NothingDangles
  <2>4. ASSUME NEW r \in Requests, NEW c \in Convs, NEW m \in Modes,
                NEW p \in Projects \cup {NoProject},
                NEW assign \in BOOLEAN, NEW t \in Titles,
                CheckUpdate(r, c, m, assign, p, t)
         PROVE  TitleInv'
    BY <2>4 DEF CheckUpdate, Load, Row
  <2>5. ASSUME NEW r \in Requests,
                UpdateConversation(r)
         PROVE  TitleInv'
    BY <2>5 DEF UpdateConversation, Written, Entitle
  <2>6. ASSUME NEW r \in Requests, NEW c \in Convs,
                LoadForDelete(r, c)
         PROVE  TitleInv'
    BY <2>6 DEF LoadForDelete, Load
  <2>7. ASSUME NEW r \in Requests,
                DeleteConversation(r)
         PROVE  TitleInv'
    BY <2>7 DEF DeleteConversation
  <2>8. ASSUME NEW r \in Requests, NEW c \in Convs, NEW docs \in SUBSET Docs,
                NEW stream \in BOOLEAN,
                LoadForTurn(r, c, docs, stream)
         PROVE  TitleInv'
    BY <2>8 DEF LoadForTurn, Load, TitleOf, Unwritten
  <2>9. ASSUME NEW r \in Requests,
                ResolveScope(r)
         PROVE  TitleInv'
    BY <2>9 DEF ResolveScope
  <2>10. ASSUME NEW r \in Requests,
                MemoryFails(r) \/ Reload(r)
         PROVE  TitleInv'
    BY <2>10 DEF MemoryFails, Reload, TitleOf, Unwritten
  <2>11. ASSUME NEW r \in Requests,
                Answer(r) \/ CheckTitle(r)
         PROVE  TitleInv'
    <3>1. CASE Answer(r)
      BY <3>1 DEF Answer
    <3>2. CASE CheckTitle(r)
      <4>1. /\ conv[r] \in Convs
            /\ conv[r] \in stored /\ turns[conv[r]] # 0 => Titled(conv[r])
        <5>1. conv[r] \in Convs /\ turns[conv[r]] \in 0 .. MaxTurns
          BY <3>2 DEF CheckTitle
        <5>2. turns[conv[r]] # 0 => turns[conv[r]] > 0
          BY <5>1, ScopeAssumption, SMT
        <5> QED
          BY <5>1, <5>2
      <4>2. /\ titling'[r] = "kept" => seen[r].title # "placeholder" \/ turns[conv[r]] # 0
            /\ UNCHANGED <<stored, title, unnamed, turns, conv, seen>>
            /\ pc[r] = "answered" /\ pc' = [pc EXCEPT ![r] = "persisting"]
            /\ \A q \in Requests \ {r} : titling'[q] = titling[q]
        BY <3>2 DEF CheckTitle
      <4>3. conv[r] \in stored /\ titling'[r] = "kept" => Titled(conv[r])
        BY <4>1, <4>2
      <4> HIDE DEF Goto, End, rows, messages, request
      <4> QED
        BY <4>2, <4>3
    <3> QED
      BY <2>11, <3>1, <3>2
  <2>12. ASSUME NEW r \in Requests,
                PersistTurn(r)
         PROVE  TitleInv'
    BY <2>12 DEF PersistTurn, CanPersist, Entitle
  <2>13. ASSUME NEW r \in Requests,
                PersistFails(r) \/ Abandon(r)
         PROVE  TitleInv'
    BY <2>13 DEF PersistFails, Abandon
  <2>14. ASSUME NEW p \in Projects,
                CreateProject(p) \/ DeleteProject(p)
         PROVE  TitleInv'
    BY <2>14 DEF CreateProject, DeleteProject
  <2>15. ASSUME NEW d \in Docs,
                ChangeDoc(d) \/ DeleteDoc(d)
         PROVE  TitleInv'
    BY <2>15 DEF ChangeDoc, DeleteDoc
  <2> HIDE DEF TypeOK, RowsTyped, RequestsTyped, rows, messages, request, Goto, End,
            TitleInv, PlaceholderIsReplaced, Titled, Asking
  <2> QED
    BY <2>1, <2>2, <2>3, <2>4, <2>5, <2>6, <2>7, <2>8, <2>9,
       <2>10, <2>11, <2>12, <2>13, <2>14, <2>15
       DEF Next, SettingsStep, TurnStep
<1> QED
  BY <1>1, <1>2, TypeCorrect, CreatingIsAloneHolds, NothingIsLeftDangling, PTL DEF Spec

(* A conversation with a turn has the placeholder title only when it was    *)
(* given it, however its first turns overlap each other and renames.        *)
THEOREM PlaceholdersAreReplaced == Spec => []PlaceholderIsReplaced
BY TitleInvHolds, PTL DEF TitleInv

(* The scope of a conversation only grows by what a Knowledge turn that is  *)
(* stored in the same commit attached.                                      *)
THEOREM ScopesGrowWithTurns == Spec => ScopeGrowsWithTurn
<1> DEFINE Grows == \A c \in Convs : \A d \in scope'[c] \ scope[c] :
                        turns'[c] = turns[c] + 1 /\ d \in attached'[c]
<1>1. TypeOK /\ FreshIsAttached /\ [Next]_vars => Grows
  <2> SUFFICES ASSUME TypeOK, FreshIsAttached, [Next]_vars PROVE Grows
    OBVIOUS
  <2> USE DEF TypeOK, RowsTyped, RequestsTyped
  <2>1. CASE Quiet
    BY <2>1 DEF Quiet, messages
  <2>2. ASSUME NEW r \in Requests,
               CreateConversation(r) \/ UpdateConversation(r) \/ DeleteConversation(r)
        PROVE  Grows
    BY <2>2 DEF CreateConversation, UpdateConversation, DeleteConversation, messages
  <2>3. ASSUME NEW r \in Requests, PersistTurn(r) PROVE Grows
    BY <2>3 DEF PersistTurn, FreshIsAttached
  <2>4. ASSUME NEW p \in Projects, CreateProject(p) \/ DeleteProject(p) PROVE Grows
    BY <2>4 DEF CreateProject, DeleteProject, messages
  <2>5. ASSUME NEW d \in Docs, ChangeDoc(d) \/ DeleteDoc(d) PROVE Grows
    BY <2>5 DEF ChangeDoc, DeleteDoc, messages
  <2> QED
    BY <2>1, <2>2, <2>3, <2>4, <2>5, DatabaseSteps DEF DatabaseStep
<1>2. TypeOK /\ FreshIsAttached /\ [Next]_vars => [Grows]_vars
  BY <1>1
<1> QED
  BY <1>2, TypeCorrect, FreshIsAttachedHolds, PTL DEF Spec, ScopeGrowsWithTurn

(* No two updates of one conversation are open together; turns, deletions   *)
(* and updates of other conversations may overlap them and each other.      *)
UpdatesAreSingle ==
    \A q, r \in Requests :
        pc[q] = "updating" /\ pc[r] = "updating" /\ conv[q] = conv[r] => q = r

(* An update writes a project of the mode it leaves, as long as the row is  *)
(* the one it loaded; only its project may have been deleted since.         *)
SettingsAgree ==
    /\ ProjectModeMatches
    /\ \A r \in Requests :
        /\ pc[r] \in {"creating", "updating"} /\ write[r].project # NoProject
           => ProjectMode[write[r].project] = write[r].mode
        /\ pc[r] = "updating" /\ conv[r] \in stored
           => /\ mode[conv[r]] = seen[r].mode
              /\ project[conv[r]] \in {seen[r].project, NoProject}

(* A project and its conversations use the same mode when the updates of a  *)
(* conversation do not overlap, whatever else does; the run                 *)
(* chat_project_mode shows that two updates that overlap break it.          *)
THEOREM SingleUpdatesKeepModes == Spec /\ []UpdatesAreSingle => []ProjectModeMatches
<1> USE ProjectsAssumption
<1> USE DEF SettingsAgree, ProjectModeMatches
<1>1. Init => SettingsAgree
  BY DEF Init
<1>2. /\ TypeOK /\ CreatingIsAlone /\ UpdatesAreSingle
      /\ SettingsAgree /\ [Next]_vars
      => SettingsAgree'
  <2> SUFFICES ASSUME TypeOK, CreatingIsAlone, UpdatesAreSingle, SettingsAgree, [Next]_vars
               PROVE  SettingsAgree'
    OBVIOUS
  <2> USE DEF TypeOK, RowsTyped, RequestsTyped, rows, messages, request, Goto, End
  <2>1. CASE UNCHANGED vars
    BY <2>1 DEF vars
  <2>2. ASSUME NEW r \in Requests, NEW c \in Convs, NEW m \in Modes,
                NEW p \in Projects \cup {NoProject},
                CheckNewConversation(r, c, m, p)
         PROVE  SettingsAgree'
    BY <2>2 DEF CheckNewConversation
  <2>3. ASSUME NEW r \in Requests,
                CreateConversation(r)
         PROVE  SettingsAgree'
    BY <2>3 DEF CreateConversation, ProjectExists, CreatingIsAlone
  <2>4. ASSUME NEW r \in Requests, NEW c \in Convs, NEW m \in Modes,
                NEW p \in Projects \cup {NoProject},
                NEW assign \in BOOLEAN, NEW t \in Titles,
                CheckUpdate(r, c, m, assign, p, t)
         PROVE  SettingsAgree'
    BY <2>4 DEF CheckUpdate, Load, Row
  <2>5. ASSUME NEW r \in Requests,
                UpdateConversation(r)
         PROVE  SettingsAgree'
    <3>1. /\ conv[r] \in Convs /\ pc[r] = "updating" /\ stored' = stored
          /\ pc' = [pc EXCEPT ![r] = "idle"] /\ write' = [write EXCEPT ![r] = Unwritten]
          /\ conv' = [conv EXCEPT ![r] = NoConv] /\ seen' = [seen EXCEPT ![r] = Unwritten]
          /\ \A c \in Convs \ {conv[r]} : mode'[c] = mode[c] /\ project'[c] = project[c]
      BY <2>5 DEF UpdateConversation
    <3>2. conv[r] \in stored /\ project'[conv[r]] # NoProject
          => ProjectMode[project'[conv[r]]] = mode'[conv[r]]
      BY <2>5, <3>1 DEF UpdateConversation, Written
    <3>3. ProjectModeMatches'
      BY <3>1, <3>2
    <3>4. \A q \in Requests \ {r} :
             /\ pc'[q] = pc[q] /\ write'[q] = write[q]
             /\ conv'[q] = conv[q] /\ seen'[q] = seen[q]
      BY <3>1
    <3>5. ASSUME NEW q \in Requests, pc'[q] = "updating"
          PROVE  q # r /\ conv[q] \in Convs \ {conv[r]}
      BY <3>1, <3>4, <3>5 DEF UpdatesAreSingle
    <3>6. ASSUME NEW q \in Requests, pc'[q] \in {"creating", "updating"} PROVE q # r
      BY <3>1, <3>6
    <3> QED
      BY <3>1, <3>3, <3>4, <3>5, <3>6
  <2>6. ASSUME NEW r \in Requests, NEW c \in Convs,
                LoadForDelete(r, c)
         PROVE  SettingsAgree'
    BY <2>6 DEF LoadForDelete, Load
  <2>7. ASSUME NEW r \in Requests,
                DeleteConversation(r)
         PROVE  SettingsAgree'
    BY <2>7 DEF DeleteConversation
  <2>8. ASSUME NEW r \in Requests, NEW c \in Convs, NEW docs \in SUBSET Docs,
                NEW stream \in BOOLEAN,
                LoadForTurn(r, c, docs, stream)
         PROVE  SettingsAgree'
    BY <2>8 DEF LoadForTurn, Load
  <2>9. ASSUME NEW r \in Requests,
                ResolveScope(r)
         PROVE  SettingsAgree'
    BY <2>9 DEF ResolveScope
  <2>10. ASSUME NEW r \in Requests,
                MemoryFails(r) \/ Reload(r)
         PROVE  SettingsAgree'
    BY <2>10 DEF MemoryFails, Reload
  <2>11. ASSUME NEW r \in Requests,
                Answer(r) \/ CheckTitle(r)
         PROVE  SettingsAgree'
    BY <2>11 DEF Answer, CheckTitle
  <2>12. ASSUME NEW r \in Requests,
                PersistTurn(r)
         PROVE  SettingsAgree'
    BY <2>12 DEF PersistTurn, CanPersist
  <2>13. ASSUME NEW r \in Requests,
                PersistFails(r) \/ Abandon(r)
         PROVE  SettingsAgree'
    BY <2>13 DEF PersistFails, Abandon
  <2>14. ASSUME NEW p \in Projects,
                CreateProject(p) \/ DeleteProject(p)
         PROVE  SettingsAgree'
    BY <2>14 DEF CreateProject, DeleteProject
  <2>15. ASSUME NEW d \in Docs,
                ChangeDoc(d) \/ DeleteDoc(d)
         PROVE  SettingsAgree'
    BY <2>15 DEF ChangeDoc, DeleteDoc
  <2> HIDE DEF TypeOK, RowsTyped, RequestsTyped, rows, messages, request, Goto, End, SettingsAgree, ProjectModeMatches
  <2> QED
    BY <2>1, <2>2, <2>3, <2>4, <2>5, <2>6, <2>7, <2>8, <2>9,
       <2>10, <2>11, <2>12, <2>13, <2>14, <2>15
       DEF Next, SettingsStep, TurnStep
<1>3. SettingsAgree => ProjectModeMatches
  OBVIOUS
<1> QED
  BY <1>1, <1>2, <1>3, TypeCorrect, CreatingIsAloneHolds, PTL DEF Spec

(* Of the turns of one conversation that are open together at most one adds *)
(* documents to its scope; those that add none, and turns of other          *)
(* conversations, may overlap it.                                           *)
AdditionsAreSingle ==
    \A q, r \in Requests :
        q # r /\ conv[q] = conv[r] => fresh[q] = {} \/ fresh[r] = {}

(* A turn that passed the check of the cap still has room for what it adds; *)
(* the turns that have not reached it, or are not Knowledge, add nothing.   *)
RoomForTurns ==
    /\ ScopeIsCapped
    /\ \A r \in Requests :
        /\ pc[r] \notin {"answering", "answered", "persisting"} => fresh[r] = {}
        /\ pc[r] \in {"answering", "answered", "persisting"}
           => Cardinality(scope[conv[r]] \cup fresh[r]) <= MaxScope

(* Sets of documents are ordered by their sizes as by inclusion.            *)
LEMMA Smaller ==
    ASSUME NEW S \in SUBSET Docs, NEW T \in SUBSET S, Cardinality(S) <= MaxScope
    PROVE  Cardinality(T) <= MaxScope
<1>1. IsFiniteSet(S) /\ Cardinality(S) \in Nat /\ Cardinality(T) \in Nat
  BY ScopeAssumption, FS_Subset, FS_CardinalityType
<1>2. Cardinality(T) <= Cardinality(S)
  BY <1>1, FS_Subset
<1> QED
  BY <1>1, <1>2, ScopeAssumption

(* A request that ends leaves the room of the others as it is in the scopes *)
(* of the next state.                                                       *)
LEMMA RoomAfterEnd ==
    ASSUME TypeOK, RoomForTurns, NEW r \in Requests, End(r), ScopeIsCapped',
           \A q \in Requests \ {r} :
               pc[q] \in {"answering", "answered", "persisting"}
               => Cardinality(scope'[conv[q]] \cup fresh[q]) <= MaxScope
    PROVE  RoomForTurns'
BY DEF RoomForTurns, End, Goto, TypeOK, RequestsTyped

(* A request that takes a step that keeps the scopes needs room only itself.*)
LEMMA RoomAfterStep ==
    ASSUME RoomForTurns, UNCHANGED scope, NEW r \in Requests,
           \A q \in Requests \ {r} :
               pc'[q] = pc[q] /\ conv'[q] = conv[q] /\ fresh'[q] = fresh[q],
           IF pc'[r] \in {"answering", "answered", "persisting"}
           THEN Cardinality(scope[conv'[r]] \cup fresh'[r]) <= MaxScope
           ELSE fresh'[r] = {}
    PROVE  RoomForTurns'
<1>1. ScopeIsCapped'
  BY DEF RoomForTurns, ScopeIsCapped
<1>2. ASSUME NEW q \in Requests, q # r
      PROVE  IF pc'[q] \in {"answering", "answered", "persisting"}
             THEN Cardinality(scope[conv'[q]] \cup fresh'[q]) <= MaxScope
             ELSE fresh'[q] = {}
  BY <1>2 DEF RoomForTurns
<1> QED
  BY <1>1, <1>2 DEF RoomForTurns

(* The scope of a conversation never exceeds the cap when the turns that    *)
(* add to it do not overlap, whatever else does; two turns at a time that   *)
(* each fit can exceed it.                                                  *)
THEOREM SingleAdditionsAreCapped == Spec /\ []AdditionsAreSingle => []ScopeIsCapped
<1>1. Init => RoomForTurns
  BY FS_EmptySet, ScopeAssumption DEF Init, RoomForTurns, ScopeIsCapped
<1>2. TypeOK /\ AdditionsAreSingle /\ RoomForTurns /\ [Next]_vars => RoomForTurns'
  <2> SUFFICES ASSUME TypeOK, AdditionsAreSingle, RoomForTurns, [Next]_vars PROVE RoomForTurns'
    OBVIOUS
  <2>1. ASSUME UNCHANGED scope PROVE ScopeIsCapped'
    BY <2>1 DEF RoomForTurns, ScopeIsCapped
  <2>2. ASSUME UNCHANGED <<scope, pc, conv, fresh>> PROVE RoomForTurns'
    BY <2>1, <2>2 DEF RoomForTurns
  <2>3. ASSUME NEW r \in Requests, End(r), UNCHANGED scope PROVE RoomForTurns'
    BY <2>1, <2>3, RoomAfterEnd DEF RoomForTurns
  <2>4. ASSUME NEW r \in Requests, NEW stage \in {"creating", "updating", "deleting", "asked"},
               pc[r] = "idle", Goto(r, stage), UNCHANGED <<scope, fresh>>,
               \A q \in Requests \ {r} : conv'[q] = conv[q]
        PROVE  RoomForTurns'
    <3>1. pc' = [pc EXCEPT ![r] = stage] /\ pc \in [Requests -> Stages] /\ fresh[r] = {}
      BY <2>4 DEF RoomForTurns, Goto, TypeOK, RequestsTyped
    <3>2. \A q \in Requests \ {r} : pc'[q] = pc[q] /\ conv'[q] = conv[q] /\ fresh'[q] = fresh[q]
      BY <2>4, <3>1
    <3> QED
      BY <2>4, <3>1, <3>2, RoomAfterStep
  <2>5. ASSUME NEW r \in Requests, NEW c \in Convs, NEW docs \in SUBSET Docs,
               NEW stream \in BOOLEAN, LoadForTurn(r, c, docs, stream)
        PROVE  RoomForTurns'
    <3>1. CASE ~stream
      BY <2>4, <2>5, <3>1 DEF LoadForTurn, Load, messages, TypeOK, RequestsTyped
    <3>2. CASE stream
      <4>1. /\ fresh'[r] = {} /\ scope' = scope /\ conv'[r] = c /\ pc'[r] = "answering"
            /\ \A q \in Requests \ {r} :
                   pc'[q] = pc[q] /\ conv'[q] = conv[q] /\ fresh'[q] = fresh[q]
        BY <2>5, <3>2 DEF LoadForTurn, Load, Goto, messages, RoomForTurns, TypeOK, RequestsTyped
      <4>2. Cardinality(scope[c] \cup {}) <= MaxScope
        <5>1. scope[c] \cup {} = scope[c]
          OBVIOUS
        <5> QED
          BY <5>1 DEF RoomForTurns, ScopeIsCapped
      <4> QED
        BY <4>1, <4>2, RoomAfterStep
    <3> QED
      BY <3>1, <3>2
  <2>6. ASSUME NEW r \in Requests, ResolveScope(r) PROVE RoomForTurns'
    <3> DEFINE existing == IF turn[r].knowledge THEN scope[conv[r]] ELSE {}
    <3>1. CASE End(r)
      BY <2>3, <2>6, <3>1 DEF ResolveScope, messages
    <3>2. CASE /\ Cardinality(existing \cup turn[r].docs) <= MaxScope
               /\ fresh' = [fresh EXCEPT ![r] =
                              IF turn[r].knowledge THEN turn[r].docs \ existing ELSE {}]
               /\ Goto(r, "answering") /\ UNCHANGED conv
      <4>1. conv[r] \in Convs /\ scope[conv[r]] \in SUBSET Docs /\ scope' = scope
        BY <2>6 DEF ResolveScope, TypeOK, RowsTyped, RequestsTyped, messages
      <4>2. fresh'[r] = IF turn[r].knowledge THEN turn[r].docs \ existing ELSE {}
        BY <3>2 DEF TypeOK, RequestsTyped
      <4>3. Cardinality(scope[conv[r]] \cup fresh'[r]) <= MaxScope
        <5>1. CASE turn[r].knowledge
          <6>1. scope[conv[r]] \cup fresh'[r] = existing \cup turn[r].docs
            BY <4>2, <5>1
          <6> QED
            BY <3>2, <6>1
        <5>2. CASE ~turn[r].knowledge
          <6>1. scope[conv[r]] \cup fresh'[r] = scope[conv[r]]
            BY <4>2, <5>2
          <6> QED
            BY <4>1, <6>1 DEF RoomForTurns, ScopeIsCapped
        <5> QED
          BY <5>1, <5>2
      <4>4. /\ pc'[r] = "answering" /\ conv'[r] = conv[r]
            /\ \A q \in Requests \ {r} :
                   pc'[q] = pc[q] /\ conv'[q] = conv[q] /\ fresh'[q] = fresh[q]
        BY <3>2 DEF Goto, TypeOK, RequestsTyped
      <4> QED
        BY <4>1, <4>3, <4>4, RoomAfterStep
    <3> QED
      BY <2>6, <3>1, <3>2 DEF ResolveScope
  <2>7. ASSUME NEW r \in Requests, Answer(r) \/ CheckTitle(r) PROVE RoomForTurns'
    <3>1. /\ pc[r] \in {"answering", "answered"} /\ UNCHANGED <<scope, conv, fresh>>
          /\ pc'[r] \in {"answered", "persisting"}
          /\ \A q \in Requests \ {r} : pc'[q] = pc[q]
      BY <2>7 DEF Answer, CheckTitle, Goto, TypeOK, RequestsTyped, messages
    <3>2. Cardinality(scope[conv'[r]] \cup fresh'[r]) <= MaxScope
      BY <3>1 DEF RoomForTurns
    <3> QED
      BY <3>1, <3>2, RoomAfterStep
  <2>8. ASSUME NEW r \in Requests, PersistTurn(r) PROVE RoomForTurns'
    <3>1. conv[r] \in Convs /\ Cardinality(scope[conv[r]] \cup fresh[r]) <= MaxScope
      BY <2>8 DEF PersistTurn, RoomForTurns, TypeOK, RequestsTyped
    <3>2. scope' = [scope EXCEPT ![conv[r]] = @ \cup fresh[r]] /\ End(r)
      BY <2>8 DEF PersistTurn
    <3>3. ScopeIsCapped'
      BY <3>1, <3>2 DEF RoomForTurns, ScopeIsCapped, TypeOK, RowsTyped
    <3>4. ASSUME NEW q \in Requests \ {r}, pc[q] \in {"answering", "answered", "persisting"}
          PROVE  Cardinality(scope'[conv[q]] \cup fresh[q]) <= MaxScope
      <4>1. conv[q] \in Convs /\ scope \in [Convs -> SUBSET Docs]
        BY <3>4 DEF TypeOK, RowsTyped, RequestsTyped
      <4>2. CASE conv[q] # conv[r] \/ fresh[r] = {}
        <5>1. scope'[conv[q]] = scope[conv[q]]
          BY <3>2, <4>1, <4>2
        <5> QED
          BY <3>4, <5>1 DEF RoomForTurns
      <4>3. CASE conv[q] = conv[r] /\ fresh[q] = {}
        <5>1. scope'[conv[q]] \cup fresh[q] = scope'[conv[q]]
          BY <4>3
        <5> QED
          BY <3>3, <4>1, <5>1 DEF ScopeIsCapped
      <4> QED
        BY <4>2, <4>3 DEF AdditionsAreSingle
    <3> QED
      BY <3>2, <3>3, <3>4, RoomAfterEnd
  <2>9. ASSUME NEW r \in Requests, DeleteConversation(r) PROVE RoomForTurns'
    <3>1. ScopeIsCapped'
      BY <2>9, FS_EmptySet, ScopeAssumption
         DEF DeleteConversation, RoomForTurns, ScopeIsCapped, TypeOK, RowsTyped
    <3>2. ASSUME NEW q \in Requests \ {r}, pc[q] \in {"answering", "answered", "persisting"}
          PROVE  Cardinality(scope'[conv[q]] \cup fresh[q]) <= MaxScope
      <4>1. /\ conv[q] \in Convs /\ fresh[q] \in SUBSET Docs
            /\ scope \in [Convs -> SUBSET Docs] /\ scope' = [scope EXCEPT ![conv[r]] = {}]
        BY <2>9, <3>2 DEF DeleteConversation, TypeOK, RowsTyped, RequestsTyped
      <4>2. /\ scope[conv[q]] \cup fresh[q] \in SUBSET Docs
            /\ scope'[conv[q]] \cup fresh[q] \in SUBSET (scope[conv[q]] \cup fresh[q])
        BY <4>1
      <4> QED
        BY <3>2, <4>2, Smaller DEF RoomForTurns
    <3> QED
      BY <2>9, <3>1, <3>2, RoomAfterEnd DEF DeleteConversation
  <2>10. ASSUME NEW d \in Docs, DeleteDoc(d) PROVE RoomForTurns'
    <3>1. /\ scope' = [c \in Convs |-> scope[c] \ {d}]
          /\ UNCHANGED <<pc, conv, fresh>>
          /\ \A c \in Convs : scope[c] \in SUBSET Docs
          /\ \A r \in Requests : fresh[r] \in SUBSET Docs
      BY <2>10 DEF DeleteDoc, request, TypeOK, RowsTyped, RequestsTyped
    <3>2. ScopeIsCapped'
      <4> SUFFICES ASSUME NEW c \in Convs PROVE Cardinality(scope'[c]) <= MaxScope
        BY DEF ScopeIsCapped
      <4>1. scope'[c] \in SUBSET scope[c] /\ Cardinality(scope[c]) <= MaxScope
        BY <3>1 DEF RoomForTurns, ScopeIsCapped
      <4> QED
        BY <3>1, <4>1, Smaller
    <3>3. ASSUME NEW r \in Requests, pc[r] \in {"answering", "answered", "persisting"}
          PROVE  Cardinality(scope'[conv[r]] \cup fresh[r]) <= MaxScope
      <4>1. conv[r] \in Convs
        BY <3>3 DEF TypeOK, RequestsTyped
      <4>2. /\ scope'[conv[r]] \cup fresh[r] \in SUBSET (scope[conv[r]] \cup fresh[r])
            /\ scope[conv[r]] \cup fresh[r] \in SUBSET Docs
            /\ Cardinality(scope[conv[r]] \cup fresh[r]) <= MaxScope
        BY <3>1, <3>3, <4>1 DEF RoomForTurns
      <4> QED
        BY <4>2, Smaller
    <3> QED
      BY <3>1, <3>2, <3>3 DEF RoomForTurns
  <2>11. CASE UNCHANGED vars
    BY <2>2, <2>11 DEF vars
  <2>12. ASSUME NEW r \in Requests, NEW c \in Convs, NEW m \in Modes,
                NEW p \in Projects \cup {NoProject}, CheckNewConversation(r, c, m, p)
         PROVE  RoomForTurns'
    BY <2>4, <2>12 DEF CheckNewConversation, messages, TypeOK, RequestsTyped
  <2>17. ASSUME NEW r \in Requests, NEW c \in Convs, NEW m \in Modes,
                NEW p \in Projects \cup {NoProject},
                NEW assign \in BOOLEAN, NEW t \in Titles,
                CheckUpdate(r, c, m, assign, p, t)
         PROVE  RoomForTurns'
    BY <2>4, <2>17 DEF CheckUpdate, Load, messages, TypeOK, RequestsTyped
  <2>18. ASSUME NEW r \in Requests, NEW c \in Convs, LoadForDelete(r, c)
         PROVE  RoomForTurns'
    BY <2>4, <2>18 DEF LoadForDelete, Load, messages, TypeOK, RequestsTyped
  <2>13. ASSUME NEW r \in Requests,
                \/ CreateConversation(r) \/ UpdateConversation(r)
                \/ PersistFails(r) \/ Abandon(r)
         PROVE  RoomForTurns'
    BY <2>3, <2>13 DEF CreateConversation, UpdateConversation, PersistFails, Abandon, messages
  <2>14. ASSUME NEW r \in Requests, MemoryFails(r) \/ Reload(r) PROVE RoomForTurns'
    BY <2>2, <2>3, <2>14 DEF MemoryFails, Reload, messages
  <2>15. ASSUME NEW p \in Projects, CreateProject(p) \/ DeleteProject(p) PROVE RoomForTurns'
    BY <2>2, <2>15 DEF CreateProject, DeleteProject, messages, request
  <2>16. ASSUME NEW d \in Docs, ChangeDoc(d) PROVE RoomForTurns'
    BY <2>2, <2>16 DEF ChangeDoc, messages, request
  <2> HIDE DEF RoomForTurns
  <2> QED
    BY <2>5, <2>6, <2>7, <2>8, <2>9, <2>10, <2>11, <2>12, <2>13, <2>14, <2>15, <2>16, <2>17, <2>18
       DEF Next, SettingsStep, TurnStep
<1>3. RoomForTurns => ScopeIsCapped
  BY DEF RoomForTurns
<1> QED
  BY <1>1, <1>2, <1>3, TypeCorrect, PTL DEF Spec
=============================================================================

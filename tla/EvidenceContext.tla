-------------------------- MODULE EvidenceContext --------------------------
(***************************************************************************)
(* build_evidence_context: the numbered sources a model is shown, made     *)
(* from the hits of a search.  Texts are atoms with a size in tokens; two  *)
(* runs of a document give chunks with the same texts.                     *)
(***************************************************************************)
EXTENDS HybridRetrieval, Functions

CONSTANTS
    Texts, TextOf, \* the normalized text at each position of each document
    Tokens,        \* estimated tokens of each text
    Header,        \* estimated tokens of a source header
    MaxSources, MaxContext, MaxSource \* the budgets of the request

ASSUME TextAssumption ==
    /\ TextOf \in [Docs -> [Positions -> Texts]]
    /\ Tokens \in [Texts -> Nat \ {0}] /\ Header \in Nat \ {0}
ASSUME BudgetAssumption ==
    /\ MaxSources \in Nat \ {0} /\ MaxSource \in Nat \ {0}
    /\ MaxContext \in Nat /\ MaxSource <= MaxContext

(* chunks are counted from 1, and summaries are parents, never children *)
ASSUME SummaryAssumption ==
    /\ 0 \notin Positions
    /\ \A p \in Positions : RoleOf[p] = "summary" => ParentOf[p] = 0

Text(c) == TextOf[c.doc][c.pos]
Parent(c) == [c EXCEPT !.pos = ParentOf[c.pos]]

Filtered ==
    {c \in DOMAIN hits : RoleOf[c.pos] \in ask.roles /\ Sim(c) >= ask.floor}

(* _sort_key: by score, then document, position and chunk *)
EvidenceBefore(c, d) ==
    \/ Higher(hits[c], hits[d])
    \/ /\ ~Higher(hits[d], hits[c])
       /\ Precedes(<<c.doc, c.pos, c.run>>, <<d.doc, d.pos, d.run>>)

(* the first chunk of each text *)
Unique == {c \in Filtered : ~\E d \in Filtered :
                                Text(d) = Text(c) /\ EvidenceBefore(d, c)}

(* fault: parents are dropped for children that were duplicates themselves *)
CandidatesOfFiltered ==
    {c \in Unique : ~(RoleOf[c.pos] = "summary" /\ \E d \in Filtered : Parent(d) = c)}

(* a summary is redundant beside a child of its own *)
Candidates ==
    {c \in Unique : ~(RoleOf[c.pos] = "summary" /\ \E d \in Unique : Parent(d) = c)}

Earlier(c) == {d \in Candidates : EvidenceBefore(d, c)}

Capped(n, limit) == IF n < limit THEN n ELSE limit

(* tokens of the source made from each chunk: its text is cut to the       *)
(* budget of a source                                                      *)
Size == [c \in Chunks |-> Header + Capped(Tokens[Text(c)], MaxSource)]

(* tokens taken by the sources made from S, the last of which is cut to    *)
(* what is left of the context                                             *)
Used(S) == Capped(SumFunctionOnSet(Size, S), MaxContext)

(* fault: one source more than asked for *)
HasAnyRoom(c) ==
    /\ Cardinality(Earlier(c)) <= MaxSources
    /\ Used(Earlier(c)) + Header + 1 <= MaxContext

(* the loop breaks at the first candidate without room for a single token *)
HasRoom(c) ==
    /\ Cardinality(Earlier(c)) < MaxSources
    /\ Used(Earlier(c)) + Header + 1 <= MaxContext

(* source S1, S2, ... of each chunk that fits *)
Sources ==
    [c \in {c \in Candidates : HasRoom(c)} |-> Cardinality(Earlier(c)) + 1]
=============================================================================

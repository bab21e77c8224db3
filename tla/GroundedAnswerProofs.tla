------------------------ MODULE GroundedAnswerProofs ------------------------
(***************************************************************************)
(* Theorems about GroundedAnswer for every index, ranking and budget, any  *)
(* number of commits between the statements of a search, and any drafts    *)
(* and verdicts.                                                           *)
(***************************************************************************)
EXTENDS GroundedAnswer, FiniteSetTheorems, WellFoundedInduction, TLAPS

(* The chunks read are among those served since the request began, and the *)
(* statements to come can only read such ones.                             *)
Readiness ==
    /\ \A c \in DOMAIN vec \cup scored \cup DOMAIN hits \cup DOMAIN sources :
            c \in served /\ InScope(c)
    /\ phase = "idle" => /\ DOMAIN vec = {} /\ scored = {}
                         /\ DOMAIN hits = {} /\ DOMAIN sources = {}
    /\ phase \in SearchPhases => Usable \subseteq served

Before == SearchPhases \cup {"idle", "fuse", "rerank", "evidence"}

(* Drafts, repairs and verdicts are counted together, and a draft that     *)
(* waits for its verdict has passed the validation of citations.           *)
Counting ==
    /\ phase \in Before \cup {"draft"} =>
            calls = 0 /\ attempt = 0 /\ verdicts = 0 /\ result = NoResult
    /\ phase \in {"draft", "validate", "verify", "repair"} => DOMAIN sources # {}
    /\ phase \in {"validate", "verify", "repair"} =>
            /\ calls = attempt + 1 /\ draft.response = calls
            /\ result = NoResult
    /\ phase \in {"validate", "verify"} => verdicts <= attempt
    /\ phase = "repair" => attempt < 2 /\ verdicts <= calls
    /\ phase = "verify" => verifier /\ IsCited

Outcome == AnswerIsGrounded /\ RefusalIsEarned /\ EffortIsBounded

Inv == TypeOK /\ Readiness /\ Counting /\ Outcome

----------------------------------------------------------------------------
(* Chunks and ranks *)

(* There are finitely many chunks. *)
LEMMA ChunksFinite == IsFiniteSet(Chunks)
<1> DEFINE Triples == Docs \X ((1..MaxRuns) \X Positions)
           f == [t \in Triples |-> [doc |-> t[1], run |-> t[2][1], pos |-> t[2][2]]]
<1>1. IsFiniteSet(1..MaxRuns)
  BY FS_Interval, IndexAssumption
<1>2. IsFiniteSet(Triples)
  BY <1>1, FS_Product, IndexAssumption
<1>3. f \in Surjection(Triples, Chunks)
  <2>1. f \in [Triples -> Chunks]
    BY DEF Chunks
  <2>2. ASSUME NEW c \in Chunks PROVE \E t \in Triples : f[t] = c
    <3>1. <<c.doc, <<c.run, c.pos>>>> \in Triples
      BY DEF Chunks
    <3>2. f[<<c.doc, <<c.run, c.pos>>>>] = c
      BY <3>1 DEF Chunks
    <3> QED BY <3>1, <3>2
  <2> QED BY <2>1, <2>2 DEF Surjection
<1> HIDE DEF Triples, f
<1> QED BY <1>2, <1>3, FS_Surjection

(* A set of chunks has a size. *)
LEMMA SizesAreNaturals ==
    ASSUME NEW S \in SUBSET Chunks PROVE Cardinality(S) \in Nat
BY ChunksFinite, FS_Subset, FS_CardinalityType

(* The score of fused ranks is a fraction. *)
LEMMA RrfIsFraction ==
    ASSUME NEW v \in Nat, NEW l \in Nat PROVE Rrf(v, l) \in Fractions
<1>1. RrfK \in Nat /\ RrfK > 0
  BY AskAssumption
<1>2. ASSUME NEW a \in Nat, NEW b \in Nat, a > 0, b > 0
      PROVE a * b \in Nat /\ a * b > 0
  BY <1>2
<1>3. (RrfK + v) * (RrfK + l) \in Nat /\ (RrfK + v) * (RrfK + l) > 0
  BY <1>1, <1>2
<1> DEFINE p == (RrfK + v) * (RrfK + l)
<1> HIDE DEF p
<1>4. p \in Nat /\ p > 0
  BY <1>3 DEF p
<1>5. Rrf(v, l) \in {<<1, RrfK + l>>, <<1, RrfK + v>>, <<2 * RrfK + v + l, p>>}
  BY DEF Rrf, p
<1> QED BY <1>1, <1>4, <1>5 DEF Fractions

(* A ranking that TypeOK describes gives every chunk a rank or none. *)
LEMMA FusedScoreIsFraction ==
    ASSUME TypeOK, NEW c PROVE FusedScore(c) \in Fractions
<1>1. RankIn(vec, c, 0) \in Nat
  BY DEF TypeOK, RankIn
<1>2. RankIn(lex, c, 0) \in Nat
  BY DEF TypeOK, RankIn
<1> QED BY <1>1, <1>2, RrfIsFraction DEF FusedScore

(* A ranking made by Top is one TypeOK describes. *)
LEMMA RanksArePositive ==
    ASSUME NEW S \in SUBSET Chunks, NEW T \in SUBSET S
    PROVE  1 + Cardinality(T) \in Nat \ {0}
<1>1. Cardinality(T) \in Nat
  BY SizesAreNaturals
<1> QED BY <1>1

----------------------------------------------------------------------------
(* Sums over finite sets *)

Some(s) == CHOOSE x \in s : TRUE

(* f adds up w over every subset of S *)
AddsUp(w, S, f) ==
    f = [s \in SUBSET S |-> IF s = {} THEN 0 ELSE w[Some(s)] + f[s \ {Some(s)}]]

LEMMA SumIsChosen ==
    ASSUME NEW w, NEW S
    PROVE  SumFunctionOnSet(w, S) = (CHOOSE f : AddsUp(w, S, f))[S]
BY DEF SumFunctionOnSet, FoldFunctionOnSet, MapThenFoldSet, AddsUp, Some

LEMMA SomeIsMember == ASSUME NEW s, s # {} PROVE Some(s) \in s
BY DEF Some

(* a set of sets of S has a least one *)
LEMMA SomeSetIsLeast ==
    ASSUME NEW S, IsFiniteSet(S), NEW B \in SUBSET (SUBSET S), B # {}
    PROVE  \E T \in B : \A U \in B : ~(U \subseteq T /\ U # T)
<1>1. IsWellFoundedOn(StrictSubsetOrdering(S), SUBSET S)
  BY FS_StrictSubsetOrderingWellFounded, FS_FiniteSubsetsOfFinite
<1>2. PICK T \in B : \A U \in B : ~(<<U, T>> \in StrictSubsetOrdering(S))
  BY <1>1, WFMin
<1>3. ASSUME NEW U \in B, U \subseteq T, U # T PROVE FALSE
  <2>1. <<U, T>> \in (SUBSET S) \X (SUBSET S)
    OBVIOUS
  <2>2. <<U, T>> \in StrictSubsetOrdering(S)
    BY <1>3, <2>1 DEF StrictSubsetOrdering
  <2> QED BY <1>2, <2>2
<1> QED BY <1>3

LEMMA AddsUpEverywhere ==
    ASSUME NEW w, NEW S, NEW f, AddsUp(w, S, f), NEW s \in SUBSET S
    PROVE  f[s] = IF s = {} THEN 0 ELSE w[Some(s)] + f[s \ {Some(s)}]
<1> DEFINE h == [t \in SUBSET S |-> IF t = {} THEN 0 ELSE w[Some(t)] + f[t \ {Some(t)}]]
<1>1. f = h
  BY DEF AddsUp
<1>2. h[s] = IF s = {} THEN 0 ELSE w[Some(s)] + f[s \ {Some(s)}]
  OBVIOUS
<1> HIDE DEF h
<1> QED BY <1>1, <1>2

LEMMA OneAddsUp ==
    ASSUME NEW w, NEW S, IsFiniteSet(S), NEW f, NEW g, AddsUp(w, S, f), AddsUp(w, S, g)
    PROVE  f = g
<1> DEFINE B == {s \in SUBSET S : f[s] # g[s]}
<1>1. SUFFICES ASSUME B # {} PROVE FALSE
  <2>1. f = [s \in SUBSET S |-> f[s]] /\ g = [s \in SUBSET S |-> g[s]]
    BY DEF AddsUp
  <2> QED BY <2>1
<1>0. B \in SUBSET (SUBSET S)
  OBVIOUS
<1>2. PICK T \in B : \A U \in B : ~(U \subseteq T /\ U # T)
  <2> HIDE DEF B
  <2> QED BY <1>0, <1>1, SomeSetIsLeast
<1>3. /\ f[T] = IF T = {} THEN 0 ELSE w[Some(T)] + f[T \ {Some(T)}]
      /\ g[T] = IF T = {} THEN 0 ELSE w[Some(T)] + g[T \ {Some(T)}]
  <2>1. T \in SUBSET S
    BY <1>0
  <2> HIDE DEF B
  <2> QED BY <2>1, AddsUpEverywhere
<1>4. T # {}
  BY <1>3
<1>5. T \ {Some(T)} \subseteq T /\ T \ {Some(T)} # T
  BY <1>4, SomeIsMember
<1>6. T \ {Some(T)} \notin B
  BY <1>2, <1>5
<1>7. f[T \ {Some(T)}] = g[T \ {Some(T)}]
  BY <1>5, <1>6
<1> QED BY <1>3, <1>7

LEMMA SumUnfolds ==
    ASSUME NEW w, NEW S, IsFiniteSet(S)
    PROVE  SumFunctionOnSet(w, S) =
             IF S = {} THEN 0
             ELSE w[Some(S)] + SumFunctionOnSet(w, S \ {Some(S)})
<1> DEFINE Unfolded(T) == IF T = {} THEN 0
                           ELSE w[Some(T)] + SumFunctionOnSet(w, T \ {Some(T)})
           B == {T \in SUBSET S : SumFunctionOnSet(w, T) # Unfolded(T)}
<1>1. SUFFICES ASSUME B # {} PROVE FALSE
  OBVIOUS
<1>0. B \in SUBSET (SUBSET S)
  OBVIOUS
<1>2. PICK T \in B : \A U \in B : ~(U \subseteq T /\ U # T)
  <2> HIDE DEF B
  <2> QED BY <1>0, <1>1, SomeSetIsLeast
<1>3. IsFiniteSet(T)
  BY FS_Subset
<1>4. \A U \in SUBSET T : U # T => SumFunctionOnSet(w, U) = Unfolded(U)
  BY <1>2
<1> DEFINE G == [U \in SUBSET T |-> IF U = T THEN Unfolded(T) ELSE SumFunctionOnSet(w, U)]
<1>5. AddsUp(w, T, G)
  <2>1. ASSUME NEW U \in SUBSET T
        PROVE  G[U] = IF U = {} THEN 0 ELSE w[Some(U)] + G[U \ {Some(U)}]
    <3>1. G[U] = Unfolded(U)
      <4>1. CASE U = T
        BY <4>1
      <4>2. CASE U # T
        <5>1. G[U] = SumFunctionOnSet(w, U)
          BY <4>2
        <5> HIDE DEF Unfolded, G
        <5> QED BY <1>4, <4>2, <5>1
      <4> QED BY <4>1, <4>2
    <3>2. U # {} => G[U \ {Some(U)}] = SumFunctionOnSet(w, U \ {Some(U)})
      <4>1. U # {} => U \ {Some(U)} # T /\ U \ {Some(U)} \in SUBSET T
        BY SomeIsMember
      <4> QED BY <4>1
    <3> QED BY <3>1, <3>2
  <2> HIDE DEF Unfolded
  <2>2. G = [U \in SUBSET T |-> IF U = {} THEN 0 ELSE w[Some(U)] + G[U \ {Some(U)}]]
    <3>1. G = [U \in SUBSET T |-> G[U]]
      OBVIOUS
    <3> HIDE DEF G
    <3> QED BY <2>1, <3>1
  <2> QED BY <2>2 DEF AddsUp
<1> HIDE DEF G
<1>6. AddsUp(w, T, CHOOSE f : AddsUp(w, T, f))
  BY <1>5
<1>7. (CHOOSE f : AddsUp(w, T, f)) = G
  BY <1>3, <1>5, <1>6, OneAddsUp
<1>8. SumFunctionOnSet(w, T) = G[T]
  BY <1>7, SumIsChosen
<1>9. G[T] = Unfolded(T)
  BY DEF G
<1> QED BY <1>8, <1>9

LEMMA SumOfNothing == ASSUME NEW w PROVE SumFunctionOnSet(w, {}) = 0
BY SumUnfolds, FS_EmptySet

LEMMA SumIsNatural ==
    ASSUME NEW w, NEW S, IsFiniteSet(S), \A x \in S : w[x] \in Nat
    PROVE  SumFunctionOnSet(w, S) \in Nat
<1> DEFINE B == {T \in SUBSET S : SumFunctionOnSet(w, T) \notin Nat}
<1>0. B \in SUBSET (SUBSET S)
  OBVIOUS
<1>1. SUFFICES ASSUME B # {} PROVE FALSE
  OBVIOUS
<1>2. PICK T \in B : \A U \in B : ~(U \subseteq T /\ U # T)
  <2> HIDE DEF B
  <2> QED BY <1>0, <1>1, SomeSetIsLeast
<1>3. IsFiniteSet(T)
  BY FS_Subset
<1>4. T # {}
  BY SumOfNothing
<1> DEFINE U == T \ {Some(T)}
<1>5. Some(T) \in T /\ U \subseteq T /\ U # T
  BY <1>4, SomeIsMember
<1>6. SumFunctionOnSet(w, U) \in Nat
  BY <1>2, <1>5
<1>7. SumFunctionOnSet(w, T) = w[Some(T)] + SumFunctionOnSet(w, U)
  BY <1>3, <1>4, SumUnfolds
<1>8. w[Some(T)] \in Nat
  BY <1>5
<1> QED BY <1>6, <1>7, <1>8

(* Any summand may be taken first. *)
LEMMA SumSplits ==
    ASSUME NEW w, NEW S, IsFiniteSet(S), \A x \in S : w[x] \in Nat, NEW y \in S
    PROVE  SumFunctionOnSet(w, S) = w[y] + SumFunctionOnSet(w, S \ {y})
<1> DEFINE Splits(T) == \A z \in T : SumFunctionOnSet(w, T) = w[z] + SumFunctionOnSet(w, T \ {z})
           B == {T \in SUBSET S : ~Splits(T)}
<1>0. B \in SUBSET (SUBSET S)
  OBVIOUS
<1>1. SUFFICES ASSUME B # {} PROVE FALSE
  OBVIOUS
<1>2. PICK T \in B : \A U \in B : ~(U \subseteq T /\ U # T)
  <2> HIDE DEF B
  <2> QED BY <1>0, <1>1, SomeSetIsLeast
<1>3. IsFiniteSet(T) /\ \A U \in SUBSET T : IsFiniteSet(U) /\ SumFunctionOnSet(w, U) \in Nat
  BY FS_Subset, SumIsNatural
<1>4. PICK z \in T : SumFunctionOnSet(w, T) # w[z] + SumFunctionOnSet(w, T \ {z})
  OBVIOUS
<1> DEFINE x == Some(T)
<1>5. x \in T /\ SumFunctionOnSet(w, T) = w[x] + SumFunctionOnSet(w, T \ {x})
  BY <1>3, <1>4, SumUnfolds, SomeIsMember
<1>6. x # z
  BY <1>4, <1>5
<1> DEFINE rest == (T \ {x}) \ {z}
<1>7. SumFunctionOnSet(w, T \ {x}) = w[z] + SumFunctionOnSet(w, rest)
  <2>1. T \ {x} \subseteq T /\ T \ {x} # T /\ z \in T \ {x}
    BY <1>5, <1>6
  <2>2. Splits(T \ {x})
    BY <1>2, <2>1
  <2> QED BY <2>1, <2>2
<1>8. SumFunctionOnSet(w, T \ {z}) = w[x] + SumFunctionOnSet(w, rest)
  <2>1. T \ {z} \subseteq T /\ T \ {z} # T /\ x \in T \ {z}
    BY <1>5, <1>6
  <2>2. Splits(T \ {z})
    BY <1>2, <2>1
  <2>3. (T \ {z}) \ {x} = rest
    OBVIOUS
  <2> QED BY <2>1, <2>2, <2>3
<1>9. w[x] \in Nat /\ w[z] \in Nat /\ SumFunctionOnSet(w, rest) \in Nat
  BY <1>3, <1>5
<1> HIDE DEF x, rest
<1> QED BY <1>4, <1>5, <1>7, <1>8, <1>9

(* A sum of smaller summands, or of fewer, is smaller. *)
LEMMA SumGrowsWithSummands ==
    ASSUME NEW v, NEW w, NEW S, IsFiniteSet(S),
           \A x \in S : v[x] \in Nat /\ w[x] \in Nat /\ v[x] <= w[x]
    PROVE  SumFunctionOnSet(v, S) <= SumFunctionOnSet(w, S)
<1> DEFINE B == {T \in SUBSET S : ~(SumFunctionOnSet(v, T) <= SumFunctionOnSet(w, T))}
<1>0. B \in SUBSET (SUBSET S)
  OBVIOUS
<1>1. SUFFICES ASSUME B # {} PROVE FALSE
  OBVIOUS
<1>2. PICK T \in B : \A U \in B : ~(U \subseteq T /\ U # T)
  <2> HIDE DEF B
  <2> QED BY <1>0, <1>1, SomeSetIsLeast
<1>3. IsFiniteSet(T)
  BY FS_Subset
<1>4. T # {}
  BY SumOfNothing
<1> DEFINE x == Some(T)  U == T \ {x}
<1>5. x \in T /\ U \subseteq T /\ U # T /\ IsFiniteSet(U)
  BY <1>3, <1>4, SomeIsMember, FS_Subset
<1>6. SumFunctionOnSet(v, U) <= SumFunctionOnSet(w, U)
  BY <1>2, <1>5
<1>7. /\ SumFunctionOnSet(v, T) = v[x] + SumFunctionOnSet(v, U)
      /\ SumFunctionOnSet(w, T) = w[x] + SumFunctionOnSet(w, U)
  BY <1>3, <1>4, SumUnfolds
<1>8. SumFunctionOnSet(v, U) \in Nat /\ SumFunctionOnSet(w, U) \in Nat
  BY <1>5, SumIsNatural
<1>9. v[x] \in Nat /\ w[x] \in Nat /\ v[x] <= w[x]
  BY <1>5
<1>10. ~(SumFunctionOnSet(v, T) <= SumFunctionOnSet(w, T))
  OBVIOUS
<1> HIDE DEF x, U, B
<1> QED BY <1>6, <1>7, <1>8, <1>9, <1>10

LEMMA SumGrowsWithSet ==
    ASSUME NEW w, NEW S, IsFiniteSet(S), \A x \in S : w[x] \in Nat, NEW R \in SUBSET S
    PROVE  SumFunctionOnSet(w, R) <= SumFunctionOnSet(w, S)
<1> DEFINE B == {T \in SUBSET S : R \subseteq T /\ ~(SumFunctionOnSet(w, R) <= SumFunctionOnSet(w, T))}
<1>0. B \in SUBSET (SUBSET S)
  OBVIOUS
<1>1. SUFFICES ASSUME B # {} PROVE FALSE
  OBVIOUS
<1>2. PICK T \in B : \A U \in B : ~(U \subseteq T /\ U # T)
  <2> HIDE DEF B
  <2> QED BY <1>0, <1>1, SomeSetIsLeast
<1>3. IsFiniteSet(T) /\ \A U \in SUBSET T : IsFiniteSet(U) /\ SumFunctionOnSet(w, U) \in Nat
  BY FS_Subset, SumIsNatural
<1>4. R \subseteq T /\ ~(SumFunctionOnSet(w, R) <= SumFunctionOnSet(w, T))
  OBVIOUS
<1>5. R # T
  BY <1>3, <1>4
<1>6. PICK x \in T : x \notin R
  BY <1>4, <1>5
<1> DEFINE U == T \ {x}
<1>7. U \subseteq T /\ U # T /\ R \subseteq U
  BY <1>4, <1>6
<1>8. SumFunctionOnSet(w, R) <= SumFunctionOnSet(w, U)
  BY <1>2, <1>7
<1>9. SumFunctionOnSet(w, T) = w[x] + SumFunctionOnSet(w, U)
  BY <1>3, SumSplits
<1>10. w[x] \in Nat /\ SumFunctionOnSet(w, U) \in Nat /\ SumFunctionOnSet(w, R) \in Nat
  BY <1>3, <1>4
<1> HIDE DEF U, B
<1> QED BY <1>4, <1>8, <1>9, <1>10

----------------------------------------------------------------------------
(* Strict total orders of finite sets *)

(* R is a strict total order of S. *)
Orders(R, S) ==
    /\ \A c \in S : <<c, c>> \notin R
    /\ \A c, d, e \in S : <<c, d>> \in R /\ <<d, e>> \in R => <<c, e>> \in R
    /\ \A c, d \in S : c # d => <<c, d>> \in R \/ <<d, c>> \in R

Under(R, S, c) == {d \in S : <<d, c>> \in R}
Place(R, S, c) == 1 + Cardinality(Under(R, S, c))

LEMMA OrderOfPart ==
    ASSUME NEW R, NEW S, Orders(R, S), NEW T \in SUBSET S
    PROVE  Orders(R, T)
BY DEF Orders

LEMMA PlacesRise ==
    ASSUME NEW R, NEW S, IsFiniteSet(S), Orders(R, S)
    PROVE  /\ \A c \in S : Place(R, S, c) \in 1..Cardinality(S)
           /\ \A c, d \in S : <<c, d>> \in R <=> Place(R, S, c) < Place(R, S, d)
<1>1. \A c \in S : IsFiniteSet(Under(R, S, c)) /\ Cardinality(Under(R, S, c)) \in Nat
  BY FS_Subset, FS_CardinalityType DEF Under
<1>2. ASSUME NEW c \in S PROVE Place(R, S, c) \in 1..Cardinality(S)
  <2>1. Under(R, S, c) \subseteq S \ {c}
    BY DEF Under, Orders
  <2>2. IsFiniteSet(S \ {c}) /\ Cardinality(S \ {c}) = Cardinality(S) - 1
    BY FS_RemoveElement
  <2>3. Cardinality(Under(R, S, c)) <= Cardinality(S) - 1
    BY <2>1, <2>2, FS_Subset
  <2>4. Cardinality(S) \in Nat
    BY FS_CardinalityType
  <2> QED BY <1>1, <2>3, <2>4 DEF Place
<1>3. ASSUME NEW c \in S, NEW d \in S, <<c, d>> \in R
      PROVE  Place(R, S, c) < Place(R, S, d)
  <2>1. Under(R, S, c) \subseteq Under(R, S, d) /\ c \in Under(R, S, d) /\ c \notin Under(R, S, c)
    BY <1>3 DEF Under, Orders
  <2>2. /\ Cardinality(Under(R, S, c)) <= Cardinality(Under(R, S, d))
        /\ Cardinality(Under(R, S, c)) # Cardinality(Under(R, S, d))
    BY <1>1, <2>1, FS_Subset
  <2> QED BY <1>1, <2>2 DEF Place
<1>4. ASSUME NEW c \in S, NEW d \in S, Place(R, S, c) < Place(R, S, d), <<c, d>> \notin R
      PROVE  FALSE
  <2>1. Place(R, S, c) \in Int /\ Place(R, S, d) \in Int
    BY <1>1 DEF Place
  <2>2. c # d
    BY <1>4, <2>1
  <2>3. <<d, c>> \in R
    BY <1>4, <2>2 DEF Orders
  <2>4. Place(R, S, d) < Place(R, S, c)
    BY <1>3, <2>3
  <2> QED BY <1>4, <2>1, <2>4
<1> QED BY <1>2, <1>3, <1>4

(* Places are given without a gap. *)
LEMMA PlacesAreFilled ==
    ASSUME NEW R, NEW S, IsFiniteSet(S), Orders(R, S)
    PROVE  [c \in S |-> Place(R, S, c)] \in Bijection(S, 1..Cardinality(S))
<1> DEFINE n == Cardinality(S)  f == [c \in S |-> Place(R, S, c)]
<1>1. n \in Nat
  BY FS_CardinalityType
<1>2. f \in [S -> 1..n]
  BY PlacesRise
<1>3. \A c, d \in S : f[c] = f[d] => c = d
  <2> TAKE c, d \in S
  <2>1. f[c] \in Int /\ f[d] \in Int
    BY <1>1, <1>2
  <2>2. c # d => f[c] < f[d] \/ f[d] < f[c]
    BY PlacesRise DEF Orders
  <2> QED BY <2>1, <2>2
<1>4. f \in Injection(S, 1..n)
  BY <1>2, <1>3 DEF Injection, IsInjective
<1>5. IsFiniteSet(1..n) /\ Cardinality(1..n) = n
  BY <1>1, FS_Interval
<1>6. f \in Surjection(S, 1..n)
  <2> HIDE DEF f
  <2> QED BY <1>4, <1>5, FS_Injection
<1> QED BY <1>4, <1>6 DEF Bijection

LEMMA EveryPlaceIsTaken ==
    ASSUME NEW R, NEW S, IsFiniteSet(S), Orders(R, S), NEW i \in 1..Cardinality(S)
    PROVE  \E c \in S : Place(R, S, c) = i
<1> DEFINE f == [c \in S |-> Place(R, S, c)]
<1>1. f \in Surjection(S, 1..Cardinality(S))
  BY PlacesAreFilled DEF Bijection
<1>2. PICK c \in S : f[c] = i
  BY <1>1 DEF Surjection
<1> QED BY <1>2

(* The first k: all of them, or k. *)
LEMMA FirstOnesCounted ==
    ASSUME NEW R, NEW S, IsFiniteSet(S), Orders(R, S), NEW k \in Nat
    PROVE  Cardinality({c \in S : Place(R, S, c) <= k}) =
             IF Cardinality(S) < k THEN Cardinality(S) ELSE k
<1> DEFINE n == Cardinality(S)
           m == IF n < k THEN n ELSE k
           f == [c \in S |-> Place(R, S, c)]
           T == {c \in S : f[c] <= k}
           g == [c \in T |-> f[c]]
<1>0. n \in Nat /\ m \in Nat
  BY FS_CardinalityType
<1>1. f \in Bijection(S, 1..n)
  BY PlacesAreFilled
<1> HIDE DEF f
<1>2. g \in [T -> 1..m]
  <2>1. \A c \in T : f[c] \in 1..n /\ f[c] <= k
    BY <1>1 DEF Bijection, Injection
  <2> QED BY <1>0, <2>1
<1>3. g \in Injection(T, 1..m)
  BY <1>1, <1>2 DEF Bijection, Injection, IsInjective
<1>4. ASSUME NEW i \in 1..m PROVE \E c \in T : g[c] = i
  <2>1. i \in 1..n /\ i <= k
    BY <1>0
  <2>2. PICK c \in S : f[c] = i
    BY <1>1, <2>1 DEF Bijection, Surjection
  <2> QED BY <2>1, <2>2
<1>5. g \in Bijection(T, 1..m)
  BY <1>2, <1>3, <1>4 DEF Bijection, Surjection
<1>6. IsFiniteSet(T) /\ IsFiniteSet(1..m) /\ Cardinality(1..m) = m
  <2>1. T \in SUBSET S
    OBVIOUS
  <2> HIDE DEF T, m
  <2>2. IsFiniteSet(T)
    BY <2>1, FS_Subset
  <2>3. IsFiniteSet(1..m) /\ Cardinality(1..m) = m
    BY <1>0, FS_Interval
  <2> QED BY <2>2, <2>3
<1>7. Cardinality(1..m) = Cardinality(T)
  <2>1. ExistsBijection(T, 1..m)
    BY <1>5 DEF ExistsBijection
  <2> QED BY <1>6, <2>1, FS_Bijection
<1>8. T = {c \in S : Place(R, S, c) <= k}
  BY DEF f
<1> QED BY <1>6, <1>7, <1>8

(* What ranks first by H, which ties some, and then by P, is ranked. *)
LEMMA TiesAreBroken ==
    ASSUME NEW S, NEW H, NEW P, NEW R, Orders(P, S),
           \A c, d \in S : <<c, d>> \in H => <<d, c>> \notin H,
           \A c, d, e \in S : <<c, d>> \notin H /\ <<d, e>> \notin H => <<c, e>> \notin H,
           \A c, d \in S : <<c, d>> \in R <=>
              \/ <<c, d>> \in H
              \/ <<d, c>> \notin H /\ <<c, d>> \in P
    PROVE  Orders(R, S)
<1>1. \A c \in S : <<c, c>> \notin R
  BY DEF Orders
<1>2. ASSUME NEW c \in S, NEW d \in S, NEW e \in S, <<c, d>> \in R, <<d, e>> \in R
      PROVE  <<c, e>> \in R
  <2>1. <<d, c>> \notin H /\ <<e, d>> \notin H /\ <<e, c>> \notin H
    BY <1>2
  <2>2. CASE <<c, d>> \in H
    <3>1. <<c, e>> \in H
      BY <2>1, <2>2
    <3> QED BY <3>1
  <2>3. CASE <<d, e>> \in H
    <3>1. <<c, e>> \in H
      BY <2>1, <2>3
    <3> QED BY <3>1
  <2>4. CASE <<c, d>> \notin H /\ <<d, e>> \notin H
    <3>1. <<c, e>> \in P
      BY <1>2, <2>4 DEF Orders
    <3> QED BY <2>1, <3>1
  <2> QED BY <2>2, <2>3, <2>4
<1>3. \A c, d \in S : c # d => <<c, d>> \in R \/ <<d, c>> \in R
  BY DEF Orders
<1> QED BY <1>1, <1>2, <1>3 DEF Orders

(* Tuples of integers are ordered by their first difference. *)
LEMMA TuplesAreOrdered ==
    ASSUME NEW n \in Nat, NEW a \in [1..n -> Int], NEW b \in [1..n -> Int], NEW c \in [1..n -> Int]
    PROVE  /\ ~Precedes(a, a)
           /\ Precedes(a, b) /\ Precedes(b, c) => Precedes(a, c)
           /\ a # b => Precedes(a, b) \/ Precedes(b, a)
<1>1. ~Precedes(a, a)
  BY DEF Precedes
<1>2. ASSUME Precedes(a, b), Precedes(b, c) PROVE Precedes(a, c)
  <2>1. PICK i \in 1..n : a[i] < b[i] /\ \A j \in 1..(i - 1) : a[j] = b[j]
    BY <1>2 DEF Precedes
  <2>2. PICK k \in 1..n : b[k] < c[k] /\ \A j \in 1..(k - 1) : b[j] = c[j]
    BY <1>2 DEF Precedes
  <2>3. CASE i < k
    <3>1. a[i] < c[i] /\ \A j \in 1..(i - 1) : a[j] = c[j]
      BY <2>1, <2>2, <2>3
    <3> QED BY <3>1 DEF Precedes
  <2>4. CASE i = k
    <3>1. a[i] < c[i] /\ \A j \in 1..(i - 1) : a[j] = c[j]
      BY <2>1, <2>2, <2>4
    <3> QED BY <3>1 DEF Precedes
  <2>5. CASE k < i
    <3>1. a[k] < c[k] /\ \A j \in 1..(k - 1) : a[j] = c[j]
      BY <2>1, <2>2, <2>5
    <3> QED BY <3>1 DEF Precedes
  <2> QED BY <2>3, <2>4, <2>5
<1>3. ASSUME a # b PROVE Precedes(a, b) \/ Precedes(b, a)
  <2> DEFINE D == {i \in 1..n : a[i] # b[i]}
  <2>1. D \subseteq Nat /\ D # {}
    <3>1. a = [i \in 1..n |-> a[i]] /\ b = [i \in 1..n |-> b[i]]
      OBVIOUS
    <3>2. \E i \in 1..n : a[i] # b[i]
      BY <1>3, <3>1
    <3>3. 1..n \subseteq Nat
      OBVIOUS
    <3> QED BY <3>2, <3>3, Zenon
  <2>2. PICK i \in D : \A j \in D : ~(<<j, i>> \in OpToRel(<, Nat))
    BY <2>1, NatLessThanWellFounded, WFMin
  <2>3. \A j \in D : ~(j < i)
    BY <2>1, <2>2 DEF OpToRel
  <2>4. \A j \in 1..(i - 1) : a[j] = b[j]
    BY <2>3
  <2>5. a[i] < b[i] \/ b[i] < a[i]
    OBVIOUS
  <2> QED BY <2>4, <2>5 DEF Precedes
<1> QED BY <1>1, <1>2, <1>3

(* What has keys of its own is ordered as they are. *)
LEMMA KeysMakeOrders ==
    ASSUME NEW S, NEW n \in Nat, NEW key \in [S -> [1..n -> Int]],
           \A c, d \in S : key[c] = key[d] => c = d,
           NEW P, \A c, d \in S : <<c, d>> \in P <=> Precedes(key[c], key[d])
    PROVE  Orders(P, S)
<1>1. ASSUME NEW c \in S PROVE <<c, c>> \notin P
  <2>1. key[c] \in [1..n -> Int]
    OBVIOUS
  <2>2. ~Precedes(key[c], key[c])
    BY <2>1, TuplesAreOrdered
  <2> QED BY <2>2
<1>2. ASSUME NEW c \in S, NEW d \in S, NEW e \in S, <<c, d>> \in P, <<d, e>> \in P
      PROVE  <<c, e>> \in P
  <2>1. key[c] \in [1..n -> Int] /\ key[d] \in [1..n -> Int] /\ key[e] \in [1..n -> Int]
    OBVIOUS
  <2>2. Precedes(key[c], key[d]) /\ Precedes(key[d], key[e])
    BY <1>2
  <2>3. Precedes(key[c], key[e])
    BY <2>1, <2>2, TuplesAreOrdered
  <2> QED BY <2>3
<1>3. ASSUME NEW c \in S, NEW d \in S, c # d PROVE <<c, d>> \in P \/ <<d, c>> \in P
  <2>1. key[c] \in [1..n -> Int] /\ key[d] \in [1..n -> Int] /\ key[c] # key[d]
    BY <1>3
  <2>2. Precedes(key[c], key[d]) \/ Precedes(key[d], key[c])
    BY <2>1, TuplesAreOrdered
  <2> QED BY <2>2
<1> QED BY <1>1, <1>2, <1>3 DEF Orders

----------------------------------------------------------------------------
(* Types *)

LEMMA InitTypes == Init => TypeOK
<1> SUFFICES ASSUME Init PROVE TypeOK
  OBVIOUS
<1>1. index \in [Docs -> IndexStates]
  BY StartAssumption DEF Init
<1>2. /\ DOMAIN NoRanking = {}
      /\ NoDraft \in [content : Contents, response : Nat]
  BY DEF NoRanking, NoDraft, Contents, Sentinel
<1> QED BY <1>1, <1>2, AskAssumption DEF Init, TypeOK, NoResult

LEMMA CommitTypes ==
    ASSUME TypeOK, NEW d \in Docs, NEW state \in IndexStates, Commit(d, state),
           UNCHANGED <<verifier, sources, answering>>
    PROVE  TypeOK'
<1>1. index' \in [Docs -> IndexStates]
  BY DEF TypeOK, Commit
<1>2. changes' \in 0..MaxChanges
  BY AskAssumption DEF TypeOK, Commit
<1>3. served' \subseteq Chunks
  BY DEF TypeOK, Commit, Usable
<1> QED BY <1>1, <1>2, <1>3 DEF TypeOK, Commit, rankings, answering

LEMMA OthersTypes ==
    ASSUME TypeOK, IndexChanges PROVE TypeOK'
<1> PICK d \in Docs : \/ ClaimDocument(d) \/ FinishProcessing(d) \/ MarkFailed(d)
                      \/ RebuildEmbeddings(d) \/ DeleteDocument(d)
  BY DEF IndexChanges, OthersCommit
<1>0. UNCHANGED <<verifier, sources, answering>>
  BY DEF IndexChanges
<1>1. index[d] \in IndexStates
  BY DEF TypeOK
<1>2. CASE ClaimDocument(d)
  <2>1. [index[d] EXCEPT !.status = "processing"] \in IndexStates
    BY <1>1 DEF IndexStates
  <2> QED BY <1>0, <1>2, <2>1, CommitTypes DEF ClaimDocument
<1>3. CASE FinishProcessing(d)
  <2> PICK m \in Models, status \in {"ready", index[d].status} :
        Commit(d, [status |-> status, run |-> index[d].run + 1, models |-> {m}])
    BY <1>3 DEF FinishProcessing
  <2>1. [status |-> status, run |-> index[d].run + 1, models |-> {m}] \in IndexStates
    BY <1>1, <1>3, IndexAssumption DEF IndexStates, FinishProcessing
  <2> QED BY <1>0, <2>1, CommitTypes
<1>4. CASE MarkFailed(d)
  <2>1. [index[d] EXCEPT !.status = "failed"] \in IndexStates
    BY <1>1 DEF IndexStates
  <2> QED BY <1>0, <1>4, <2>1, CommitTypes DEF MarkFailed
<1>5. CASE RebuildEmbeddings(d)
  <2> PICK m \in Models : Commit(d, [index[d] EXCEPT !.models = @ \cup {m}])
    BY <1>5 DEF RebuildEmbeddings
  <2>1. [index[d] EXCEPT !.models = @ \cup {m}] \in IndexStates
    BY <1>1 DEF IndexStates
  <2> QED BY <1>0, <2>1, CommitTypes
<1>6. CASE DeleteDocument(d)
  <2>1. Gone \in IndexStates
    BY IndexAssumption DEF Gone, IndexStates
  <2> QED BY <1>0, <1>6, <2>1, CommitTypes DEF DeleteDocument
<1> QED BY <1>2, <1>3, <1>4, <1>5, <1>6

LEMMA RetrieveTypes ==
    ASSUME TypeOK, Retrieve PROVE TypeOK'
<1>0. UNCHANGED <<verifier, sources, answering>>
  BY DEF Retrieve
<1>1. CASE SearchSimilar
  <2> DEFINE S == {c \in Chunks : Ready(c) /\ Embedded(c) /\ InScope(c) /\ Sim(c) >= ask.floor}
  <2>1. vec' = Top(S, SimilarBefore, CandidateK)
    BY <1>1 DEF SearchSimilar
  <2> HIDE DEF S
  <2>2. S \subseteq Chunks
    BY DEF S
  <2>3. DOMAIN vec' \subseteq Chunks /\ \A c \in DOMAIN vec' : vec'[c] \in Nat \ {0}
    BY <2>1, <2>2, RanksArePositive DEF Top, Rank
  <2> QED BY <1>0, <1>1, <2>3 DEF TypeOK, SearchSimilar, SearchPhases, rows, answering
<1>2. CASE SearchLexical
  <2> DEFINE S == {c \in Chunks : Ready(c) /\ InScope(c) /\ Words(c) > 0}
  <2>1. lex' = Top(S, WordsBefore, CandidateK)
    BY <1>2 DEF SearchLexical
  <2> HIDE DEF S
  <2>2. S \subseteq Chunks
    BY DEF S
  <2>3. DOMAIN lex' \subseteq Chunks /\ \A c \in DOMAIN lex' : lex'[c] \in Nat \ {0}
    BY <2>1, <2>2, RanksArePositive DEF Top, Rank
  <2> QED BY <1>0, <1>2, <2>3 DEF TypeOK, SearchLexical, SearchPhases, rows, answering
<1>3. CASE ScoreSpecific
  BY <1>0, <1>3 DEF TypeOK, ScoreSpecific, SearchPhases, rows, answering
<1>4. CASE Fuse
  <2>1. DOMAIN hits' \subseteq Chunks
    BY <1>4 DEF Fuse, Top, Fusable, TypeOK
  <2>2. \A c \in DOMAIN hits' : hits'[c] \in Fractions
    BY <1>4, FusedScoreIsFraction DEF Fuse
  <2> QED BY <1>0, <1>4, <2>1, <2>2 DEF TypeOK, Fuse, rows, rankings, answering
<1>5. CASE Rerank
  <2>1. CASE \E score \in [DOMAIN hits -> {0, 100}] :
                hits' = [c \in Best(score) |-> <<score[c], 100>>]
    <3> PICK score \in [DOMAIN hits -> {0, 100}] :
                hits' = [c \in Best(score) |-> <<score[c], 100>>]
      BY <2>1
    <3>1. Best(score) \subseteq DOMAIN hits
      BY DEF Best
    <3> QED BY <1>0, <1>5, <3>1
            DEF TypeOK, Rerank, Fractions, rows, rankings, answering
  <2>2. CASE hits' = [c \in DOMAIN Top(DOMAIN hits, FusedBefore, ask.topK) |-> hits[c]]
    <3>1. DOMAIN Top(DOMAIN hits, FusedBefore, ask.topK) \subseteq DOMAIN hits
      BY DEF Top
    <3> QED BY <1>0, <1>5, <2>2, <3>1 DEF TypeOK, Rerank, rows, rankings, answering
  <2> QED BY <1>5, <2>1, <2>2 DEF Rerank
<1> QED BY <1>1, <1>2, <1>3, <1>4, <1>5 DEF Retrieve

LEMMA AnswerTypes ==
    ASSUME TypeOK, Counting,
           BuildEvidence \/ Draft \/ Validate \/ Verify \/ Repair \/ RequestFails
    PROVE  TypeOK'
<1>1. CASE BuildEvidence
  <2>1. DOMAIN Sources \subseteq DOMAIN hits /\ Candidates \subseteq DOMAIN hits
    BY DEF Sources, Candidates, Unique, Filtered
  <2>2. \A c \in DOMAIN Sources : Sources[c] \in Nat \ {0}
    <3> SUFFICES ASSUME NEW c \in DOMAIN Sources PROVE Sources[c] \in Nat \ {0}
      OBVIOUS
    <3>1. Earlier(c) \in SUBSET Chunks
      BY <2>1 DEF TypeOK, Earlier
    <3>2. Cardinality(Earlier(c)) \in Nat
      BY <3>1, SizesAreNaturals
    <3> QED BY <3>2 DEF Sources
  <2>3. DOMAIN NoRanking = {}
    BY DEF NoRanking
  <2>4. /\ result'.kind \in {"none", "answer", "refusal", "failure"}
        /\ result'.response \in Nat /\ result'.citations \subseteq Chunks
    BY <1>1 DEF BuildEvidence, TypeOK, NoResult
  <2>5. phase' \in {"draft", "done"}
    BY <1>1 DEF BuildEvidence
  <2>6. sources' = Sources
    BY <1>1 DEF BuildEvidence
  <2>7. DOMAIN sources' \subseteq Chunks /\ \A c \in DOMAIN sources' : sources'[c] \in Nat \ {0}
    BY <2>1, <2>2, <2>6 DEF TypeOK
  <2>8. served' \subseteq Chunks
    BY <1>1 DEF BuildEvidence, TypeOK
  <2>9. /\ DOMAIN vec' = {} /\ DOMAIN lex' = {} /\ scored' = {} /\ DOMAIN hits' = {}
        /\ UNCHANGED <<index, changes, ask, reranker, verifier,
                       draft, attempt, calls, verdicts, supported>>
    BY <1>1, <2>3 DEF BuildEvidence
  <2> HIDE DEF BuildEvidence
  <2> QED BY <2>4, <2>5, <2>7, <2>8, <2>9 DEF TypeOK
<1>2. CASE Draft \/ Repair
  <2>1. draft' \in [content : Contents, response : Nat] /\ calls' \in Nat
    BY <1>2 DEF Draft, Repair, Generate, TypeOK
  <2>2. attempt' \in 0..2 /\ phase' = "validate"
    BY <1>2 DEF Draft, Repair, Generate, TypeOK, Counting
  <2> QED BY <1>2, <2>1, <2>2 DEF TypeOK, Draft, Repair, Generate, rows, rankings
<1>3. CASE Validate \/ Verify
  <2>1. Cited \subseteq Chunks /\ {} \subseteq Chunks
    BY DEF Cited, TypeOK
  <2>2. /\ phase' \in {"done", "verify", "repair"} /\ attempt' = attempt
        /\ \/ result' = result
           \/ \E kind \in {"answer", "refusal"}, cites \in {{}, Cited} :
                result' = [kind |-> kind, response |-> draft.response, citations |-> cites]
    BY <1>3 DEF Validate, Verify, RejectDraft, Finish
  <2>3. /\ result'.kind \in {"none", "answer", "refusal", "failure"}
        /\ result'.response \in Nat /\ result'.citations \subseteq Chunks
    BY <2>1, <2>2 DEF TypeOK
  <2>4. supported' \subseteq Nat /\ verdicts' \in Nat
    <3>1. supported' \in {supported, supported \cup {draft.response}}
      BY <1>3 DEF Validate, Verify
    <3>2. verdicts' \in {verdicts, verdicts + 1}
      BY <1>3 DEF Validate, Verify
    <3> QED BY <3>1, <3>2 DEF TypeOK
  <2>5. UNCHANGED <<rows, ask, reranker, rankings, hits, verifier, sources, draft, calls>>
    BY <1>3 DEF Validate, Verify
  <2> QED BY <2>2, <2>3, <2>4, <2>5 DEF TypeOK, rows, rankings
<1>4. CASE RequestFails
  BY <1>4 DEF RequestFails, TypeOK, NoResult, rows, rankings
<1> QED BY <1>1, <1>2, <1>3, <1>4

LEMMA NextTypes == ASSUME TypeOK, Counting, [Next]_vars PROVE TypeOK'
<1>1. CASE Ask
  BY <1>1 DEF Ask, TypeOK, Usable, SearchPhases, rankings, answering
<1>2. CASE Answered \/ UNCHANGED vars
  BY <1>2 DEF Answered, TypeOK, vars, retrieval, answering
<1> QED BY <1>1, <1>2, OthersTypes, RetrieveTypes, AnswerTypes DEF Next

----------------------------------------------------------------------------
(* What was served *)

LEMMA NextReadiness ==
    ASSUME TypeOK, Readiness, [Next]_vars PROVE Readiness'
<1> USE DEF InScope
<1>1. CASE Ask
  BY <1>1 DEF Ask, Readiness, rankings, answering, Usable, Ready, Embedded
<1>2. CASE IndexChanges
  <2>1. /\ phase \in SearchPhases /\ served' = served \cup Usable'
        /\ UNCHANGED <<phase, ask, vec, scored, hits, sources>>
    BY <1>2 DEF IndexChanges, OthersCommit, ClaimDocument, FinishProcessing, MarkFailed,
                RebuildEmbeddings, DeleteDocument, Commit, rankings
  <2>2. phase # "idle"
    BY <2>1 DEF SearchPhases
  <2> QED BY <2>1, <2>2 DEF Readiness
<1>3. CASE Retrieve
  <2>0. /\ UNCHANGED <<index, served, ask, sources>>
        /\ phase' # "idle" /\ phase # "idle"
        /\ phase' \in SearchPhases => phase \in SearchPhases
    BY <1>3 DEF Retrieve, SearchSimilar, SearchLexical, ScoreSpecific, Fuse, Rerank,
                rows, SearchPhases
  <2>1. Usable' = Usable
    BY <2>0 DEF Usable, Ready, Embedded
  <2>2. \A c \in DOMAIN vec' \cup scored' \cup DOMAIN hits' : c \in served /\ InScope(c)
    <3>1. CASE SearchSimilar
      <4>1. \A c \in DOMAIN vec' : c \in Usable /\ InScope(c)
        BY <3>1 DEF SearchSimilar, Top, Usable
      <4>2. UNCHANGED <<scored, hits>> /\ phase \in SearchPhases
        BY <3>1 DEF SearchSimilar, SearchPhases
      <4> QED BY <4>1, <4>2 DEF Readiness
    <3>2. CASE SearchLexical
      BY <3>2 DEF SearchLexical, Readiness
    <3>3. CASE ScoreSpecific
      <4>1. \A c \in scored' : c \in Chunks /\ Ready(c) /\ Embedded(c) /\ InScope(c)
        BY <3>3 DEF ScoreSpecific, TypeOK
      <4>2. UNCHANGED <<vec, hits>> /\ phase \in SearchPhases
        BY <3>3 DEF ScoreSpecific, SearchPhases
      <4> QED BY <4>1, <4>2 DEF Readiness, Usable
    <3>4. CASE Fuse
      <4>1. DOMAIN hits' \subseteq DOMAIN vec \cup scored /\ UNCHANGED rankings
        BY <3>4 DEF Fuse, Top, Fusable
      <4> QED BY <4>1 DEF Readiness, rankings
    <3>5. CASE Rerank
      <4>1. DOMAIN hits' \subseteq DOMAIN hits /\ UNCHANGED rankings
        BY <3>5 DEF Rerank, Top, Best
      <4> QED BY <4>1 DEF Readiness, rankings
    <3> QED BY <1>3, <3>1, <3>2, <3>3, <3>4, <3>5 DEF Retrieve
  <2> QED BY <2>0, <2>1, <2>2 DEF Readiness
<1>4. CASE BuildEvidence
  <2>1. DOMAIN Sources \subseteq DOMAIN hits
    BY DEF Sources, Candidates, Unique, Filtered
  <2>2. /\ DOMAIN vec' = {} /\ scored' = {} /\ DOMAIN hits' = {} /\ sources' = Sources
        /\ served' = served \cap DOMAIN Sources /\ ask' = ask /\ phase' \in {"draft", "done"}
    BY <1>4 DEF BuildEvidence, NoRanking
  <2> QED BY <2>1, <2>2 DEF Readiness, SearchPhases
<1>5. CASE Draft \/ Validate \/ Verify \/ Repair \/ RequestFails
  <2>1. UNCHANGED <<served, ask, vec, scored, hits, sources>>
    BY <1>5 DEF Draft, Validate, Verify, Repair, RequestFails, Generate, rows, rankings
  <2>2. phase' \in {"validate", "verify", "repair", "done"}
    BY <1>5 DEF Draft, Validate, Verify, Repair, RequestFails, Generate, RejectDraft, Finish
  <2> QED BY <2>1, <2>2 DEF Readiness, SearchPhases
<1>6. CASE Answered \/ UNCHANGED vars
  BY <1>6 DEF Answered, Readiness, vars, retrieval, Usable, Ready, Embedded
<1> QED BY <1>1, <1>2, <1>3, <1>4, <1>5, <1>6 DEF Next

----------------------------------------------------------------------------
(* The loop of drafts, verdicts and repairs *)

LEMMA NextCounting ==
    ASSUME Inv, [Next]_vars PROVE Counting' /\ Outcome'
<1> USE DEF Inv
<1>1. CASE Ask \/ Retrieve \/ IndexChanges
  <2>1. phase \in Before /\ phase' \in Before
    BY <1>1 DEF Ask, Retrieve, SearchSimilar, SearchLexical, ScoreSpecific, Fuse, Rerank,
                IndexChanges, OthersCommit, ClaimDocument, FinishProcessing, MarkFailed,
                RebuildEmbeddings, DeleteDocument, Commit, Before, SearchPhases
  <2>2. UNCHANGED <<verifier, sources, answering>>
    BY <1>1 DEF Ask, Retrieve, IndexChanges
  <2> QED BY <2>1, <2>2 DEF Counting, Outcome, AnswerIsGrounded, RefusalIsEarned,
                EffortIsBounded, answering, Before, SearchPhases, IsCited, Known, Cited, IsRefusal
<1>2. CASE BuildEvidence
  <2>1. /\ phase \in Before /\ sources' = Sources
        /\ UNCHANGED <<verifier, draft, attempt, calls, verdicts, supported>>
    BY <1>2 DEF BuildEvidence, Before
  <2>2. \/ /\ DOMAIN sources' = {} /\ phase' = "done"
           /\ result' = [NoResult EXCEPT !.kind = "refusal"]
        \/ DOMAIN sources' # {} /\ phase' = "draft" /\ result' = result
    BY <1>2 DEF BuildEvidence
  <2> QED BY <2>1, <2>2 DEF Counting, Outcome, AnswerIsGrounded, RefusalIsEarned,
                EffortIsBounded, Before, SearchPhases, NoResult
<1>3. CASE Draft \/ Repair
  <2>1. /\ phase' = "validate" /\ draft'.response = calls + 1 /\ calls' = calls + 1
        /\ UNCHANGED <<verifier, sources, verdicts, supported, result>>
    BY <1>3 DEF Draft, Repair, Generate
  <2>2. \/ phase = "draft" /\ attempt' = attempt
        \/ phase = "repair" /\ attempt' = attempt + 1
    BY <1>3 DEF Draft, Repair
  <2> QED BY <2>1, <2>2 DEF TypeOK, Counting, Outcome, AnswerIsGrounded, RefusalIsEarned,
                EffortIsBounded, Before, SearchPhases, NoResult
<1>4. CASE Validate
  <2>1. /\ phase = "validate" /\ attempt' = attempt
        /\ UNCHANGED <<verifier, sources, draft, calls, verdicts, supported>>
    BY <1>4 DEF Validate, RejectDraft, Finish
  <2>2. IsCited' = IsCited /\ Cited' = Cited /\ IsRefusal' = IsRefusal
    BY <2>1 DEF IsCited, Cited, Known, IsRefusal
  <2>3. IsCited => Cited # {}
    BY DEF IsCited, Cited, Known
  <2>4. \/ phase' = "verify" /\ IsCited /\ verifier /\ result' = result
        \/ phase' = "repair" /\ attempt < 2 /\ result' = result
        \/ /\ phase' = "done" /\ IsCited /\ ~verifier
           /\ result' = [kind |-> "answer", response |-> draft.response, citations |-> Cited]
        \/ /\ phase' = "done" /\ (IsRefusal \/ attempt >= 2)
           /\ result' = [kind |-> "refusal", response |-> draft.response, citations |-> {}]
    BY <1>4 DEF Validate, RejectDraft, Finish, TypeOK
  <2> QED BY <2>1, <2>2, <2>3, <2>4 DEF TypeOK, Counting, Outcome, AnswerIsGrounded,
                RefusalIsEarned, EffortIsBounded, Before, SearchPhases, NoResult
<1>5. CASE Verify
  <2>1. /\ phase = "verify" /\ attempt' = attempt /\ verdicts' = verdicts + 1
        /\ UNCHANGED <<verifier, sources, draft, calls>>
    BY <1>5 DEF Verify, RejectDraft, Finish
  <2>2. IsCited' = IsCited /\ Cited' = Cited /\ IsRefusal' = IsRefusal
    BY <2>1 DEF IsCited, Cited, Known, IsRefusal
  <2>3. IsCited => Cited # {}
    BY DEF IsCited, Cited, Known
  <2>4. \/ phase' = "repair" /\ attempt < 2 /\ result' = result
        \/ /\ phase' = "done" /\ draft.response \in supported'
           /\ result' = [kind |-> "answer", response |-> draft.response, citations |-> Cited]
        \/ /\ phase' = "done" /\ attempt >= 2
           /\ result' = [kind |-> "refusal", response |-> draft.response, citations |-> {}]
    BY <1>5 DEF Verify, RejectDraft, Finish, TypeOK
  <2> QED BY <2>1, <2>2, <2>3, <2>4 DEF TypeOK, Counting, Outcome, AnswerIsGrounded,
                RefusalIsEarned, EffortIsBounded, Before, SearchPhases, NoResult
<1>6. CASE RequestFails
  <2>1. /\ phase' = "done" /\ result' = [NoResult EXCEPT !.kind = "failure"]
        /\ UNCHANGED <<sources, calls, verdicts>>
    BY <1>6 DEF RequestFails
  <2> QED BY <2>1 DEF Counting, Outcome, AnswerIsGrounded, RefusalIsEarned,
                EffortIsBounded, Before, SearchPhases, NoResult
<1>7. CASE Answered \/ UNCHANGED vars
  BY <1>7 DEF Answered, vars, retrieval, answering, Counting, Outcome, AnswerIsGrounded,
              RefusalIsEarned, EffortIsBounded, IsCited, Known, Cited, IsRefusal
<1> QED BY <1>1, <1>2, <1>3, <1>4, <1>5, <1>6, <1>7 DEF Next

----------------------------------------------------------------------------
(* Theorems *)

LEMMA InitInv == Init => Inv
<1> SUFFICES ASSUME Init PROVE Inv
  OBVIOUS
<1>1. DOMAIN NoRanking = {}
  BY DEF NoRanking
<1>2. Readiness
  BY <1>1 DEF Init, Readiness, SearchPhases
<1>3. Counting
  BY DEF Init, Counting, Before, SearchPhases
<1>4. Outcome
  BY DEF Init, Outcome, AnswerIsGrounded, RefusalIsEarned, EffortIsBounded, NoResult
<1> QED BY <1>2, <1>3, <1>4, InitTypes DEF Inv

LEMMA NextInv == Inv /\ [Next]_vars => Inv'
BY NextTypes, NextReadiness, NextCounting DEF Inv

LEMMA Invariance == Spec => []Inv
BY InitInv, NextInv, PTL DEF Spec

(* Every state of a request has the shape TypeOK gives it. *)
THEOREM TypeCorrect == Spec => []TypeOK
<1>1. Inv => TypeOK
  BY DEF Inv
<1> QED BY <1>1, Invariance, PTL

(* Nothing but what was ready, embedded, the user's and asked for becomes  *)
(* evidence, whatever is committed between the statements of the search.   *)
THEOREM EvidenceIsOwnAndReady == Spec => []EvidenceWasReady
<1>1. Inv => EvidenceWasReady
  BY DEF Inv, Readiness, EvidenceWasReady
<1> QED BY <1>1, Invariance, PTL

(* An answer given is the last draft, its citations were shown, and the    *)
(* verifier, where there is one, found that very draft supported.          *)
THEOREM AnswersAreGrounded == Spec => []AnswerIsGrounded
<1>1. Inv => AnswerIsGrounded
  BY DEF Inv, Outcome
<1> QED BY <1>1, Invariance, PTL

(* No request is refused before the repairs it is due, and none goes on    *)
(* after them.                                                             *)
THEOREM RefusalsAreEarned == Spec => []RefusalIsEarned
<1>1. Inv => RefusalIsEarned
  BY DEF Inv, Outcome
<1> QED BY <1>1, Invariance, PTL

(* The calls a request can cost are bounded. *)
THEOREM EffortsAreBounded == Spec => []EffortIsBounded
<1>1. Inv => EffortIsBounded
  BY DEF Inv, Outcome
<1> QED BY <1>1, Invariance, PTL

----------------------------------------------------------------------------
(* The order of the evidence *)

(* Scores are compared as fractions are: not being higher is transitive. *)
LEMMA NotHigherIsTransitive ==
    ASSUME NEW x \in Fractions, NEW y \in Fractions, NEW z \in Fractions,
           ~Higher(x, y), ~Higher(y, z)
    PROVE  ~Higher(x, z)
<1> DEFINE a == x[1]  b == x[2]  c == y[1]  d == y[2]  e == z[1]  f == z[2]
<1>0. /\ a \in Nat /\ b \in Nat /\ c \in Nat /\ d \in Nat /\ e \in Nat /\ f \in Nat
      /\ b > 0 /\ d > 0 /\ f > 0
  BY DEF Fractions
<1>1. a * d <= c * b /\ c * f <= e * d
  <2>1. /\ a * d \in Nat /\ c * b \in Nat /\ c * f \in Nat /\ e * d \in Nat
    BY <1>0
  <2> QED BY <2>1 DEF Higher
<1> SUFFICES ASSUME a * f > e * b PROVE FALSE
  BY DEF Higher
<1> HIDE DEF a, b, c, d, e, f
<1>2. \A i \in Nat, j \in Nat, k \in Nat : i <= j => i * k <= j * k
  OBVIOUS
<1>3. \A i \in Nat, j \in Nat, k \in Nat : i > j /\ k > 0 => i * k > j * k
  OBVIOUS
<1>4. (a * d) * f <= (c * b) * f
  BY <1>0, <1>1, <1>2
<1>5. (c * f) * b <= (e * d) * b
  BY <1>0, <1>1, <1>2
<1>6. (a * f) * d > (e * b) * d
  BY <1>0, <1>3
<1>7. /\ (a * d) * f = (a * f) * d /\ (c * b) * f = (c * f) * b
      /\ (e * d) * b = (e * b) * d
  BY <1>0
<1>8. (a * f) * d \in Nat /\ (c * f) * b \in Nat /\ (e * b) * d \in Nat
  BY <1>0
<1> QED BY <1>4, <1>5, <1>6, <1>7, <1>8

LEMMA HigherIsAsymmetric ==
    ASSUME NEW x \in Fractions, NEW y \in Fractions, Higher(x, y)
    PROVE  ~Higher(y, x)
<1>1. x[1] * y[2] \in Nat /\ y[1] * x[2] \in Nat
  BY DEF Fractions
<1> QED BY <1>1 DEF Higher

(* Chunks are told apart by three numbers. *)
LEMMA ChunksAreNumbered ==
    ASSUME NEW c \in Chunks PROVE c.doc \in Nat /\ c.pos \in Nat /\ c.run \in Nat
<1>1. Docs \subseteq Nat /\ Positions \subseteq Nat /\ 1..MaxRuns \subseteq Nat
  BY IndexAssumption
<1>2. c.doc \in Docs /\ c.pos \in Positions /\ c.run \in 1..MaxRuns
  BY DEF Chunks
<1> QED BY <1>1, <1>2

(* How evidence is ordered: by score, then by document, position and run. *)
EvidenceOrder == {p \in (DOMAIN hits) \X (DOMAIN hits) : EvidenceBefore(p[1], p[2])}

LEMMA EvidenceIsOrdered == ASSUME TypeOK PROVE Orders(EvidenceOrder, DOMAIN hits)
<1> DEFINE D == DOMAIN hits
           Key(c) == <<c.doc, c.pos, c.run>>
           H == {p \in D \X D : Higher(hits[p[1]], hits[p[2]])}
           P == {p \in D \X D : Precedes(Key(p[1]), Key(p[2]))}
<1>0. D \subseteq Chunks /\ \A c \in D : hits[c] \in Fractions
  BY DEF TypeOK
<1>2. \A c, d \in D : /\ <<c, d>> \in H <=> Higher(hits[c], hits[d])
                      /\ <<c, d>> \in P <=> Precedes(Key(c), Key(d))
                      /\ <<c, d>> \in EvidenceOrder <=> EvidenceBefore(c, d)
  BY DEF EvidenceOrder
<1>4. \A c, d \in D : <<c, d>> \in EvidenceOrder <=>
          \/ <<c, d>> \in H
          \/ <<d, c>> \notin H /\ <<c, d>> \in P
  BY <1>2 DEF EvidenceBefore
<1> SUFFICES Orders(EvidenceOrder, D)
  OBVIOUS
<1> HIDE DEF D, H, P
<1>1. Orders(P, D)
  <2> DEFINE key == [c \in D |-> Key(c)]
  <2>1. key \in [D -> [1..3 -> Int]]
    BY <1>0, ChunksAreNumbered
  <2>2. \A c, d \in D : key[c] = key[d] => c = d
    BY <1>0 DEF Chunks
  <2>3. \A c, d \in D : <<c, d>> \in P <=> Precedes(key[c], key[d])
    BY <1>2
  <2> HIDE DEF key
  <2> QED BY <2>1, <2>2, <2>3, KeysMakeOrders
<1>3. /\ \A c, d \in D : <<c, d>> \in H => <<d, c>> \notin H
      /\ \A c, d, e \in D : <<c, d>> \notin H /\ <<d, e>> \notin H => <<c, e>> \notin H
  BY <1>0, <1>2, HigherIsAsymmetric, NotHigherIsTransitive
<1> QED BY <1>1, <1>3, <1>4, TiesAreBroken

(* Some chunk of every nonempty set of hits comes first. *)
LEMMA SomeHitIsFirst ==
    ASSUME TypeOK, NEW S \in SUBSET DOMAIN hits, S # {}
    PROVE  \E c \in S : \A d \in S : ~EvidenceBefore(d, c)
<1>1. IsFiniteSet(S) /\ Orders(EvidenceOrder, S)
  BY ChunksFinite, FS_Subset, EvidenceIsOrdered, OrderOfPart DEF TypeOK
<1>2. 1 \in 1..Cardinality(S)
  BY <1>1, FS_CardinalityType, FS_EmptySet
<1>3. PICK c \in S : Place(EvidenceOrder, S, c) = 1
  BY <1>1, <1>2, EveryPlaceIsTaken
<1>4. ASSUME NEW d \in S, EvidenceBefore(d, c) PROVE FALSE
  <2>1. <<d, c>> \in EvidenceOrder
    BY <1>4 DEF EvidenceOrder
  <2>2. Place(EvidenceOrder, S, d) < 1 /\ Place(EvidenceOrder, S, d) \in 1..Cardinality(S)
    BY <1>1, <1>3, <2>1, PlacesRise
  <2> QED BY <2>2
<1> QED BY <1>4

(* Hits are of the roles asked for and as similar as asked for. *)
AboveFloor == \A c \in DOMAIN hits : Sim(c) >= ask.floor

LEMMA NextAboveFloor ==
    ASSUME AboveFloor, Readiness, [Next]_vars PROVE AboveFloor'
<1> USE DEF AboveFloor, Sim
<1>1. CASE Ask \/ Answered \/ UNCHANGED vars
  BY <1>1 DEF Ask, Answered, vars, retrieval
<1>2. CASE IndexChanges
  BY <1>2 DEF IndexChanges, OthersCommit, ClaimDocument, FinishProcessing, MarkFailed,
              RebuildEmbeddings, DeleteDocument, Commit
<1>3. CASE Retrieve
  <2>1. CASE SearchSimilar \/ SearchLexical \/ ScoreSpecific
    BY <2>1 DEF SearchSimilar, SearchLexical, ScoreSpecific
  <2>2. CASE Fuse
    <3>1. DOMAIN hits' \subseteq Fusable /\ ask' = ask
      BY <2>2 DEF Fuse, Top
    <3> QED BY <3>1 DEF Fusable
  <2>3. CASE Rerank
    BY <2>3 DEF Rerank, Top, Best
  <2> QED BY <1>3, <2>1, <2>2, <2>3 DEF Retrieve
<1>4. CASE BuildEvidence
  BY <1>4 DEF BuildEvidence, NoRanking
<1>5. CASE Draft \/ Validate \/ Verify \/ Repair \/ RequestFails
  BY <1>5 DEF Draft, Validate, Verify, Repair, RequestFails, Generate
<1> QED BY <1>1, <1>2, <1>3, <1>4, <1>5 DEF Next

----------------------------------------------------------------------------
(* What is shown fits *)

LEMMA CandidatesAreHits ==
    /\ Candidates \subseteq Unique /\ Unique \subseteq DOMAIN hits
    /\ DOMAIN Sources \subseteq Candidates
BY DEF Candidates, Unique, Filtered, Sources

LEMMA SizesOfSources ==
    ASSUME NEW c \in Chunks
    PROVE  /\ Size[c] \in Nat /\ Size[c] = Header + Capped(Tokens[Text(c)], MaxSource)
           /\ Tokens[Text(c)] \in Nat \ {0} /\ Header \in Nat \ {0}
<1>1. Text(c) \in Texts
  BY TextAssumption DEF Chunks, Text
<1>2. Tokens[Text(c)] \in Nat \ {0} /\ Header \in Nat \ {0}
  BY <1>1, TextAssumption
<1> QED BY <1>2, BudgetAssumption DEF Size, Capped

(* The size of a source is a number, and that of more sources is larger. *)
LEMMA UsedGrows ==
    ASSUME NEW S \in SUBSET Chunks, NEW T \in SUBSET S
    PROVE  /\ Used(S) \in Nat /\ Used(T) \in Nat /\ Used(T) <= Used(S)
           /\ Used(S) < MaxContext => Used(S) = SumFunctionOnSet(Size, S)
<1>1. \A c \in Chunks : Size[c] \in Nat
  BY SizesOfSources
<1>2. IsFiniteSet(S) /\ IsFiniteSet(T)
  BY ChunksFinite, FS_Subset
<1>3. /\ SumFunctionOnSet(Size, S) \in Nat /\ SumFunctionOnSet(Size, T) \in Nat
      /\ SumFunctionOnSet(Size, T) <= SumFunctionOnSet(Size, S)
  BY <1>1, <1>2, SumIsNatural, SumGrowsWithSet
<1> QED BY <1>3, BudgetAssumption DEF Used, Capped

(* A candidate before one that has room has room, so that the candidates   *)
(* numbered before a source are the sources before it.                     *)
LEMMA SourcesAreFirst ==
    ASSUME TypeOK, NEW c \in DOMAIN Sources
    PROVE  /\ Earlier(c) = Under(EvidenceOrder, DOMAIN Sources, c)
           /\ Sources[c] = Place(EvidenceOrder, DOMAIN Sources, c)
<1>0. DOMAIN hits \subseteq Chunks /\ Candidates \subseteq DOMAIN hits
  BY CandidatesAreHits DEF TypeOK
<1>1. \A e \in Candidates : Earlier(e) = Under(EvidenceOrder, Candidates, e)
  BY <1>0 DEF Earlier, Under, EvidenceOrder
<1>2. c \in Candidates /\ HasRoom(c)
  BY DEF Sources
<1>3. ASSUME NEW d \in Earlier(c) PROVE d \in DOMAIN Sources
  <2>1. d \in Candidates
    BY DEF Earlier
  <2>2. Earlier(d) \subseteq Earlier(c)
    <3>1. Orders(EvidenceOrder, Candidates)
      BY <1>0, EvidenceIsOrdered, OrderOfPart
    <3> QED BY <1>1, <1>2, <2>1, <3>1 DEF Under, Orders
  <2>3. Earlier(c) \in SUBSET Chunks /\ Earlier(d) \in SUBSET Earlier(c)
    BY <1>0, <2>2 DEF Earlier
  <2>4. Used(Earlier(d)) \in Nat /\ Used(Earlier(c)) \in Nat /\ Used(Earlier(d)) <= Used(Earlier(c))
    BY <2>3, UsedGrows
  <2>5. /\ Cardinality(Earlier(d)) \in Nat /\ Cardinality(Earlier(c)) \in Nat
        /\ Cardinality(Earlier(d)) <= Cardinality(Earlier(c))
    BY <2>3, ChunksFinite, FS_Subset, FS_CardinalityType
  <2>6. HasRoom(d)
    BY <1>2, <2>4, <2>5, BudgetAssumption, TextAssumption DEF HasRoom
  <2> QED BY <2>1, <2>6 DEF Sources
<1>4. Earlier(c) = Under(EvidenceOrder, DOMAIN Sources, c)
  BY <1>1, <1>2, <1>3, CandidatesAreHits DEF Under
<1>5. Sources[c] = Cardinality(Earlier(c)) + 1 /\ Cardinality(Earlier(c)) \in Nat
  <2>1. Earlier(c) \in SUBSET Chunks
    BY <1>0 DEF Earlier
  <2> QED BY <2>1, SizesAreNaturals DEF Sources
<1> HIDE DEF EvidenceOrder
<1> QED BY <1>4, <1>5 DEF Place

(* The sources made from the candidates fit.                               *)
LEMMA SourcesFit == ASSUME TypeOK, sources' = Sources PROVE EvidenceFits'
<1> DEFINE D == DOMAIN Sources
           n == Cardinality(D)
           R == EvidenceOrder
           Free(c) == MaxContext - Used(Earlier(c)) - Header
<1>1. D \subseteq Candidates /\ D \subseteq Unique /\ D \subseteq DOMAIN hits /\ D \subseteq Chunks
  BY CandidatesAreHits DEF TypeOK
<1>2. IsFiniteSet(D) /\ n \in Nat /\ Orders(R, D)
  <2>1. D \in SUBSET DOMAIN hits /\ D \in SUBSET Chunks
    BY <1>1
  <2> HIDE DEF D
  <2> QED BY <2>1, ChunksFinite, FS_Subset, FS_CardinalityType, EvidenceIsOrdered, OrderOfPart
<1>3. \A c \in D : /\ Sources[c] = Place(R, D, c) /\ Earlier(c) = Under(R, D, c)
                   /\ Sources[c] = Cardinality(Earlier(c)) + 1
                   /\ Cardinality(Earlier(c)) \in Nat
                   /\ Cardinality(Earlier(c)) < MaxSources /\ Free(c) >= 1
  <2> TAKE c \in D
  <2>1. HasRoom(c) /\ Sources[c] = Cardinality(Earlier(c)) + 1
    BY DEF Sources
  <2>2. Earlier(c) \in SUBSET Chunks
    BY <1>1, CandidatesAreHits DEF Earlier, TypeOK
  <2>3. Used(Earlier(c)) \in Nat
    BY <2>2, UsedGrows
  <2>4. Free(c) >= 1
    BY <2>1, <2>3, BudgetAssumption, TextAssumption DEF HasRoom
  <2>5. Cardinality(Earlier(c)) \in Nat
    BY <2>2, SizesAreNaturals
  <2> QED BY <2>1, <2>4, <2>5, SourcesAreFirst DEF HasRoom
<1> HIDE DEF D, R
<1>4. \A c, d \in D : /\ <<c, d>> \in R <=> Sources[c] < Sources[d]
                      /\ Sources[c] \in 1..n
  BY <1>2, <1>3, PlacesRise
<1>5. \A i \in 1..n : \E c \in D : Sources[c] = i
  BY <1>2, <1>3, EveryPlaceIsTaken
<1>6. {Sources[c] : c \in D} = 1..n
  BY <1>4, <1>5
<1>7. n <= MaxSources
  <2>1. CASE n = 0
    BY <2>1, BudgetAssumption
  <2>2. CASE n # 0
    <3>1. PICK c \in D : Sources[c] = n
      BY <1>2, <1>5, <2>2
    <3>2. /\ n = Cardinality(Earlier(c)) + 1
          /\ Cardinality(Earlier(c)) \in Nat /\ Cardinality(Earlier(c)) < MaxSources
      BY <1>3, <3>1
    <3> QED BY <3>2, BudgetAssumption
  <2> QED BY <2>1, <2>2
<1>8. \A c \in D : {d \in D : Sources[d] < Sources[c]} = Earlier(c)
  BY <1>3, <1>4 DEF Under
<1>9. \A c \in D : Shown(c)' = Capped(Capped(Tokens[Text(c)], MaxSource), Free(c))
  BY <1>8 DEF Shown, D
<1>10. \A c \in D : /\ Shown(c)' \in Nat /\ Shown(c)' >= 1 /\ Shown(c)' <= Free(c)
                    /\ Header + Shown(c)' \in Nat /\ Header + Shown(c)' <= Size[c]
  <2> TAKE c \in D
  <2>1. /\ Tokens[Text(c)] \in Nat \ {0} /\ Header \in Nat \ {0}
        /\ Size[c] = Header + Capped(Tokens[Text(c)], MaxSource)
    BY <1>1, SizesOfSources
  <2>2. Free(c) \in Int /\ Free(c) >= 1
    <3>1. Used(Earlier(c)) \in Nat
      <4>1. Earlier(c) \in SUBSET Chunks
        BY <1>1, <1>3 DEF Under
      <4> QED BY <4>1, UsedGrows
    <3> QED BY <1>3, <2>1, <3>1, BudgetAssumption
  <2>3. Shown(c)' = Capped(Capped(Tokens[Text(c)], MaxSource), Free(c))
    BY <1>9
  <2> HIDE DEF Free
  <2> QED BY <2>1, <2>2, <2>3, BudgetAssumption DEF Capped
<1> DEFINE W == [c \in D |-> Header + Shown(c)']
<1>11. SumFunctionOnSet(W, D) <= MaxContext
  <2>0. MaxContext \in Nat
    BY BudgetAssumption
  <2>1. CASE D = {}
    <3>1. SumFunctionOnSet(W, D) = 0
      BY <2>1, SumOfNothing
    <3> QED BY <2>0, <3>1
  <2>2. CASE D # {}
    <3>1. n # 0
      BY <1>2, <2>2, FS_EmptySet
    <3>2. PICK c \in D : Sources[c] = n
      BY <1>2, <1>5, <3>1
    <3>3. D \ {c} = Earlier(c)
      <4>1. \A d \in D : d # c => <<d, c>> \in R
        <5> TAKE d \in D
        <5>1. d # c => <<d, c>> \in R \/ <<c, d>> \in R
          BY <1>2 DEF Orders
        <5>0. Sources[d] \in 1..n
          BY <1>4
        <5>2. ~(Sources[c] < Sources[d])
          BY <1>2, <3>2, <5>0
        <5>3. <<c, d>> \notin R
          BY <1>4, <5>2
        <5> QED BY <5>1, <5>3
      <4>2. <<c, c>> \notin R
        BY <1>2 DEF Orders
      <4> QED BY <1>3, <4>1, <4>2 DEF Under
    <3>4. \A d \in D : W[d] \in Nat /\ Size[d] \in Nat /\ W[d] <= Size[d]
      BY <1>1, <1>10, SizesOfSources
    <3> DEFINE E == Earlier(c)
    <3>5. SumFunctionOnSet(W, D) = W[c] + SumFunctionOnSet(W, E)
      <4> HIDE DEF W
      <4> QED BY <1>2, <3>3, <3>4, SumSplits
    <3>6. E \in SUBSET D /\ E \in SUBSET Chunks
      BY <1>1, <3>3
    <3>7. IsFiniteSet(E)
      BY <1>2, <3>6, FS_Subset
    <3>8. SumFunctionOnSet(W, E) <= SumFunctionOnSet(Size, E)
      <4> HIDE DEF W, E
      <4> QED BY <3>4, <3>6, <3>7, SumGrowsWithSummands
    <3>9. SumFunctionOnSet(W, E) \in Nat
      <4> HIDE DEF W, E
      <4> QED BY <3>4, <3>6, <3>7, SumIsNatural
    <3>10. Used(E) \in Nat /\ (Used(E) < MaxContext => Used(E) = SumFunctionOnSet(Size, E))
      BY <3>6, UsedGrows
    <3>11. W[c] \in Nat /\ W[c] <= MaxContext - Used(E) /\ Used(E) < MaxContext
      <4>1. Header \in Nat
        BY TextAssumption
      <4>2. Shown(c)' \in Nat /\ Shown(c)' <= Free(c) /\ Free(c) >= 1
        BY <1>3, <1>10
      <4>3. W[c] = Header + Shown(c)'
        OBVIOUS
      <4> HIDE DEF W
      <4> QED BY <2>0, <3>10, <4>1, <4>2, <4>3
    <3> HIDE DEF W, E
    <3> QED BY <2>0, <3>5, <3>8, <3>9, <3>10, <3>11
  <2> QED BY <2>1, <2>2
<1>12. \A c, d \in D :
          c # d => Text(c) # Text(d) /\ ~(RoleOf[c.pos] = "summary" /\ Parent(d) = c)
  <2> TAKE c, d \in D
  <2>1. c # d => EvidenceBefore(c, d) \/ EvidenceBefore(d, c)
    BY <1>2 DEF Orders, R, EvidenceOrder
  <2>2. c \in Unique /\ d \in Unique /\ c \in Candidates
    BY <1>1
  <2>3. c # d => Text(c) # Text(d)
    BY <2>1, <2>2 DEF Unique
  <2>4. ~(RoleOf[c.pos] = "summary" /\ Parent(d) = c)
    BY <2>2 DEF Candidates
  <2> QED BY <2>3, <2>4
<1>13. DOMAIN sources' = D
  BY DEF D
<1>14. SumFunction([c \in DOMAIN sources |-> Header + Shown(c)])' = SumFunctionOnSet(W, D)
  BY <1>13 DEF SumFunction
<1>15. \A c \in D : sources'[c] = Sources[c]
  OBVIOUS
<1> HIDE DEF W
<1> QED BY <1>6, <1>7, <1>10, <1>11, <1>12, <1>13, <1>14, <1>15 DEF EvidenceFits, Text, Parent

(* What the model is shown fits its budgets, is numbered without a gap and *)
(* repeats no text, for any hits and any sizes of texts.                   *)
THEOREM EvidenceAlwaysFits == Spec => []EvidenceFits
<1>1. Init => EvidenceFits
  <2> SUFFICES ASSUME Init PROVE EvidenceFits
    OBVIOUS
  <2>1. DOMAIN sources = {}
    BY DEF Init, NoRanking
  <2>2. Cardinality(DOMAIN sources) = 0 /\ {sources[c] : c \in DOMAIN sources} = {}
    BY <2>1, FS_EmptySet
  <2>3. SumFunction([c \in DOMAIN sources |-> Header + Shown(c)]) = 0
    BY <2>1, SumOfNothing DEF SumFunction
  <2>4. 1..0 = {}
    OBVIOUS
  <2> QED BY <2>1, <2>2, <2>3, <2>4, BudgetAssumption DEF EvidenceFits
<1>2. ASSUME Inv, EvidenceFits, [Next]_vars PROVE EvidenceFits'
  <2>1. CASE BuildEvidence
    BY <1>2, <2>1, SourcesFit DEF Inv, BuildEvidence
  <2>2. CASE ~BuildEvidence
    <3>1. sources' = sources
      BY <1>2, <2>2 DEF Next, vars, Ask, Retrieve, IndexChanges, Draft, Validate, Verify,
                        Repair, RequestFails, Answered, Generate
    <3> QED BY <1>2, <3>1 DEF EvidenceFits, Shown, Used, Text, Parent
  <2> QED BY <2>1, <2>2
<1> QED BY <1>1, <1>2, Invariance, PTL DEF Spec

(* Where every candidate has room, deduplication loses no text: a chunk is *)
(* dropped for one of its text that stays, a summary for one it sums up.   *)
THEOREM NoTextIsLost == Spec => []TextsAreKept
<1>1. Init => AboveFloor
  BY DEF Init, AboveFloor, NoRanking
<1>2. Inv /\ AboveFloor => TextsAreKept
  <2> SUFFICES ASSUME TypeOK, Readiness, AboveFloor, DOMAIN Sources = Candidates,
                      NEW h \in DOMAIN hits
               PROVE  \E c \in Candidates :
                        \/ Text(c) = Text(h)
                        \/ ParentOf[c.pos] # 0 /\ Text(Parent(c)) = Text(h)
    BY DEF Inv, TextsAreKept
  <2>1. Filtered = DOMAIN hits /\ DOMAIN hits \subseteq Chunks
    BY DEF Filtered, AboveFloor, Readiness, InScope, TypeOK
  <2> DEFINE S == {d \in DOMAIN hits : Text(d) = Text(h)}
  <2>2. PICK c \in S : \A d \in S : ~EvidenceBefore(d, c)
    <3>1. S \in SUBSET DOMAIN hits /\ h \in S
      OBVIOUS
    <3> HIDE DEF S
    <3> QED BY <3>1, SomeHitIsFirst
  <2>3. c \in Unique /\ Text(c) = Text(h)
    BY <2>1, <2>2 DEF Unique
  <2>4. CASE c \in Candidates
    BY <2>3, <2>4
  <2>5. CASE c \notin Candidates
    <3>1. PICK d \in Unique : Parent(d) = c
      BY <2>3, <2>5 DEF Candidates
    <3>2. /\ d \in Chunks /\ c \in Chunks
      BY <2>1, <2>3 DEF Unique
    <3>3. c.pos = ParentOf[d.pos] /\ c.pos \in Positions /\ d.pos \in Positions
      BY <3>1, <3>2 DEF Parent, Chunks
    <3>4. ParentOf[d.pos] # 0 /\ RoleOf[d.pos] # "summary"
      BY <3>3, SummaryAssumption
    <3>5. d \in Candidates
      BY <3>1, <3>4 DEF Candidates
    <3> QED BY <2>3, <3>1, <3>4, <3>5
  <2> QED BY <2>4, <2>5
<1>3. Inv /\ AboveFloor /\ [Next]_vars => AboveFloor'
  BY NextAboveFloor DEF Inv
<1> QED BY <1>1, <1>2, <1>3, Invariance, PTL DEF Spec

----------------------------------------------------------------------------
(* The fusion of rankings *)

LEMMA ProductsRise ==
    ASSUME NEW i \in Nat, NEW j \in Nat, NEW k \in Nat, k > 0
    PROVE  /\ i <= j => k * i <= k * j
           /\ i < j => k * i < k * j
OBVIOUS

(* Who is nowhere behind, and somewhere ahead, has the higher score.       *)
LEMMA ScoresFollowRanks ==
    ASSUME NEW v \in Nat, NEW l \in Nat, NEW x \in Nat, NEW y \in Nat,
           x # 0 => v # 0 /\ v <= x,
           y # 0 => l # 0 /\ l <= y,
           x # 0 \/ y # 0, v # x \/ l # y
    PROVE  Higher(Rrf(v, l), Rrf(x, y))
<1> DEFINE a == RrfK + v  b == RrfK + l  c == RrfK + x  d == RrfK + y
<1>1. /\ a \in Nat /\ b \in Nat /\ c \in Nat /\ d \in Nat
      /\ a > 0 /\ b > 0 /\ c > 0 /\ d > 0
  BY AskAssumption
<1>2. /\ Rrf(v, l) = IF v = 0 THEN <<1, b>> ELSE IF l = 0 THEN <<1, a>> ELSE <<a + b, a * b>>
      /\ Rrf(x, y) = IF x = 0 THEN <<1, d>> ELSE IF y = 0 THEN <<1, c>> ELSE <<c + d, c * d>>
  <2>1. 2 * RrfK + v + l = a + b /\ 2 * RrfK + x + y = c + d
    BY AskAssumption
  <2> QED BY <2>1 DEF Rrf
<1>3. /\ x # 0 => a <= c
      /\ y # 0 => b <= d
      /\ v # x => a # c
      /\ l # y => b # d
  BY AskAssumption
<1> HIDE DEF a, b, c, d
<1>4. CASE x # 0 /\ y # 0
  <2>1. a * c \in Nat /\ b * d \in Nat /\ a * c > 0 /\ b * d > 0
    BY <1>1
  <2>2. (a * c) * b <= (a * c) * d /\ (b * d) * a <= (b * d) * c
    BY <1>1, <1>3, <1>4, <2>1, ProductsRise
  <2>3. (a * c) * b < (a * c) * d \/ (b * d) * a < (b * d) * c
    <3>1. a < c \/ b < d
      BY <1>1, <1>3, <1>4
    <3> QED BY <1>1, <2>1, <3>1, ProductsRise
  <2>4. /\ (a + b) * (c * d) = (a * c) * d + (b * d) * c
        /\ (c + d) * (a * b) = (a * c) * b + (b * d) * a
    BY <1>1
  <2>5. /\ (a * c) * d \in Nat /\ (b * d) * c \in Nat
        /\ (a * c) * b \in Nat /\ (b * d) * a \in Nat
    BY <1>1
  <2>6. (a + b) * (c * d) > (c + d) * (a * b)
    BY <2>2, <2>3, <2>4, <2>5
  <2> QED BY <1>2, <1>4, <2>6 DEF Higher
<1>5. CASE x = 0 /\ v # 0
  <2>1. a * b <= a * d /\ b * d > 0 /\ a * b \in Nat /\ a * d \in Nat /\ b * d \in Nat
    BY <1>1, <1>3, <1>5, ProductsRise
  <2>2. (a + b) * d = a * d + b * d
    BY <1>1
  <2>3. (a + b) * d > 1 * (a * b)
    BY <2>1, <2>2
  <2> QED BY <1>2, <1>5, <2>3 DEF Higher
<1>6. CASE x = 0 /\ v = 0
  <2>1. b < d
    BY <1>1, <1>3, <1>6
  <2> QED BY <1>1, <1>2, <1>6, <2>1 DEF Higher
<1>7. CASE y = 0 /\ l # 0
  <2>0. x # 0
    BY <1>7
  <2>1. b * a <= b * c /\ a * c > 0 /\ b * a \in Nat /\ b * c \in Nat /\ a * c \in Nat
    BY <1>1, <1>3, <2>0, ProductsRise
  <2>2. (a + b) * c = a * c + b * c /\ a * b = b * a
    BY <1>1
  <2>3. (a + b) * c > 1 * (a * b)
    BY <1>1, <2>1, <2>2
  <2> QED BY <1>2, <1>7, <2>0, <2>3 DEF Higher
<1>8. CASE y = 0 /\ l = 0
  <2>1. x # 0 /\ v # 0 /\ a < c
    BY <1>1, <1>3, <1>8
  <2> QED BY <1>1, <1>2, <1>8, <2>1 DEF Higher
<1> QED BY <1>4, <1>5, <1>6, <1>7, <1>8

(* The orders by similarity, by words and by fused scores.                 *)
SimilarOrder == {p \in Chunks \X Chunks : SimilarBefore(p[1], p[2])}
WordsOrder == {p \in Chunks \X Chunks : WordsBefore(p[1], p[2])}
FusedOrder == {p \in Chunks \X Chunks : FusedBefore(p[1], p[2])}

LEMMA ScoresAreNumbers ==
    ASSUME TypeOK, NEW c \in Chunks PROVE Sim(c) \in Int /\ Words(c) \in Int
<1>1. ask.query \in Queries
  BY AskAssumption DEF TypeOK
<1>2. c.doc \in Docs /\ c.pos \in Positions
  BY DEF Chunks
<1>3. /\ Similarity[ask.query][c.doc][c.pos] \in -100..100
      /\ LexicalScore[ask.query][c.doc][c.pos] \in Nat
  BY <1>1, <1>2, ScoreAssumption
<1> QED BY <1>3 DEF Sim, Words

LEMMA SearchesAreOrdered ==
    ASSUME TypeOK PROVE Orders(SimilarOrder, Chunks) /\ Orders(WordsOrder, Chunks)
<1> DEFINE s == [c \in Chunks |-> <<-Sim(c), c.pos, c.doc, c.run>>]
           w == [c \in Chunks |-> <<-Words(c), c.pos, c.doc, c.run>>]
<1>1. s \in [Chunks -> [1..4 -> Int]] /\ w \in [Chunks -> [1..4 -> Int]]
  BY ScoresAreNumbers, ChunksAreNumbered
<1>2. \A c, d \in Chunks : s[c] = s[d] \/ w[c] = w[d] => c = d
  BY DEF Chunks
<1>3. \A c, d \in Chunks : /\ <<c, d>> \in SimilarOrder <=> Precedes(s[c], s[d])
                           /\ <<c, d>> \in WordsOrder <=> Precedes(w[c], w[d])
  BY DEF SimilarOrder, WordsOrder, SimilarBefore, WordsBefore
<1> HIDE DEF s, w
<1>4. Orders(SimilarOrder, Chunks)
  BY <1>1, <1>2, <1>3, KeysMakeOrders
<1>5. Orders(WordsOrder, Chunks)
  BY <1>1, <1>2, <1>3, KeysMakeOrders
<1> QED BY <1>4, <1>5

LEMMA FusionIsOrdered == ASSUME TypeOK PROVE Orders(FusedOrder, Chunks)
<1> DEFINE H == {p \in Chunks \X Chunks : Higher(FusedScore(p[1]), FusedScore(p[2]))}
           P == {p \in Chunks \X Chunks : Precedes(TieKey(p[1]), TieKey(p[2]))}
           key == [c \in Chunks |-> TieKey(c)]
<1>1. key \in [Chunks -> [1..6 -> Int]]
  <2>1. ASSUME NEW c \in Chunks PROVE TieKey(c) \in [1..6 -> Int]
    <3> DEFINE v == RankIn(vec, c, Missing)  l == RankIn(lex, c, Missing)
    <3>1. v \in Nat /\ l \in Nat
      BY DEF TypeOK, RankIn, Missing
    <3>2. c.doc \in Nat /\ c.pos \in Nat /\ c.run \in Nat
      BY ChunksAreNumbered
    <3>3. TieKey(c) = <<IF v < l THEN v ELSE l, v, l, c.doc, c.run, c.pos>>
      BY DEF TieKey
    <3> HIDE DEF v, l
    <3> QED BY <3>1, <3>2, <3>3
  <2> QED BY <2>1
<1>2. \A c, d \in Chunks : key[c] = key[d] => c = d
  BY DEF Chunks, TieKey
<1>3. \A c, d \in Chunks :
          /\ <<c, d>> \in P <=> Precedes(key[c], key[d])
          /\ <<c, d>> \in H <=> Higher(FusedScore(c), FusedScore(d))
          /\ <<c, d>> \in FusedOrder <=> \/ <<c, d>> \in H
                                         \/ <<d, c>> \notin H /\ <<c, d>> \in P
  BY DEF FusedOrder, FusedBefore
<1> HIDE DEF key, H, P
<1>4. Orders(P, Chunks)
  BY <1>1, <1>2, <1>3, KeysMakeOrders
<1>5. /\ \A c, d \in Chunks : <<c, d>> \in H => <<d, c>> \notin H
      /\ \A c, d, e \in Chunks : <<c, d>> \notin H /\ <<d, e>> \notin H => <<c, e>> \notin H
  BY <1>3, FusedScoreIsFraction, HigherIsAsymmetric, NotHigherIsTransitive
<1> QED BY <1>3, <1>4, <1>5, TiesAreBroken

(* The limits of a search are those of the request. *)
LEMMA DepthsAreBounded ==
    ASSUME TypeOK PROVE SearchK \in Nat /\ CandidateK \in 1..50
<1>1. ask.topK \in 1..50 /\ Depth \in 1..50
  BY AskAssumption DEF TypeOK
<1>2. SearchK \in 1..50
  BY <1>1 DEF SearchK
<1> QED BY <1>2 DEF CandidateK

(* No two chunks share a rank, and ranks are below what stands for none.   *)
RankedOnce(ranking) ==
    /\ \A c \in DOMAIN ranking : ranking[c] <= 50
    /\ \A c, d \in DOMAIN ranking : ranking[c] = ranking[d] => c = d

LEMMA PlacesAreRanks ==
    ASSUME NEW R, Orders(R, Chunks), NEW S \in SUBSET Chunks, NEW k \in 1..50,
           NEW ranking,
           ranking = [c \in {d \in S : Place(R, S, d) <= k} |-> Place(R, S, c)]
    PROVE  RankedOnce(ranking)
<1>1. IsFiniteSet(S) /\ Orders(R, S)
  BY ChunksFinite, FS_Subset, OrderOfPart
<1>2. Cardinality(S) \in Nat
  BY SizesAreNaturals
<1>3. \A c \in DOMAIN ranking : c \in S /\ ranking[c] = Place(R, S, c) /\ ranking[c] <= k
  OBVIOUS
<1>4. \A c \in S : Place(R, S, c) \in 1..Cardinality(S)
  BY <1>1, PlacesRise
<1>5. ASSUME NEW c \in DOMAIN ranking, NEW d \in DOMAIN ranking, ranking[c] = ranking[d]
      PROVE  c = d
  <2>1. Place(R, S, c) = Place(R, S, d) /\ c \in S /\ d \in S
    BY <1>3, <1>5
  <2>2. <<c, d>> \notin R /\ <<d, c>> \notin R
    BY <1>1, <1>2, <1>4, <2>1, PlacesRise
  <2> QED BY <1>1, <2>1, <2>2 DEF Orders
<1>6. \A c \in DOMAIN ranking : ranking[c] <= 50
  BY <1>2, <1>3, <1>4
<1> QED BY <1>5, <1>6 DEF RankedOnce

(* What the loop over the fused scores keeps. *)
FirstFused == {c \in Fusable : Place(FusedOrder, Fusable, c) <= SearchK}

(* The rankings rank each chunk once, chunks are scored because of their   *)
(* words, and until they are judged anew hits are the first of the fusion. *)
Fusing ==
    /\ RankedOnce(vec) /\ RankedOnce(lex)
    /\ scored \subseteq DOMAIN lex
    /\ phase \in {"idle", "vector", "lexical"} => scored = {}
    /\ phase = "rerank" => Reranks
    /\ phase \in {"rerank", "evidence"} /\ (phase = "evidence" => ~Reranks) =>
          hits = [c \in FirstFused |-> FusedScore(c)]

LEMMA InitFusing == Init => Fusing
BY DEF Init, Fusing, RankedOnce, NoRanking

LEMMA FusableAreChunks == ASSUME TypeOK PROVE Fusable \subseteq Chunks
BY DEF TypeOK, Fusable

(* The rankings of the two searches rank each chunk once. *)
LEMMA SearchesRankOnce ==
    ASSUME TypeOK
    PROVE  /\ SearchSimilar => RankedOnce(vec')
           /\ SearchLexical => RankedOnce(lex')
<1>1. ASSUME SearchSimilar PROVE RankedOnce(vec')
  <2> DEFINE S == {c \in Chunks : Ready(c) /\ Embedded(c) /\ InScope(c) /\ Sim(c) >= ask.floor}
  <2>1. vec' = Top(S, SimilarBefore, CandidateK)
    BY <1>1 DEF SearchSimilar
  <2>2. S \in SUBSET Chunks
    OBVIOUS
  <2> HIDE DEF S
  <2>3. \A c \in S : Rank(S, SimilarBefore, c) = Place(SimilarOrder, S, c)
    BY <2>2 DEF Rank, Place, Under, SimilarOrder
  <2>4. vec' = [c \in {d \in S : Place(SimilarOrder, S, d) <= CandidateK} |-> Place(SimilarOrder, S, c)]
    BY <2>1, <2>3 DEF Top
  <2>5. Orders(SimilarOrder, Chunks) /\ CandidateK \in 1..50
    BY SearchesAreOrdered, DepthsAreBounded
  <2> HIDE DEF SimilarOrder, CandidateK
  <2> QED BY <2>2, <2>4, <2>5, PlacesAreRanks
<1>2. ASSUME SearchLexical PROVE RankedOnce(lex')
  <2> DEFINE S == {c \in Chunks : Ready(c) /\ InScope(c) /\ Words(c) > 0}
  <2>1. lex' = Top(S, WordsBefore, CandidateK)
    BY <1>2 DEF SearchLexical
  <2>2. S \in SUBSET Chunks
    OBVIOUS
  <2> HIDE DEF S
  <2>3. \A c \in S : Rank(S, WordsBefore, c) = Place(WordsOrder, S, c)
    BY <2>2 DEF Rank, Place, Under, WordsOrder
  <2>4. lex' = [c \in {d \in S : Place(WordsOrder, S, d) <= CandidateK} |-> Place(WordsOrder, S, c)]
    BY <2>1, <2>3 DEF Top
  <2>5. Orders(WordsOrder, Chunks) /\ CandidateK \in 1..50
    BY SearchesAreOrdered, DepthsAreBounded
  <2> QED BY <2>2, <2>4, <2>5, PlacesAreRanks
<1> QED BY <1>1, <1>2

LEMMA FuseKeepsFirst ==
    ASSUME TypeOK, Fuse PROVE hits' = [c \in FirstFused |-> FusedScore(c)]
<1>1. Fusable \subseteq Chunks
  BY FusableAreChunks
<1>2. \A c \in Fusable : Rank(Fusable, FusedBefore, c) = Place(FusedOrder, Fusable, c)
  BY <1>1 DEF Rank, Place, Under, FusedOrder
<1>3. DOMAIN Top(Fusable, FusedBefore, SearchK) = FirstFused
  BY <1>2 DEF Top, FirstFused
<1> QED BY <1>3 DEF Fuse

LEMMA FusionIsKept ==
    ASSUME UNCHANGED <<ask, reranker, vec, lex, scored>>
    PROVE  /\ FirstFused' = FirstFused /\ Reranks' = Reranks
           /\ [c \in FirstFused |-> FusedScore(c)]' = [c \in FirstFused |-> FusedScore(c)]
BY DEF FirstFused, Fusable, FusedOrder, FusedBefore, FusedScore, TieKey, RankIn, Sim,
       SearchK, Reranks

LEMMA NextFusing == ASSUME TypeOK, Readiness, Fusing, [Next]_vars PROVE Fusing'
<1>1. CASE Ask \/ IndexChanges
  <2>1. UNCHANGED <<vec, lex, scored>> /\ phase' \in {"vector", "lexical", "score"}
        /\ (phase' \in {"vector", "lexical"} => scored = {})
    BY <1>1 DEF Ask, IndexChanges, OthersCommit, ClaimDocument, FinishProcessing, MarkFailed,
                RebuildEmbeddings, DeleteDocument, Commit, rankings, SearchPhases, Fusing
  <2> QED BY <2>1 DEF Fusing
<1>2. CASE SearchSimilar
  <2>1. phase = "vector" /\ phase' = "lexical" /\ UNCHANGED <<lex, scored>>
    BY <1>2 DEF SearchSimilar
  <2> QED BY <1>2, <2>1, SearchesRankOnce DEF Fusing
<1>3. CASE SearchLexical
  <2>1. phase = "lexical" /\ phase' = "score" /\ UNCHANGED <<vec, scored>>
    BY <1>3 DEF SearchLexical
  <2> QED BY <1>3, <2>1, SearchesRankOnce DEF Fusing
<1>4. CASE ScoreSpecific
  <2>1. phase' = "fuse" /\ UNCHANGED <<vec, lex>> /\ scored' \subseteq DOMAIN lex
    BY <1>4 DEF ScoreSpecific
  <2> QED BY <2>1 DEF Fusing
<1>5. CASE Fuse
  <2>1. /\ UNCHANGED <<ask, reranker, vec, lex, scored>> /\ phase' \in {"rerank", "evidence"}
        /\ phase' = "rerank" => Reranks
    BY <1>5 DEF Fuse, rankings
  <2>2. hits' = [c \in FirstFused |-> FusedScore(c)]
    BY <1>5, FuseKeepsFirst
  <2> QED BY <2>1, <2>2, FusionIsKept DEF Fusing
<1>6. CASE Rerank
  <2>1. phase = "rerank" /\ phase' = "evidence" /\ UNCHANGED <<ask, reranker, vec, lex, scored>>
    BY <1>6 DEF Rerank, rankings
  <2> QED BY <2>1, FusionIsKept DEF Fusing
<1>7. CASE BuildEvidence
  BY <1>7 DEF BuildEvidence, Fusing, RankedOnce, NoRanking
<1>8. CASE Draft \/ Validate \/ Verify \/ Repair \/ RequestFails
  <2>1. UNCHANGED <<vec, lex, scored>>
    BY <1>8 DEF Draft, Validate, Verify, Repair, RequestFails, Generate, rankings
  <2>2. phase' \in {"validate", "verify", "repair", "done"}
    BY <1>8 DEF Draft, Validate, Verify, Repair, RequestFails, Generate, RejectDraft, Finish
  <2> QED BY <2>1, <2>2 DEF Fusing
<1>9. CASE Answered \/ UNCHANGED vars
  <2>1. UNCHANGED <<phase, hits, ask, reranker, vec, lex, scored>>
    BY <1>9 DEF Answered, vars, retrieval
  <2> QED BY <2>1, FusionIsKept DEF Fusing
<1> QED BY <1>1, <1>2, <1>3, <1>4, <1>5, <1>6, <1>7, <1>8, <1>9 DEF Next, Retrieve

(* A chunk that is nowhere behind another one is scored above it.          *)
LEMMA AheadIsHigher ==
    ASSUME TypeOK, Fusing, NEW c \in Fusable, NEW d \in Fusable, Ahead(c, d)
    PROVE  Higher(FusedScore(c), FusedScore(d))
<1> DEFINE v == RankIn(vec, c, 0)  l == RankIn(lex, c, 0)
           x == RankIn(vec, d, 0)  y == RankIn(lex, d, 0)
<1>1. /\ v = IF c \in DOMAIN vec THEN vec[c] ELSE 0
      /\ l = IF c \in DOMAIN lex THEN lex[c] ELSE 0
      /\ x = IF d \in DOMAIN vec THEN vec[d] ELSE 0
      /\ y = IF d \in DOMAIN lex THEN lex[d] ELSE 0
  BY DEF RankIn
<1>2. /\ \A e \in DOMAIN vec : vec[e] \in Nat \ {0} /\ vec[e] <= 50
      /\ \A e \in DOMAIN lex : lex[e] \in Nat \ {0} /\ lex[e] <= 50
  BY DEF TypeOK, Fusing, RankedOnce
<1>3. /\ d \in DOMAIN vec => c \in DOMAIN vec /\ vec[c] <= vec[d]
      /\ d \in DOMAIN lex => c \in DOMAIN lex /\ lex[c] <= lex[d]
      /\ c # d
  BY <1>2 DEF Ahead, RankIn, Missing
<1>4. c \in DOMAIN vec \cup DOMAIN lex /\ d \in DOMAIN vec \cup DOMAIN lex
  BY DEF Fusable, Fusing
<1>5. v \in Nat /\ l \in Nat /\ x \in Nat /\ y \in Nat
  BY <1>1, <1>2
<1>6. (x # 0 => v # 0 /\ v <= x) /\ (y # 0 => l # 0 /\ l <= y)
  BY <1>1, <1>2, <1>3
<1>7. x # 0 \/ y # 0
  BY <1>1, <1>2, <1>4
<1>8. v # x \/ l # y
  <2>1. c \in DOMAIN vec /\ v = x => FALSE
    BY <1>1, <1>2, <1>3 DEF Fusing, RankedOnce
  <2>2. c \in DOMAIN lex /\ l = y => FALSE
    BY <1>1, <1>2, <1>3 DEF Fusing, RankedOnce
  <2> QED BY <1>4, <2>1, <2>2
<1> HIDE DEF v, l, x, y
<1>9. Higher(Rrf(v, l), Rrf(x, y))
  BY <1>5, <1>6, <1>7, <1>8, ScoresFollowRanks
<1> QED BY <1>9 DEF FusedScore, v, l, x, y

(* Fusion keeps as many as it may and never one for another that both      *)
(* rankings put before it, whatever the rankings, k and depth.             *)
THEOREM FusionFollowsRankings == Spec => []FusionRespectsRankings
<1>1. TypeOK /\ Fusing => FusionRespectsRankings
  <2> SUFFICES ASSUME TypeOK, Fusing, hits = [c \in FirstFused |-> FusedScore(c)]
               PROVE  /\ Cardinality(DOMAIN hits) = Capped(Cardinality(Fusable), SearchK)
                      /\ \A c \in Fusable, d \in DOMAIN hits :
                            Ahead(c, d) => c \in DOMAIN hits /\ Higher(hits[c], hits[d])
    BY DEF Fusing, FusionRespectsRankings
  <2>1. IsFiniteSet(Fusable) /\ Orders(FusedOrder, Fusable) /\ SearchK \in Nat
    <3>1. Fusable \in SUBSET Chunks
      BY FusableAreChunks
    <3>2. IsFiniteSet(Fusable)
      BY <3>1, ChunksFinite, FS_Subset
    <3>3. Orders(FusedOrder, Fusable)
      BY <3>1, FusionIsOrdered, OrderOfPart
    <3> QED BY <3>2, <3>3, DepthsAreBounded
  <2>2. Cardinality(DOMAIN hits) = Capped(Cardinality(Fusable), SearchK)
    <3>1. DOMAIN hits = {c \in Fusable : Place(FusedOrder, Fusable, c) <= SearchK}
      BY DEF FirstFused
    <3> QED BY <2>1, <3>1, FirstOnesCounted DEF Capped
  <2>3. ASSUME NEW c \in Fusable, NEW d \in DOMAIN hits, Ahead(c, d)
        PROVE  c \in DOMAIN hits /\ Higher(hits[c], hits[d])
    <3>1. d \in Fusable /\ Place(FusedOrder, Fusable, d) <= SearchK
      BY DEF FirstFused
    <3>2. Higher(FusedScore(c), FusedScore(d))
      BY <2>3, <3>1, AheadIsHigher
    <3>3. <<c, d>> \in FusedOrder
      BY <3>1, <3>2, FusableAreChunks DEF FusedOrder, FusedBefore
    <3>4. Place(FusedOrder, Fusable, c) < Place(FusedOrder, Fusable, d)
      BY <2>1, <3>1, <3>3, PlacesRise
    <3>5. Cardinality(Fusable) \in Nat
      BY <2>1, FS_CardinalityType
    <3>6. Place(FusedOrder, Fusable, c) \in Int /\ Place(FusedOrder, Fusable, d) \in Int
      BY <2>1, <3>1, <3>5, PlacesRise
    <3>7. c \in FirstFused
      BY <2>1, <3>1, <3>4, <3>6 DEF FirstFused
    <3> QED BY <3>2, <3>7
  <2> QED BY <2>2, <2>3
<1>2. Inv /\ Fusing /\ [Next]_vars => Fusing'
  BY NextFusing DEF Inv
<1>3. Inv => TypeOK
  BY DEF Inv
<1> QED BY <1>1, <1>2, <1>3, InitFusing, Invariance, PTL DEF Spec

----------------------------------------------------------------------------
(* The index and its catalog.  What others commit during a search is what   *)
(* DocumentCatalog lets them do, and all of it.                             *)

(* The status, the index and the models of the documents, as a catalog.     *)
Statuses == [d \in Docs |-> index[d].status]
Indexed == {d \in Docs : index[d].run > 0}
Embeddings == [d \in Docs |-> index[d].models]

(* What a commit leaves of the catalog of the documents.                    *)
LEMMA CommitIsListed ==
    ASSUME TypeOK, NEW d \in Docs, NEW state \in IndexStates, Commit(d, state)
    PROVE  /\ Statuses' = [Statuses EXCEPT ![d] = state.status]
           /\ Embeddings' = [Embeddings EXCEPT ![d] = state.models]
           /\ state.run > 0 => Indexed' = Indexed \cup {d}
           /\ state.run = 0 => Indexed' = Indexed \ {d}
           /\ state.run = index[d].run => Indexed' = Indexed
<1>1. \A e \in Docs : index'[e] = IF e = d THEN state ELSE index[e]
  BY DEF TypeOK, Commit
<1>2. state.run \in Nat
  BY IndexAssumption DEF IndexStates
<1>3. Statuses' = [Statuses EXCEPT ![d] = state.status]
  BY <1>1 DEF Statuses
<1>4. Embeddings' = [Embeddings EXCEPT ![d] = state.models]
  BY <1>1 DEF Embeddings
<1>5. \A e \in Docs : e \in Indexed' <=> IF e = d THEN state.run > 0 ELSE e \in Indexed
  BY <1>1 DEF Indexed
<1>6. Indexed \subseteq Docs /\ Indexed' \subseteq Docs /\ (d \in Indexed <=> index[d].run > 0)
  BY DEF Indexed
<1>7. /\ state.run > 0 => Indexed' = Indexed \cup {d}
      /\ state.run = 0 => Indexed' = Indexed \ {d}
      /\ state.run = index[d].run => Indexed' = Indexed
  BY <1>2, <1>5, <1>6
<1> QED
  BY <1>3, <1>4, <1>7

(* The entry of one document.                                               *)
LEMMA EntryIsListed ==
    ASSUME TypeOK, NEW d \in Docs
    PROVE  /\ index[d] \in IndexStates /\ index[d].run \in 0..MaxRuns /\ 0..MaxRuns \subseteq Nat
           /\ Statuses[d] = index[d].status /\ Embeddings[d] = index[d].models
           /\ d \in Indexed <=> index[d].run > 0
BY IndexAssumption DEF TypeOK, IndexStates, Statuses, Embeddings, Indexed

(* A commit of another request during a search is a step of the catalog.    *)
LEMMA CommitsFollowCatalog == ASSUME TypeOK, OthersCommit PROVE Catalog!Next
<1> PICK d \in Docs : \/ ClaimDocument(d) \/ FinishProcessing(d) \/ MarkFailed(d)
                      \/ RebuildEmbeddings(d) \/ DeleteDocument(d)
  BY DEF OthersCommit
<1>1. /\ index[d] \in IndexStates /\ index[d].run \in 0..MaxRuns /\ 0..MaxRuns \subseteq Nat
      /\ Statuses[d] = index[d].status /\ Embeddings[d] = index[d].models
      /\ d \in Indexed <=> index[d].run > 0
  BY EntryIsListed
<1>2. CASE ClaimDocument(d)
  <2>1. PICK state \in IndexStates :
            /\ state.status = "processing" /\ state.run = index[d].run
            /\ state.models = index[d].models /\ Commit(d, state)
    BY <1>1, <1>2 DEF IndexStates, ClaimDocument
  <2>2. /\ Statuses' = [Statuses EXCEPT ![d] = "processing"]
        /\ Embeddings' = [Embeddings EXCEPT ![d] = Embeddings[d]] /\ Indexed' = Indexed
    BY <1>1, <2>1, CommitIsListed
  <2>3. Embeddings' = Embeddings /\ Statuses[d] # "absent"
    BY <1>1, <1>2, <2>2 DEF Embeddings, ClaimDocument
  <2>4. Catalog!Claim(d)
    BY <2>2, <2>3 DEF Catalog!Claim, Catalog!Listed, Catalog!Becomes, Statuses, Embeddings,
        Indexed
  <2> QED BY <2>4 DEF Catalog!Next
<1>3. CASE FinishProcessing(d)
  <2>1. PICK m \in Models, status \in {"ready", index[d].status} :
            /\ status = "ready" \/ index[d].run > 0
            /\ Commit(d, [status |-> status, run |-> index[d].run + 1, models |-> {m}])
    BY <1>3 DEF FinishProcessing
  <2>2. PICK state \in IndexStates :
            /\ state.status = status /\ state.run = index[d].run + 1
            /\ state.models = {m} /\ Commit(d, state)
    <3>1. [status |-> status, run |-> index[d].run + 1, models |-> {m}] \in IndexStates
      BY <1>1, <1>3, IndexAssumption DEF IndexStates, FinishProcessing
    <3> QED BY <2>1, <3>1
  <2>3. /\ Statuses' = [Statuses EXCEPT ![d] = status]
        /\ Embeddings' = [Embeddings EXCEPT ![d] = {m}] /\ Indexed' = Indexed \cup {d}
    BY <1>1, <2>2, CommitIsListed
  <2>4. Statuses[d] \in {"processing", "ready", "failed"}
    BY <1>1, <1>3 DEF FinishProcessing, IndexStates
  <2>5. \/ Statuses' = [Statuses EXCEPT ![d] = "ready"]
        \/ Statuses' = Statuses /\ d \in Indexed
    <3>1. CASE status = "ready"
      BY <2>3, <3>1
    <3>2. CASE status # "ready"
      BY <1>1, <2>1, <2>3, <3>2 DEF Statuses
    <3> QED BY <3>1, <3>2
  <2>6. {m} \in SUBSET Models
    OBVIOUS
  <2>7. Catalog!Index(d)
    BY <2>3, <2>4, <2>5, <2>6 DEF Catalog!Index, Catalog!Claimed, Catalog!Becomes, Statuses,
        Embeddings, Indexed
  <2> QED BY <2>7 DEF Catalog!Next
<1>4. CASE MarkFailed(d)
  <2>1. PICK state \in IndexStates :
            /\ state.status = "failed" /\ state.run = index[d].run
            /\ state.models = index[d].models /\ Commit(d, state)
    BY <1>1, <1>4 DEF IndexStates, MarkFailed
  <2>2. /\ Statuses' = [Statuses EXCEPT ![d] = "failed"]
        /\ Embeddings' = [Embeddings EXCEPT ![d] = Embeddings[d]] /\ Indexed' = Indexed
    BY <1>1, <2>1, CommitIsListed
  <2>3. Embeddings' = Embeddings /\ Statuses[d] # "absent"
    BY <1>1, <1>4, <2>2 DEF Embeddings, MarkFailed
  <2>4. Catalog!Fail(d)
    BY <2>2, <2>3 DEF Catalog!Fail, Catalog!Listed, Catalog!Becomes, Statuses, Embeddings,
        Indexed
  <2> QED BY <2>4 DEF Catalog!Next
<1>5. CASE RebuildEmbeddings(d)
  <2>1. PICK m \in Models : Commit(d, [index[d] EXCEPT !.models = @ \cup {m}])
    BY <1>5 DEF RebuildEmbeddings
  <2>2. PICK state \in IndexStates :
            /\ state.status = index[d].status /\ state.run = index[d].run
            /\ state.models = index[d].models \cup {m} /\ Commit(d, state)
    BY <1>1, <2>1 DEF IndexStates
  <2>3. /\ Statuses' = [Statuses EXCEPT ![d] = Statuses[d]]
        /\ Embeddings' = [Embeddings EXCEPT ![d] = Embeddings[d] \cup {m}]
        /\ Indexed' = Indexed /\ d \in Indexed
    BY <1>1, <1>5, <2>2, CommitIsListed DEF RebuildEmbeddings
  <2>4. Statuses' = Statuses
    BY <2>3 DEF Statuses
  <2>5. Catalog!Embed(d)
    BY <2>3, <2>4 DEF Catalog!Embed, Statuses, Embeddings, Indexed
  <2> QED BY <2>5 DEF Catalog!Next
<1>6. CASE DeleteDocument(d)
  <2>1. /\ Gone \in IndexStates /\ Gone.status = "absent" /\ Gone.run = 0
        /\ Gone.models = {} /\ Commit(d, Gone)
    BY <1>6, IndexAssumption DEF Gone, IndexStates, DeleteDocument
  <2>2. /\ Statuses' = [Statuses EXCEPT ![d] = "absent"] /\ Statuses[d] # "absent"
        /\ Embeddings' = [Embeddings EXCEPT ![d] = {}] /\ Indexed' = Indexed \ {d}
    BY <1>1, <1>6, <2>1, CommitIsListed DEF DeleteDocument
  <2>3. Catalog!Delete(d)
    BY <2>2 DEF Catalog!Delete, Catalog!Listed, Catalog!Becomes, Statuses, Embeddings, Indexed
  <2> QED BY <2>3 DEF Catalog!Next
<1> QED BY <1>2, <1>3, <1>4, <1>5, <1>6

(* The index a search reads changes as DocumentCatalog says, which          *)
(* DocumentLifecycle implements: nothing is assumed of other requests that  *)
(* they do not do.                                                          *)
THEOREM SearchesSeeTheCatalog == Spec => [][Catalog!Next]_(Catalog!vars)
<1>1. TypeOK /\ [Next]_vars => [Catalog!Next]_(Catalog!vars)
  <2> SUFFICES ASSUME TypeOK, [Next]_vars PROVE Catalog!Next \/ UNCHANGED index
    BY DEF Catalog!vars
  <2>1. CASE IndexChanges
    BY <2>1, CommitsFollowCatalog DEF IndexChanges
  <2>2. CASE Retrieve
    BY <2>2 DEF Retrieve, SearchSimilar, SearchLexical, ScoreSpecific, Fuse, Rerank, rows
  <2>3. CASE \/ Ask \/ BuildEvidence \/ Draft \/ Validate \/ Verify \/ Repair
             \/ RequestFails \/ Answered \/ UNCHANGED vars
    BY <2>3 DEF Ask, BuildEvidence, Draft, Validate, Verify, Repair, RequestFails,
        Generate, Answered, vars, retrieval, rows
  <2> QED BY <2>1, <2>2, <2>3 DEF Next
<1> QED BY <1>1, TypeCorrect, PTL DEF Spec

(* And nothing they do is left out: whatever the catalog lets happen to a   *)
(* document during a search is a commit the search is checked against, with *)
(* new rows after a run, the same rows otherwise, none after a deletion.    *)
THEOREM NoCommitIsLeftOut ==
    ASSUME TypeOK, NEW d \in Docs, NEW state \in IndexStates, Commit(d, state),
           \/ /\ Catalog!Claim(d) \/ Catalog!Fail(d) \/ Catalog!Embed(d)
              /\ state.run = index[d].run
           \/ Catalog!Index(d) /\ state.run = index[d].run + 1
           \/ Catalog!Delete(d) /\ state.run = 0
    PROVE  OthersCommit \/ UNCHANGED index
<1> DEFINE old == index[d]
<1>1. old \in IndexStates /\ index' = [index EXCEPT ![d] = state]
  BY DEF TypeOK, Commit
<1>2. index \in [Docs -> IndexStates]
  BY DEF TypeOK
<1>3. state = old => UNCHANGED index
  BY <1>1, <1>2
<1>4. \A x, y \in IndexStates :
        x.status = y.status /\ x.run = y.run /\ x.models = y.models => x = y
  BY DEF IndexStates
<1>5. /\ state.status = [e \in Docs |-> index'[e].status][d]
      /\ state.models = [e \in Docs |-> index'[e].models][d]
  BY <1>1, <1>2
<1>6. CASE Catalog!Claim(d) /\ state.run = old.run
  <2>1. state.status = "processing" /\ state.models = old.models /\ old.status # "absent"
    BY <1>5, <1>6 DEF Catalog!Claim, Catalog!Becomes, Catalog!Listed
  <2>2. state = [old EXCEPT !.status = "processing"]
    BY <1>1, <1>6, <2>1 DEF IndexStates
  <2>3. CASE old.status = "processing"
    BY <1>1, <1>3, <1>4, <1>6, <2>1, <2>3
  <2>4. CASE old.status # "processing"
    <3>1. ClaimDocument(d)
      BY <1>1, <2>1, <2>2, <2>4 DEF ClaimDocument, IndexStates
    <3> QED BY <3>1 DEF OthersCommit
  <2> QED BY <2>3, <2>4
<1>7. CASE Catalog!Fail(d) /\ state.run = old.run
  <2>1. /\ state.status = "failed" /\ state.models = old.models
        /\ old.status # "absent"
    BY <1>5, <1>7 DEF Catalog!Fail, Catalog!Becomes, Catalog!Listed
  <2>2. state = [old EXCEPT !.status = "failed"]
    BY <1>1, <1>7, <2>1 DEF IndexStates
  <2>3. CASE old.status = "failed"
    BY <1>1, <1>3, <1>4, <1>7, <2>1, <2>3
  <2>4. CASE old.status # "failed"
    <3>1. MarkFailed(d)
      BY <2>1, <2>2, <2>4 DEF MarkFailed
    <3> QED BY <3>1 DEF OthersCommit
  <2> QED BY <2>3, <2>4
<1>8. CASE Catalog!Embed(d) /\ state.run = old.run
  <2>1. PICK m \in Models : state.models = old.models \cup {m}
    BY <1>5, <1>8 DEF Catalog!Embed
  <2>2. state.status = old.status /\ old.run > 0
    BY <1>5, <1>8 DEF Catalog!Embed
  <2>3. state = [old EXCEPT !.models = @ \cup {m}]
    BY <1>1, <1>8, <2>1, <2>2 DEF IndexStates
  <2>4. CASE m \in old.models
    <3>1. state.models = old.models
      BY <2>1, <2>4
    <3> QED BY <1>1, <1>3, <1>4, <1>8, <2>2, <3>1
  <2>5. CASE m \notin old.models
    <3>1. RebuildEmbeddings(d)
      BY <2>2, <2>3, <2>5 DEF RebuildEmbeddings
    <3> QED BY <3>1 DEF OthersCommit
  <2> QED BY <2>4, <2>5
<1>9. CASE Catalog!Index(d) /\ state.run = old.run + 1
  <2>1. /\ old.status \in {"processing", "ready", "failed"}
        /\ \/ state.status = "ready"
           \/ state.status = old.status /\ old.run > 0
        /\ \E m \in Models : state.models = {m}
    BY <1>5, <1>9 DEF Catalog!Index, Catalog!Becomes, Catalog!Claimed
  <2>2. PICK m \in Models : state.models = {m}
    BY <2>1
  <2>3. state = [status |-> state.status, run |-> old.run + 1, models |-> {m}]
    BY <1>9, <2>2 DEF IndexStates
  <2>4. old.run < MaxRuns
    BY <1>1, <1>9, IndexAssumption DEF IndexStates
  <2>5. FinishProcessing(d)
    BY <2>1, <2>3, <2>4 DEF FinishProcessing
  <2> QED BY <2>5 DEF OthersCommit
<1>10. CASE Catalog!Delete(d) /\ state.run = 0
  <2>1. state.status = "absent" /\ state.models = {} /\ old.status # "absent"
    BY <1>5, <1>10 DEF Catalog!Delete, Catalog!Becomes, Catalog!Listed
  <2>2. state = Gone
    BY <1>10, <2>1 DEF Gone, IndexStates
  <2>3. DeleteDocument(d)
    BY <2>1, <2>2 DEF DeleteDocument
  <2> QED BY <2>3 DEF OthersCommit
<1> QED BY <1>6, <1>7, <1>8, <1>9, <1>10
=============================================================================

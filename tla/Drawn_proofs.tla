---------------------------- MODULE Drawn_proofs ----------------------------
(***************************************************************************)
(* Proofs about what is drawn from texts: analyses of laws, relations      *)
(* between circulars, consolidations of chains of amendments, and          *)
(* checklists (Documents).  Each part is proved of its own steps.          *)
(***************************************************************************)
EXTENDS Documents, SequenceTheorems, FiniteSetTheorems, WellFoundedInduction, TLAPS

-----------------------------------------------------------------------------
(***************************************************************************)
(* Recursion over the numbers: a set of them has a least, one that is      *)
(* bounded has a greatest, and what is made step by step can be made.      *)
(***************************************************************************)
LEMMA Least ==
  ASSUME NEW T \in SUBSET Nat, T # {}
  PROVE  \E m \in T : \A k \in T : m <= k
<1>1. \E x \in T : \A y \in T : ~ (<<y, x>> \in OpToRel(<,Nat))
  <2>1. IsWellFoundedOn(OpToRel(<,Nat), Nat)
    BY NatLessThanWellFounded
  <2> DEFINE R == OpToRel(<,Nat)
  <2> HIDE DEF R
  <2>2. IsWellFoundedOn(R, Nat)
    BY <2>1 DEF R
  <2>3. \E x \in T : \A y \in T : ~ (<<y, x>> \in R)
    BY <2>2, WFMin
  <2>4. QED
    BY <2>3 DEF R
<1>2. PICK x \in T : \A y \in T : ~ (<<y, x>> \in OpToRel(<,Nat))
  BY <1>1
<1>3. \A y \in T : x <= y
  <2> TAKE y \in T
  <2>1. ~(y < x)
    BY <1>2 DEF OpToRel
  <2>2. QED
    BY <2>1
<1>4. QED
  BY <1>3

LEMMA Greatest ==
  ASSUME NEW n \in Nat, NEW T \in SUBSET (0..n), T # {}
  PROVE  \E m \in T : \A k \in T : k <= m
<1> DEFINE D == {n - k : k \in T}
<1>1. D \in SUBSET Nat /\ D # {}
  <2>1. \A k \in T : k \in 0..n
    OBVIOUS
  <2>2. \A k \in 0..n : n - k \in Nat
    OBVIOUS
  <2>3. QED
    BY <2>1, <2>2
<1>2. PICK d \in D : \A e \in D : d <= e
  BY <1>1, Least
<1>3. PICK m \in T : d = n - m
  OBVIOUS
<1>4. ASSUME NEW k \in T
      PROVE  k <= m
  <2>1. n - k \in D
    OBVIOUS
  <2>2. d <= n - k
    BY <1>2, <2>1
  <2>3. k \in 0..n /\ m \in 0..n
    OBVIOUS
  <2>4. QED
    BY <1>3, <2>2, <2>3
<1>5. QED
  BY <1>4

StepByStep(g, b, F, n) == g[0] = b /\ \A k \in 1..n : g[k] = F[k][g[k - 1]]

LEMMA Iterates ==
  ASSUME NEW S, NEW b \in S, NEW F \in [Nat -> [S -> S]], NEW n \in Nat
  PROVE  \E g \in [0..n -> S] : StepByStep(g, b, F, n)
<1> DEFINE Made(m) == \E g \in [0..m -> S] : StepByStep(g, b, F, m)
           T == {m \in Nat : ~Made(m)}
<1> SUFFICES ASSUME T # {}
             PROVE  FALSE
  OBVIOUS
<1>1. PICK m \in T : \A k \in T : m <= k
  BY Least
<1>2. m \in Nat /\ ~Made(m)
  OBVIOUS
<1>3. m # 0
  <2>1. Made(0)
    <3> DEFINE g == [k \in 0..0 |-> b]
    <3>1. g \in [0..0 -> S] /\ StepByStep(g, b, F, 0)
      BY DEF StepByStep
    <3>2. QED
      BY <3>1
  <2>2. QED
    BY <1>2, <2>1
<1>4. m - 1 \in Nat /\ Made(m - 1)
  <2>1. m - 1 \in Nat /\ m - 1 \notin T
    BY <1>1, <1>2, <1>3
  <2>2. QED
    BY <2>1
<1>5. PICK g \in [0..(m - 1) -> S] : g[0] = b /\ \A k \in 1..(m - 1) : g[k] = F[k][g[k - 1]]
  BY <1>4 DEF StepByStep
<1> DEFINE h == [k \in 0..m |-> IF k = m THEN F[m][g[m - 1]] ELSE g[k]]
<1>6. F[m][g[m - 1]] \in S
  <2>1. m - 1 \in 0..(m - 1) /\ m \in Nat
    BY <1>2, <1>4
  <2>2. m \in Nat /\ g[m - 1] \in S
    BY <2>1
  <2>3. QED
    BY <2>2
<1>7. h \in [0..m -> S]
  <2> SUFFICES ASSUME NEW k \in 0..m
               PROVE  (IF k = m THEN F[m][g[m - 1]] ELSE g[k]) \in S
    OBVIOUS
  <2>1. k # m => k \in 0..(m - 1)
    BY <1>2
  <2>2. QED
    BY <1>6, <2>1
<1>8. h[0] = b
  BY <1>2, <1>3, <1>5
<1>9. ASSUME NEW k \in 1..m
      PROVE  h[k] = F[k][h[k - 1]]
  <2>1. k - 1 \in 0..m /\ k - 1 # m /\ h[k - 1] = g[k - 1]
    BY <1>2
  <2>2. CASE k = m
    BY <1>2, <2>1, <2>2
  <2>3. CASE k # m
    <3>1. k \in 1..(m - 1) /\ k \in 0..m
      BY <1>2, <2>3
    <3>2. QED
      BY <1>5, <2>1, <2>3, <3>1
  <2>4. QED
    BY <2>2, <2>3
<1> HIDE DEF h
<1>10. Made(m)
  BY <1>7, <1>8, <1>9 DEF StepByStep
<1>11. QED
  BY <1>2, <1>10

\* What holds at the start and is kept by every step holds of them all.
LEMMA Throughout ==
  ASSUME NEW n \in Nat, NEW T, 0 \in T, \A k \in 1..n : k - 1 \in T => k \in T
  PROVE  n \in T
<1> DEFINE U == {k \in 0..n : k \notin T}
<1> SUFFICES ASSUME U # {}
             PROVE  FALSE
  BY DEF U
<1>1. PICK m \in U : \A k \in U : m <= k
  <2>1. U \in SUBSET Nat
    OBVIOUS
  <2>2. QED
    BY <2>1, Least
<1>2. m \in 1..n /\ m - 1 \in 0..n /\ m - 1 \notin U
  BY <1>1
<1>3. QED
  BY <1>1, <1>2

-----------------------------------------------------------------------------
(***************************************************************************)
(* LawAnalysis.                                                            *)
(***************************************************************************)
(* Everything the analysis of laws keeps has its type.                     *)

Runners == Analysing!Runners
Parts   == Analysing!Parts
OfLaws  == Analysing!Laws
Whole   == Analysing!Whole
Wanted  == Analysing!Features
Busy    == Analysing!Busy
Editions == Analysing!Editions

Readings == SUBSET (Parts \X Editions)
Manifests == [Parts -> 0..EditionBound]
Sheets == [summary : 0..EditionBound, tags : 0..EditionBound, entities : SUBSET Analysing!Drawings, related : BOOLEAN]
Works == [at : Analysing!Places, law : OfLaws, ask : Wanted \union {"all", "none"}, todo : Seq(Wanted), left : Seq(OfLaws),
          force : BOOLEAN, edition : 0..EditionBound, manifest : Manifests, sources : Readings, out : Sheets,
          has : SUBSET Wanted, relates : BOOLEAN, deletes : BOOLEAN, named : SUBSET Analysing!Drawings,
          pending : SUBSET Analysing!Drawings, alone : BOOLEAN, drew : Readings]
Rollups == [is : BOOLEAN, of : Readings, by : Runners \union {"none"}, tags : BOOLEAN, related : SUBSET Manifests]

SheetsTyped == sheet \in [Parts -> [Editions -> Sheets]]
LawsTyped == /\ current \in Manifests /\ SheetsTyped /\ rollup \in Rollups
             /\ edges \in [OfLaws -> SUBSET Analysing!Drawings]
             /\ writer \in Runners \union {"none"} /\ troubles \in 0..TroubleBound
             /\ runner \in [Runners -> Works]

(* What a runner has before it is sound: it draws what is left to draw, of *)
(* which the relationships come last, and what it has found of them is its *)
(* own; a command comes to the collection last, and one that was asked for *)
(* summaries draws nothing else.                                           *)
Drawing(w) ==
  /\ w.at \in {"drawing", "naming", "citing"} => w.todo # <<>>
  /\ \A i \in 1..(Len(w.todo) - 1) : w.todo[i] # "relationships"
  /\ w.at \in {"naming", "citing"} => Len(w.todo) = 1 /\ w.relates
  /\ w.relates => w.at \in {"naming", "citing", "persisting"}
  /\ w.at \in Busy /\ w.law # Whole => w.edition # 0
Findings(r, w) ==
  /\ ~w.relates => ~w.deletes /\ w.pending = {} /\ w.named = {}
  /\ w.relates /\ r \in Commands => w.deletes
  /\ w.pending \subseteq w.named /\ \A x \in w.named : x.by = r /\ \A y \in w.named : x = y
  /\ r \in Jobs /\ w.at \in {"off", "queued", "drawing"} => w.alone
Asking(r, w) ==
  /\ r \in Commands => w.at # "queued" /\ \A i \in 1..(Len(w.left) - 1) : w.left[i] # Whole
  /\ r \in Jobs => w.at # "picking"
  /\ r \in Commands /\ w.at \in Busy \union {"picking"} => w.ask \in Wanted
  /\ r \in Jobs /\ w.at = "queued" => w.ask \in Wanted \union {"all"}
  /\ r \in Commands /\ w.at \in Busy /\ w.law = Whole => w.left = <<>>
  /\ r \in Commands /\ w.ask = "summary" =>
       /\ w.at = "drawing" => w.todo = <<"summary">>
       /\ w.at = "persisting" => "summary" \in w.has
       /\ w.at \notin {"naming", "citing"}
Sound(r, w) == w \in Works /\ Drawing(w) /\ Findings(r, w) /\ Asking(r, w)

LawsSound == LawsTyped /\ \A r \in Runners : Sound(r, runner[r])

LEMMA PartsAreLaws ==
  /\ Parts \subseteq STRING /\ Whole \notin Parts /\ OfLaws = Parts \union {Whole}
  /\ Runners = Jobs \union Commands /\ Jobs \intersect Commands = {} /\ "none" \notin Runners
  /\ Editions = 1..EditionBound /\ EditionBound \in Nat /\ EditionBound >= 1
  /\ Analysing!Drawings = [by : Runners, text : Editions]
  /\ PartOrder \in Seq(Parts)
BY AnalysisAssumption DEF Parts, Whole, OfLaws, Runners, Editions, Analysing!Parts, Analysing!Whole, Analysing!Laws,
   Analysing!Runners, Analysing!Editions, Analysing!Drawings

LEMMA NobodyIsSound ==
  /\ Analysing!NoSheet \in Sheets /\ Analysing!NoRollup \in Rollups /\ Analysing!NoRunner \in Works
  /\ \A r \in Runners : Sound(r, Analysing!NoRunner)
<1>1. Analysing!NoSheet \in Sheets
  BY PartsAreLaws DEF Analysing!NoSheet, Sheets
<1>2. Analysing!NoRollup \in Rollups
  BY DEF Analysing!NoRollup, Rollups, Readings
<1>3. [p \in Parts |-> 0] \in Manifests
  BY PartsAreLaws DEF Manifests
<1>4. Analysing!NoRunner \in Works
  BY <1>1, <1>3, PartsAreLaws DEF Analysing!NoRunner, Works, Readings, Analysing!Places, Whole, Analysing!Whole, Parts
<1>5. ASSUME NEW r \in Runners
      PROVE  Sound(r, Analysing!NoRunner)
  BY <1>4 DEF Sound, Drawing, Findings, Asking, Analysing!NoRunner, Busy, Analysing!Busy
<1>6. QED
  BY <1>1, <1>2, <1>4, <1>5

LEMMA LawsBegin == Analysing!AnalysisInit => LawsSound
<1> SUFFICES ASSUME Analysing!AnalysisInit
             PROVE  LawsSound
  OBVIOUS
<1>1. current \in Manifests
  BY PartsAreLaws DEF Analysing!AnalysisInit, Manifests, Parts
<1>2. SheetsTyped
  BY NobodyIsSound, PartsAreLaws DEF Analysing!AnalysisInit, SheetsTyped, Parts, Editions
<1>3. /\ rollup \in Rollups /\ edges \in [OfLaws -> SUBSET Analysing!Drawings]
      /\ writer = "none" /\ troubles \in 0..TroubleBound
  BY NobodyIsSound, AnalysisAssumption DEF Analysing!AnalysisInit, OfLaws
<1>4. runner = [r \in Runners |-> Analysing!NoRunner]
  BY DEF Analysing!AnalysisInit, Runners
<1>5. QED
  BY <1>1, <1>2, <1>3, <1>4, NobodyIsSound DEF LawsSound, LawsTyped

LEMMA SourcesTyped ==
  ASSUME LawsTyped
  PROVE  /\ Analysing!Sources \in Readings
         /\ \A l \in OfLaws : Analysing!EditionOf(l) \in 0..EditionBound
         /\ \A p \in Parts : Analysing!EditionOf(p) = current[p]
<1>1. Analysing!Sources \in Readings
  BY PartsAreLaws DEF Analysing!Sources, LawsTyped, Manifests, Readings, Parts, Editions
<1>2. QED
  BY <1>1, PartsAreLaws DEF Analysing!EditionOf, LawsTyped, Manifests, Parts

LEMMA EmptyHasNoLength ==
  ASSUME NEW S, NEW s \in Seq(S)
  PROVE  s = <<>> <=> Len(s) = 0
OBVIOUS

LEMMA RequestsSound ==
  ASSUME NEW l \in OfLaws, NEW a \in Wanted \union {"all"}
  PROVE  LET t == Analysing!Requested(l, a) IN
         /\ t \in Seq(Wanted) /\ t # <<>> /\ \A i \in 1..(Len(t) - 1) : t[i] # "relationships"
         /\ a = "summary" => t = <<"summary">>
<1>1. CASE a # "all"
  BY <1>1 DEF Analysing!Requested, Wanted, Analysing!Features
<1>2. ASSUME NEW t, t = <<"summary", "tags", "relationships">> \/ t = <<"summary", "tags", "entities", "relationships">>
      PROVE  t \in Seq(Wanted) /\ t # <<>> /\ \A i \in 1..(Len(t) - 1) : t[i] # "relationships"
  <2>1. CASE t = <<"summary", "tags", "relationships">>
    BY <2>1 DEF Wanted, Analysing!Features
  <2>2. CASE t = <<"summary", "tags", "entities", "relationships">>
    BY <2>2 DEF Wanted, Analysing!Features
  <2>3. QED
    BY <1>2, <2>1, <2>2
<1>3. CASE a = "all"
  BY <1>2, <1>3 DEF Analysing!Requested
<1>4. QED
  BY <1>1, <1>3

(* A job or command that takes up a law; and one that goes on to the next  *)
(* of what it has to draw.                                                 *)
LEMMA TakingIsSound ==
  ASSUME LawsTyped, NEW r \in Runners, NEW w \in Works, NEW l \in OfLaws, NEW a \in Wanted \union {"all"},
         r \in Commands => a = w.ask /\ a \in Wanted /\ \A i \in 1..(Len(w.left) - 1) : w.left[i] # Whole,
         r \in Commands /\ l = Whole => w.left = <<>>,
         r \in Jobs => w.alone, ~w.relates, ~w.deletes, w.pending = {}, w.named = {},
         l # Whole => current[l] # 0
  PROVE  Sound(r, Analysing!Taken(w, l, a))
<1> DEFINE v == Analysing!Taken(w, l, a)
<1>1. /\ v = [w EXCEPT !.at = "drawing", !.law = l, !.todo = Analysing!Requested(l, a), !.edition = Analysing!EditionOf(l),
                       !.manifest = IF l = Whole THEN current ELSE @, !.sources = Analysing!Sources,
                       !.out = Analysing!NoSheet, !.has = {}]
  BY DEF Analysing!Taken, Whole
<1>2. v \in Works
  <2>1. Analysing!Sources \in Readings /\ Analysing!EditionOf(l) \in 0..EditionBound /\ Analysing!NoSheet \in Sheets
        /\ Analysing!Requested(l, a) \in Seq(Wanted) /\ current \in Manifests /\ "drawing" \in Analysing!Places
    BY SourcesTyped, NobodyIsSound, RequestsSound DEF LawsTyped, Analysing!Places, Analysing!Busy
  <2> HIDE DEF v
  <2>2. QED
    BY <1>1, <2>1 DEF Works
<1>3. /\ v.at = "drawing" /\ v.law = l /\ v.todo = Analysing!Requested(l, a) /\ v.ask = w.ask /\ v.left = w.left
      /\ v.relates = w.relates /\ v.deletes = w.deletes /\ v.pending = w.pending /\ v.named = w.named /\ v.alone = w.alone
  BY <1>1 DEF Works
<1> HIDE DEF v
<1>4. Drawing(v)
  <2>1. l # Whole => Analysing!EditionOf(l) # 0
    BY PartsAreLaws, SourcesTyped
  <2>2. v.edition = Analysing!EditionOf(l)
    BY <1>1 DEF Works, v
  <2>3. QED
    BY <1>3, <2>1, <2>2, RequestsSound DEF Drawing
<1>5. Findings(r, v)
  BY <1>3, PartsAreLaws DEF Findings
<1>6. Asking(r, v)
  BY <1>3, PartsAreLaws, RequestsSound DEF Asking, Busy, Analysing!Busy
<1>7. QED
  BY <1>2, <1>4, <1>5, <1>6 DEF Sound, v

LEMMA GoingOn ==
  ASSUME NEW w \in Works, w.todo # <<>>, \A i \in 1..(Len(w.todo) - 1) : w.todo[i] # "relationships",
         NEW v, v = Analysing!Next1(w)
  PROVE  /\ v \in Works
         /\ v.law = w.law /\ v.ask = w.ask /\ v.left = w.left /\ v.edition = w.edition /\ v.has = w.has
         /\ v.relates = w.relates /\ v.deletes = w.deletes /\ v.named = w.named /\ v.pending = w.pending
         /\ v.alone = w.alone /\ v.drew = w.drew /\ v.sources = w.sources /\ v.out = w.out
         /\ v.at = IF Len(w.todo) = 1 THEN "persisting" ELSE "drawing"
         /\ v.at = "drawing" => v.todo # <<>>
         /\ Len(w.todo) = 1 => v.todo = <<>>
         /\ \A i \in 1..(Len(v.todo) - 1) : v.todo[i] # "relationships"
<1>1. /\ Tail(w.todo) \in Seq(Wanted) /\ Len(Tail(w.todo)) = Len(w.todo) - 1
      /\ \A i \in 1..Len(Tail(w.todo)) : Tail(w.todo)[i] = w.todo[i + 1]
      /\ Len(w.todo) \in Nat /\ w.todo \in Seq(Wanted)
  BY DEF Works
<1>2. v = [w EXCEPT !.todo = Tail(w.todo), !.at = IF Len(w.todo) = 1 THEN "persisting" ELSE "drawing"]
  BY DEF Analysing!Next1
<1>3. v \in Works /\ v.todo = Tail(w.todo) /\ v.at = IF Len(w.todo) = 1 THEN "persisting" ELSE "drawing"
  BY <1>1, <1>2 DEF Works, Analysing!Places, Analysing!Busy
<1>4. /\ v.law = w.law /\ v.ask = w.ask /\ v.left = w.left /\ v.edition = w.edition /\ v.has = w.has
      /\ v.relates = w.relates /\ v.deletes = w.deletes /\ v.named = w.named /\ v.pending = w.pending
      /\ v.alone = w.alone /\ v.drew = w.drew /\ v.sources = w.sources /\ v.out = w.out
  BY <1>2 DEF Works
<1>5. \A i \in 1..(Len(v.todo) - 1) : v.todo[i] # "relationships"
  <2> TAKE i \in 1..(Len(v.todo) - 1)
  <2>1. i + 1 \in 1..(Len(w.todo) - 1) /\ i \in 1..Len(Tail(w.todo))
    BY <1>1, <1>3
  <2>2. QED
    BY <1>1, <1>3, <2>1
<1>6. v.todo = <<>> <=> Len(w.todo) = 1
  <2>1. Tail(w.todo) = <<>> <=> Len(Tail(w.todo)) = 0
    BY <1>1, EmptyHasNoLength
  <2>2. Len(Tail(w.todo)) = 0 <=> Len(w.todo) = 1
    BY <1>1
  <2>3. QED
    BY <1>3, <2>1, <2>2
<1>7. v.at = "drawing" => v.todo # <<>>
  BY <1>3, <1>6
<1>8. QED
  BY <1>3, <1>4, <1>5, <1>6, <1>7

(* A step that leaves all but one runner as it was.                        *)
LEMMA RunnerMoves ==
  ASSUME LawsSound, NEW r \in Runners, NEW v, runner' = [runner EXCEPT ![r] = v], Sound(r, v)
  PROVE  /\ runner' \in [Runners -> Works] /\ \A x \in Runners : Sound(x, runner'[x])
         /\ runner'[r] = v /\ \A x \in Runners \ {r} : runner'[x] = runner[x]
BY DEF LawsSound, LawsTyped, Sound

LEMMA AskForIsSound ==
  ASSUME LawsSound, NEW j \in Jobs, NEW l \in OfLaws, NEW a \in Wanted \union {"all"}, Analysing!AskFor(j, l, a)
  PROVE  LawsSound'
<1> DEFINE v == [Analysing!NoRunner EXCEPT !.at = "queued", !.law = l, !.ask = a]
<1>1. runner' = [runner EXCEPT ![j] = v] /\ UNCHANGED <<current, sheet, rollup, edges, writer, troubles>>
  BY DEF Analysing!AskFor, Analysing!Put
<1>2. j \in Runners /\ j \notin Commands
  BY PartsAreLaws
<1>3. Sound(j, v)
  <2>1. Sound(j, Analysing!NoRunner) /\ Analysing!NoRunner \in Works
    BY <1>2, NobodyIsSound
  <2>2. v \in Works
    BY <2>1 DEF Works, Analysing!Places
  <2>3. QED
    BY <1>2, <2>1, <2>2 DEF Sound, Drawing, Findings, Asking, Analysing!NoRunner, Busy, Analysing!Busy
<1> HIDE DEF v
<1>4. runner' \in [Runners -> Works] /\ \A x \in Runners : Sound(x, runner'[x])
  BY <1>1, <1>2, <1>3, RunnerMoves
<1>5. QED
  BY <1>1, <1>4 DEF LawsSound, LawsTyped, SheetsTyped

LEMMA LoadLawIsSound ==
  ASSUME LawsSound, NEW j \in Jobs, Analysing!LoadLaw(j)
  PROVE  LawsSound'
<1> DEFINE w == runner[j]
           v == IF Analysing!Offered(w.law, w.ask) THEN Analysing!Taken(w, w.law, w.ask) ELSE [w EXCEPT !.at = "failed"]
<1>1. /\ w.at = "queued" /\ runner' = [runner EXCEPT ![j] = v]
      /\ UNCHANGED <<current, sheet, rollup, edges, writer, troubles>>
  BY DEF Analysing!LoadLaw, Analysing!Put
<1>2. j \in Runners /\ j \notin Commands /\ LawsTyped /\ Sound(j, w) /\ w \in Works
  BY PartsAreLaws DEF LawsSound, Sound
<1> HIDE DEF w
<1>3. ~w.relates /\ ~w.deletes /\ w.pending = {} /\ w.named = {} /\ w.alone /\ w.ask \in Wanted \union {"all"}
  BY <1>1, <1>2 DEF Sound, Drawing, Findings, Asking
<1>4. CASE Analysing!Offered(w.law, w.ask)
  <2>1. w.law # Whole => current[w.law] # 0
    BY <1>4 DEF Analysing!Offered, Whole
  <2>2. Sound(j, Analysing!Taken(w, w.law, w.ask))
    BY <1>2, <1>3, <2>1, TakingIsSound DEF Works
  <2>3. QED
    BY <1>1, <1>2, <1>4, <2>2, RunnerMoves DEF LawsSound, LawsTyped, SheetsTyped
<1>5. CASE ~Analysing!Offered(w.law, w.ask)
  <2>1. Sound(j, [w EXCEPT !.at = "failed"])
    <3>1. [w EXCEPT !.at = "failed"] \in Works
      BY <1>2 DEF Works, Analysing!Places
    <3>2. QED
      BY <1>1, <1>2, <1>3, <3>1 DEF Sound, Drawing, Findings, Asking, Works, Busy, Analysing!Busy
  <2>2. QED
    BY <1>1, <1>2, <1>5, <2>1, RunnerMoves DEF LawsSound, LawsTyped, SheetsTyped
<1>6. QED
  BY <1>4, <1>5

LEMMA StartCommandIsSound ==
  ASSUME LawsSound, NEW c \in Commands, NEW a \in Wanted, NEW f \in BOOLEAN, Analysing!StartCommand(c, a, f)
  PROVE  LawsSound'
<1> DEFINE o == Append(PartOrder, Whole)
           v == [Analysing!NoRunner EXCEPT !.at = "picking", !.ask = a, !.force = f, !.left = o]
<1>1. runner' = [runner EXCEPT ![c] = v] /\ UNCHANGED <<current, sheet, rollup, edges, writer, troubles>>
  BY DEF Analysing!StartCommand, Analysing!Put, Analysing!InRunOrder, Whole
<1>2. c \in Runners /\ c \notin Jobs
  BY PartsAreLaws
<1>3. o \in Seq(OfLaws) /\ \A i \in 1..(Len(o) - 1) : o[i] # Whole
  <2>1. PartOrder \in Seq(OfLaws) /\ Whole \in OfLaws /\ \A i \in 1..Len(PartOrder) : PartOrder[i] # Whole
    BY PartsAreLaws
  <2>2. QED
    BY <2>1
<1> HIDE DEF o
<1>4. Sound(c, v)
  <2>1. Sound(c, Analysing!NoRunner) /\ Analysing!NoRunner \in Works
    BY <1>2, NobodyIsSound
  <2>2. v \in Works
    BY <1>3, <2>1 DEF Works, Analysing!Places
  <2>3. QED
    BY <1>2, <1>3, <2>1, <2>2 DEF Sound, Drawing, Findings, Asking, Analysing!NoRunner, Busy, Analysing!Busy
<1> HIDE DEF v
<1>5. runner' \in [Runners -> Works] /\ \A x \in Runners : Sound(x, runner'[x])
  BY <1>1, <1>2, <1>4, RunnerMoves
<1>6. QED
  BY <1>1, <1>5 DEF LawsSound, LawsTyped, SheetsTyped

LEMMA PickIsSound ==
  ASSUME LawsSound, NEW c \in Commands, Analysing!Pick(c)
  PROVE  LawsSound'
<1> DEFINE w == runner[c]
           l == Head(w.left)
           rest == [w EXCEPT !.left = Tail(w.left)]
           v == IF (w.force \/ ~Analysing!Done(l, w.ask)) /\ Analysing!Offered(l, w.ask)
                THEN Analysing!Taken(rest, l, w.ask) ELSE rest
<1>1. /\ w.at = "picking" /\ w.left # <<>> /\ runner' = [runner EXCEPT ![c] = v]
      /\ UNCHANGED <<current, sheet, rollup, edges, writer, troubles>>
  BY DEF Analysing!Pick, Analysing!Put
<1>2. c \in Runners /\ c \notin Jobs /\ LawsTyped /\ Sound(c, w) /\ w \in Works
  BY PartsAreLaws DEF LawsSound, Sound
<1> HIDE DEF w
<1>3. /\ ~w.relates /\ ~w.deletes /\ w.pending = {} /\ w.named = {} /\ w.ask \in Wanted
      /\ \A i \in 1..(Len(w.left) - 1) : w.left[i] # Whole
      /\ w.left \in Seq(OfLaws)
  BY <1>1, <1>2 DEF Sound, Drawing, Findings, Asking, Works
<1>4. /\ Tail(w.left) \in Seq(OfLaws) /\ l \in OfLaws /\ Len(w.left) \in Nat /\ Len(w.left) # 0
      /\ Len(Tail(w.left)) = Len(w.left) - 1 /\ l = w.left[1]
      /\ \A i \in 1..Len(Tail(w.left)) : Tail(w.left)[i] = w.left[i + 1]
  <2>1. w.left \in Seq(OfLaws) /\ w.left # <<>>
    BY <1>1, <1>3
  <2>2. QED
    BY <2>1, HeadTailProperties, EmptyHasNoLength
<1>5. \A i \in 1..(Len(Tail(w.left)) - 1) : Tail(w.left)[i] # Whole
  <2> TAKE i \in 1..(Len(Tail(w.left)) - 1)
  <2>1. i + 1 \in 1..(Len(w.left) - 1) /\ i \in 1..Len(Tail(w.left))
    BY <1>4
  <2>2. QED
    BY <1>3, <1>4, <2>1
<1>6. l = Whole => Tail(w.left) = <<>>
  <2>1. l = Whole => Len(Tail(w.left)) = 0
    <3> DEFINE n == Len(w.left)
    <3>1. l = Whole => 1 \notin 1..(n - 1)
      BY <1>3, <1>4, Zenon
    <3>2. n \in Nat /\ n # 0 /\ Len(Tail(w.left)) = n - 1
      BY <1>4
    <3> HIDE DEF n
    <3>3. 1 \notin 1..(n - 1) => n - 1 = 0
      BY ONLY <3>2, SMT
    <3>4. QED
      BY <3>1, <3>2, <3>3, Zenon
  <2>2. QED
    BY <1>4, <2>1, EmptyHasNoLength
<1> DEFINE t == Tail(w.left)
<1> HIDE DEF l, t
<1>7. /\ rest \in Works /\ rest.at = "picking" /\ rest.left = t /\ rest.ask = w.ask
      /\ rest.relates = w.relates /\ rest.deletes = w.deletes /\ rest.pending = w.pending /\ rest.named = w.named
      /\ rest.todo = w.todo
  BY <1>1, <1>2, <1>4 DEF Works, t
<1> HIDE DEF rest
<1>8. CASE (w.force \/ ~Analysing!Done(l, w.ask)) /\ Analysing!Offered(l, w.ask)
  <2>1. l # Whole => current[l] # 0
    BY <1>8 DEF Analysing!Offered, Whole
  <2>2. Sound(c, Analysing!Taken(rest, l, w.ask))
    BY <1>2, <1>3, <1>4, <1>5, <1>6, <1>7, <2>1, TakingIsSound DEF t
  <2>3. QED
    BY <1>1, <1>2, <1>8, <2>2, RunnerMoves DEF LawsSound, LawsTyped, SheetsTyped
<1>9. CASE ~((w.force \/ ~Analysing!Done(l, w.ask)) /\ Analysing!Offered(l, w.ask))
  <2>1. Sound(c, rest)
    BY <1>2, <1>3, <1>5, <1>7 DEF Sound, Drawing, Findings, Asking, Busy, Analysing!Busy, t
  <2>2. QED
    BY <1>1, <1>2, <1>9, <2>1, RunnerMoves DEF LawsSound, LawsTyped, SheetsTyped
<1>10. QED
  BY <1>8, <1>9

LEMMA CommandEndsIsSound ==
  ASSUME LawsSound, NEW c \in Commands, Analysing!CommandEnds(c)
  PROVE  LawsSound'
<1> DEFINE w == runner[c]
           v == [w EXCEPT !.at = "ended"]
<1>1. /\ w.at = "picking" /\ runner' = [runner EXCEPT ![c] = v]
      /\ UNCHANGED <<current, sheet, rollup, edges, writer, troubles>>
  BY DEF Analysing!CommandEnds, Analysing!Put
<1>2. c \in Runners /\ c \notin Jobs /\ LawsTyped /\ Sound(c, w) /\ w \in Works
  BY PartsAreLaws DEF LawsSound, Sound
<1> HIDE DEF w
<1>3. v \in Works
  BY <1>2 DEF Works, Analysing!Places
<1>4. Sound(c, v)
  BY <1>1, <1>2, <1>3 DEF Sound, Drawing, Findings, Asking, Works, Busy, Analysing!Busy
<1>5. QED
  BY <1>1, <1>2, <1>4, RunnerMoves DEF LawsSound, LawsTyped, SheetsTyped

LEMMA DrawIsSound ==
  ASSUME LawsSound, NEW r \in Runners, Analysing!Draw(r)
  PROVE  LawsSound'
<1> DEFINE w == runner[r]
           f == Head(w.todo)
           out == CASE f = "summary" -> [w.out EXCEPT !.summary = w.edition]
                    [] f = "tags" -> [w.out EXCEPT !.tags = Analysing!Basis(w)]
                    [] f = "entities" -> [w.out EXCEPT !.entities = {[by |-> r, text |-> w.edition]}]
           n == Analysing!Next1(w)
           v == [n EXCEPT !.out = out, !.has = @ \union {f}]
<1>1. /\ w.at = "drawing" /\ f # "relationships" /\ Analysing!Possible(w, f) /\ runner' = [runner EXCEPT ![r] = v]
      /\ UNCHANGED <<current, sheet, rollup, edges, writer, troubles>>
  BY DEF Analysing!Draw, Analysing!Put
<1>2. LawsTyped /\ Sound(r, w) /\ w \in Works
  BY DEF LawsSound, Sound
<1> HIDE DEF w
<1>3. w.todo # <<>> /\ w.todo \in Seq(Wanted) /\ \A i \in 1..(Len(w.todo) - 1) : w.todo[i] # "relationships"
  BY <1>1, <1>2 DEF Sound, Drawing, Works
<1>4. f \in {"summary", "tags", "entities"} /\ f \in Wanted
  BY <1>1, <1>3 DEF Wanted, Analysing!Features
<1>5. /\ n \in Works /\ n.at \in {"persisting", "drawing"}
      /\ (n.at = "drawing" => n.todo # <<>>) /\ (Len(w.todo) = 1 => n.at = "persisting")
      /\ \A i \in 1..(Len(n.todo) - 1) : n.todo[i] # "relationships"
  BY <1>2, <1>3, GoingOn
<1>6. /\ n.law = w.law /\ n.ask = w.ask /\ n.left = w.left /\ n.edition = w.edition /\ n.has = w.has /\ n.relates = w.relates
      /\ n.deletes = w.deletes /\ n.named = w.named /\ n.pending = w.pending /\ n.alone = w.alone
  BY <1>2, <1>3, GoingOn
<1>7. out \in Sheets
  <2>1. Analysing!Basis(w) \in 0..EditionBound
    <3>1. w.law # Whole => sheet[w.law][w.edition].summary \in 0..EditionBound
      <4>1. w.law # Whole => w.law \in Parts /\ w.edition \in Editions
        BY <1>1, <1>2, PartsAreLaws DEF Sound, Drawing, Busy, Analysing!Busy, Works
      <4>2. QED
        BY <1>2, <4>1 DEF LawsTyped, SheetsTyped, Sheets
    <3>2. QED
      BY <1>2, <3>1 DEF Analysing!Basis, Works, Sheets, Whole
  <2>2. f = "entities" => [by |-> r, text |-> w.edition] \in Analysing!Drawings
    <3>1. f = "entities" => w.law # Whole
      BY <1>1 DEF Analysing!Possible, Whole
    <3>2. f = "entities" => w.edition \in Editions
      BY <1>1, <1>2, <3>1, PartsAreLaws DEF Sound, Drawing, Busy, Analysing!Busy, Works
    <3>3. QED
      BY <3>2, PartsAreLaws
  <2>3. w.out \in Sheets /\ w.edition \in 0..EditionBound
    BY <1>2 DEF Works
  <2> HIDE DEF f
  <2>4. QED
    BY <1>4, <2>1, <2>2, <2>3 DEF Sheets
<1>8. w.todo = <<"summary">> => f = "summary" /\ Len(w.todo) = 1
  OBVIOUS
<1> HIDE DEF n, f, out
<1>9. v \in Works
  <2>1. n \in Works /\ n.has \union {f} \in SUBSET Wanted
    BY <1>4, <1>5 DEF Works
  <2>2. QED
    BY <1>7, <2>1 DEF Works
<1>10. /\ v.at = n.at /\ v.law = n.law /\ v.ask = n.ask /\ v.left = n.left /\ v.edition = n.edition /\ v.todo = n.todo
       /\ v.has = n.has \union {f} /\ v.relates = n.relates /\ v.deletes = n.deletes /\ v.named = n.named
       /\ v.pending = n.pending /\ v.alone = n.alone
  BY <1>5 DEF Works
<1> HIDE DEF v
<1>11. Drawing(v)
  BY <1>1, <1>2, <1>5, <1>6, <1>10 DEF Sound, Drawing, Busy, Analysing!Busy
<1>12. Findings(r, v)
  BY <1>1, <1>2, <1>5, <1>6, <1>10 DEF Sound, Findings
<1>13. Asking(r, v)
  <2>1. Asking(r, w) /\ w.at \in Busy /\ v.at \in {"drawing", "persisting"}
    BY <1>1, <1>2, <1>5, <1>10 DEF Sound, Busy, Analysing!Busy
  <2>2. ASSUME r \in Commands, v.ask = "summary"
        PROVE  v.at = "persisting" /\ "summary" \in v.has
    <3>1. w.todo = <<"summary">>
      BY <1>1, <1>6, <1>10, <2>1, <2>2 DEF Asking
    <3>2. f = "summary" /\ n.at = "persisting"
      BY <1>5, <1>8, <3>1
    <3>3. QED
      BY <1>10, <3>2, Zenon
  <2>3. v.law = w.law /\ v.ask = w.ask /\ v.left = w.left
    BY <1>6, <1>10
  <2>4. QED
    BY <2>1, <2>2, <2>3, PartsAreLaws DEF Asking, Busy, Analysing!Busy
<1>14. QED
  BY <1>1, <1>2, <1>9, <1>11, <1>12, <1>13, RunnerMoves DEF LawsSound, LawsTyped, SheetsTyped, Sound

(* A runner that is done with a law, well or not.                          *)
LEMMA AfterIsSound ==
  ASSUME LawsSound, NEW r \in Runners, NEW b \in BOOLEAN, runner[r].at \in Busy \union {"picking"},
         b => runner[r].at \in Busy
  PROVE  LET v == Analysing!After(r, runner[r], b) IN
         /\ Sound(r, v) /\ Sound(r, [v EXCEPT !.at = "failed"])
         /\ v.at \in {"picking", "ended", "failed"} /\ v.left = runner[r].left /\ v.ask = runner[r].ask /\ v.alone = runner[r].alone
         /\ v.drew = IF b /\ runner[r].law # Whole THEN runner[r].drew \union {<<runner[r].law, runner[r].edition>>}
                     ELSE runner[r].drew
         /\ v.relates = FALSE /\ v.law = runner[r].law
<1> DEFINE w == runner[r]
           d == IF b /\ w.law # Whole THEN w.drew \union {<<w.law, w.edition>>} ELSE w.drew
           o == [Analysing!NoRunner EXCEPT !.ask = w.ask, !.force = w.force, !.left = w.left, !.law = w.law,
                   !.alone = w.alone, !.drew = d]
           at == IF r \in Commands THEN "picking" ELSE IF b THEN "ended" ELSE "failed"
           v == Analysing!After(r, w, b)
<1>1. v = [o EXCEPT !.at = at]
  BY DEF Analysing!After, Whole
<1>2. LawsTyped /\ Sound(r, w) /\ w \in Works /\ Sound(r, Analysing!NoRunner) /\ Analysing!NoRunner \in Works
  BY NobodyIsSound DEF LawsSound, Sound
<1>3. w.at \in Busy \union {"picking"} /\ (b => w.at \in Busy)
  OBVIOUS
<1> HIDE DEF v, w
<1>4. d \in Readings
  <2>1. b /\ w.law # Whole => w.law \in Parts /\ w.edition \in Editions
    BY <1>2, <1>3, PartsAreLaws DEF Sound, Drawing, Busy, Works
  <2>2. QED
    BY <1>2, <2>1 DEF Works, Readings
<1> HIDE DEF d
<1>5. o \in Works
  BY <1>2, <1>4 DEF Works
<1>6. /\ o.ask = w.ask /\ o.left = w.left /\ o.law = w.law /\ o.alone = w.alone /\ o.drew = d /\ o.todo = <<>>
      /\ o.relates = FALSE /\ o.deletes = FALSE /\ o.named = {} /\ o.pending = {}
  BY DEF Analysing!NoRunner
<1> HIDE DEF o
<1>7. ASSUME NEW u, NEW a \in {"picking", "ended", "failed"}, u = [o EXCEPT !.at = a], a = "picking" => r \in Commands
      PROVE  /\ Sound(r, u) /\ u.at = a
             /\ u.left = w.left /\ u.ask = w.ask /\ u.alone = w.alone /\ u.drew = d /\ u.relates = FALSE /\ u.law = w.law
  <2>1. /\ u \in Works /\ u.at = a /\ u.ask = o.ask /\ u.left = o.left /\ u.law = o.law /\ u.alone = o.alone /\ u.drew = o.drew
        /\ u.todo = o.todo /\ u.relates = o.relates /\ u.deletes = o.deletes /\ u.named = o.named /\ u.pending = o.pending
    BY <1>5, <1>7 DEF Works, Analysing!Places
  <2>2. Drawing(u) /\ Findings(r, u)
    BY <1>6, <1>7, <2>1 DEF Drawing, Findings, Busy, Analysing!Busy
  <2>3. Asking(r, u)
    BY <1>2, <1>3, <1>6, <1>7, <2>1, PartsAreLaws DEF Sound, Asking, Busy, Analysing!Busy
  <2>4. QED
    BY <1>6, <2>1, <2>2, <2>3 DEF Sound
<1>8. at \in {"picking", "ended", "failed"} /\ (at = "picking" => r \in Commands)
  OBVIOUS
<1> HIDE DEF at
<1>9. v = [o EXCEPT !.at = at] /\ [v EXCEPT !.at = "failed"] = [o EXCEPT !.at = "failed"]
  BY <1>1, <1>5 DEF Works
<1>10. QED
  BY <1>7, <1>8, <1>9 DEF v, w, d

LEMMA DrawFailsIsSound ==
  ASSUME LawsSound, NEW r \in Runners, Analysing!DrawFails(r)
  PROVE  LawsSound'
<1>1. /\ runner[r].at \in Busy /\ runner' = [runner EXCEPT ![r] = Analysing!After(r, runner[r], FALSE)]
      /\ UNCHANGED <<current, sheet, rollup, edges>> /\ writer' \in {writer, "none"}
      /\ troubles' = troubles \/ (troubles < TroubleBound /\ troubles' = troubles + 1)
  BY DEF Analysing!DrawFails, Analysing!Put, Analysing!Undone, Analysing!Trouble, Busy
<1>2. Sound(r, Analysing!After(r, runner[r], FALSE))
  BY <1>1, AfterIsSound
<1>3. troubles' \in 0..TroubleBound
  BY <1>1, AnalysisAssumption DEF LawsSound, LawsTyped
<1>4. QED
  BY <1>1, <1>2, <1>3, RunnerMoves DEF LawsSound, LawsTyped, SheetsTyped

LEMMA DiesIsSound ==
  ASSUME LawsSound, NEW r \in Runners, Analysing!Dies(r)
  PROVE  LawsSound'
<1> DEFINE v == [Analysing!After(r, runner[r], FALSE) EXCEPT !.at = "failed"]
<1>1. /\ runner[r].at \in Busy \union {"picking"} /\ runner' = [runner EXCEPT ![r] = v]
      /\ UNCHANGED <<current, sheet, rollup, edges>> /\ writer' \in {writer, "none"}
      /\ troubles < TroubleBound /\ troubles' = troubles + 1
  BY DEF Analysing!Dies, Analysing!Put, Analysing!Undone, Analysing!Trouble, Busy
<1>2. Sound(r, v)
  BY <1>1, AfterIsSound
<1>3. troubles' \in 0..TroubleBound
  BY <1>1, AnalysisAssumption DEF LawsSound, LawsTyped
<1> HIDE DEF v
<1>4. QED
  BY <1>1, <1>2, <1>3, RunnerMoves DEF LawsSound, LawsTyped, SheetsTyped

LEMMA PersistIsSound ==
  ASSUME LawsSound, NEW r \in Runners, Analysing!Persist(r)
  PROVE  LawsSound'
<1> DEFINE w == runner[r]
<1>1. /\ w.at = "persisting" /\ runner' = [runner EXCEPT ![r] = Analysing!After(r, w, TRUE)]
      /\ writer' = "none" /\ edges' = [edges EXCEPT ![w.law] = Analysing!Written(w)]
      /\ UNCHANGED <<current, troubles>>
      /\ IF w.law = Whole THEN rollup' = Analysing!RolledUp(r, w) /\ UNCHANGED sheet
         ELSE sheet' = [sheet EXCEPT ![w.law][w.edition] = Analysing!Kept(w, @)] /\ UNCHANGED rollup
  BY DEF Analysing!Persist, Analysing!Put, Analysing!Commits, Analysing!Into, Whole
<1>2. LawsTyped /\ Sound(r, w) /\ w \in Works
  BY DEF LawsSound, Sound
<1>3. Sound(r, Analysing!After(r, w, TRUE))
  BY <1>1, AfterIsSound DEF Busy, Analysing!Busy
<1> HIDE DEF w
<1>4. edges' \in [OfLaws -> SUBSET Analysing!Drawings]
  BY <1>1, <1>2 DEF LawsTyped, Works, Analysing!Written
<1>5. rollup' \in Rollups
  <2>1. Analysing!RolledUp(r, w) \in Rollups
    BY <1>2 DEF LawsTyped, Works, Rollups, Analysing!RolledUp
  <2>2. QED
    BY <1>1, <1>2, <2>1 DEF LawsTyped
<1>6. SheetsTyped'
  <2>1. \A x \in Sheets : Analysing!Kept(w, x) \in Sheets
    BY <1>2 DEF Works, Sheets, Analysing!Kept
  <2>2. w.law # Whole => w.law \in Parts /\ w.edition \in Editions
    BY <1>1, <1>2, PartsAreLaws DEF Sound, Drawing, Busy, Analysing!Busy, Works
  <2>3. QED
    BY <1>1, <1>2, <2>1, <2>2 DEF LawsTyped, SheetsTyped
<1>7. runner' \in [Runners -> Works] /\ \A x \in Runners : Sound(x, runner'[x])
  BY <1>1, <1>3, RunnerMoves
<1>8. QED
  BY <1>1, <1>2, <1>4, <1>5, <1>6, <1>7 DEF LawsSound, LawsTyped

LEMMA FoundTyped ==
  ASSUME LawsTyped, NEW r \in Runners, NEW n,
         n \in {{}, IF Analysing!TextOf(r) = 0 THEN {} ELSE {[by |-> r, text |-> Analysing!TextOf(r)]}}
  PROVE  n \in SUBSET Analysing!Drawings /\ \A x \in n : x.by = r /\ \A y \in n : x = y
<1>1. Analysing!TextOf(r) \in 0..EditionBound
  BY SourcesTyped DEF Analysing!TextOf, LawsTyped, Works
<1>2. Analysing!TextOf(r) # 0 => [by |-> r, text |-> Analysing!TextOf(r)] \in Analysing!Drawings
  BY <1>1, PartsAreLaws
<1>3. QED
  BY <1>2

(* What a runner that opens the relationships of a law makes of itself,    *)
(* and of those that are at the same law.                                  *)
LEMMA OpenEdgesDoes ==
  ASSUME LawsSound, NEW r \in Runners, Analysing!OpenEdges(r)
  PROVE  /\ runner[r].at = "drawing" /\ runner[r].todo # <<>> /\ Head(runner[r].todo) = "relationships"
         /\ writer' = r /\ UNCHANGED <<current, sheet, rollup, edges, troubles>>
         /\ \E n \in SUBSET Analysing!Drawings, a \in {"naming", "citing"} :
              /\ \A x \in n : x.by = r /\ \A y \in n : x = y
              /\ runner' = [x \in Runners |->
                   CASE x = r -> [runner[r] EXCEPT !.at = a, !.named = n, !.relates = TRUE, !.deletes = TRUE,
                                                   !.alone = (Analysing!Others(r) = {})]
                     [] x \in Analysing!Others(r) -> [runner[x] EXCEPT !.alone = FALSE]
                     [] OTHER -> runner[x]]
<1> DEFINE w == runner[r]
           found == IF Analysing!TextOf(r) = 0 THEN {} ELSE {[by |-> r, text |-> Analysing!TextOf(r)]}
<1>1. /\ w.at = "drawing" /\ Head(w.todo) = "relationships" /\ writer' = r
      /\ \E named \in {{}, found} :
           runner' = [x \in Runners |->
             CASE x = r -> [w EXCEPT !.at = IF named = {} THEN "citing" ELSE "naming", !.named = named,
                                     !.relates = TRUE, !.deletes = TRUE, !.alone = (Analysing!Others(r) = {})]
               [] x \in Analysing!Others(r) -> [runner[x] EXCEPT !.alone = FALSE]
               [] OTHER -> runner[x]]
      /\ UNCHANGED <<current, sheet, rollup, edges, troubles>>
  BY DEF Analysing!OpenEdges, Runners
<1>2. PICK named \in {{}, found} :
           runner' = [x \in Runners |->
             CASE x = r -> [w EXCEPT !.at = IF named = {} THEN "citing" ELSE "naming", !.named = named,
                                     !.relates = TRUE, !.deletes = TRUE, !.alone = (Analysing!Others(r) = {})]
               [] x \in Analysing!Others(r) -> [runner[x] EXCEPT !.alone = FALSE]
               [] OTHER -> runner[x]]
  BY <1>1
<1>3. w.todo # <<>>
  BY <1>1 DEF LawsSound, Sound, Drawing
<1>4. named \in SUBSET Analysing!Drawings /\ \A x \in named : x.by = r /\ \A y \in named : x = y
  BY FoundTyped DEF LawsSound
<1> DEFINE a == IF named = {} THEN "citing" ELSE "naming"
<1>5. a \in {"naming", "citing"}
  OBVIOUS
<1> HIDE DEF found, a
<1>6. runner' = [x \in Runners |->
             CASE x = r -> [runner[r] EXCEPT !.at = a, !.named = named,
                                     !.relates = TRUE, !.deletes = TRUE, !.alone = (Analysing!Others(r) = {})]
               [] x \in Analysing!Others(r) -> [runner[x] EXCEPT !.alone = FALSE]
               [] OTHER -> runner[x]]
  BY <1>2 DEF a
<1>7. QED
  BY <1>1, <1>3, <1>4, <1>5, <1>6

LEMMA OthersRelate ==
  ASSUME NEW r \in Runners, NEW x
  PROVE  x \in Analysing!Others(r) <=> x \in Runners /\ x # r /\ runner[x].relates /\ runner[x].law = runner[r].law
BY DEF Analysing!Others, Runners

LEMMA OpenEdgesIsSound ==
  ASSUME LawsSound, NEW r \in Runners, Analysing!OpenEdges(r)
  PROVE  LawsSound'
<1>1. PICK n \in SUBSET Analysing!Drawings, a \in {"naming", "citing"} :
              /\ \A x \in n : x.by = r /\ \A y \in n : x = y
              /\ runner' = [x \in Runners |->
                   CASE x = r -> [runner[r] EXCEPT !.at = a, !.named = n, !.relates = TRUE, !.deletes = TRUE,
                                                   !.alone = (Analysing!Others(r) = {})]
                     [] x \in Analysing!Others(r) -> [runner[x] EXCEPT !.alone = FALSE]
                     [] OTHER -> runner[x]]
  BY OpenEdgesDoes
<1>2. /\ runner[r].at = "drawing" /\ runner[r].todo # <<>> /\ Head(runner[r].todo) = "relationships"
      /\ writer' = r /\ UNCHANGED <<current, sheet, rollup, edges, troubles>>
  BY OpenEdgesDoes
<1>3. LawsTyped /\ \A x \in Runners : Sound(x, runner[x]) /\ runner[x] \in Works
  BY DEF LawsSound, Sound
<1> DEFINE w == runner[r]
           l == (Analysing!Others(r) = {})
           v == [w EXCEPT !.at = a, !.named = n, !.relates = TRUE, !.deletes = TRUE, !.alone = l]
<1>4. l \in BOOLEAN
  OBVIOUS
<1> HIDE DEF l
<1>5. /\ v \in Works /\ v.at = a /\ v.named = n /\ v.relates = TRUE /\ v.deletes = TRUE
      /\ v.law = w.law /\ v.ask = w.ask /\ v.todo = w.todo /\ v.left = w.left /\ v.edition = w.edition /\ v.pending = w.pending
  BY <1>3, <1>4 DEF Works, Analysing!Places, Analysing!Busy
<1>6. Len(w.todo) = 1
  <2> DEFINE k == Len(w.todo)
  <2>1. k \in Nat /\ k # 0 /\ w.todo[1] = "relationships"
    BY <1>2, <1>3, EmptyHasNoLength DEF Works
  <2>2. 1 \notin 1..(k - 1)
    BY <1>2, <1>3, <2>1 DEF Sound, Drawing
  <2> HIDE DEF k
  <2>3. k = 1
    BY ONLY <2>1, <2>2, SMT
  <2>4. QED
    BY <2>3 DEF k
<1>7. w.todo # <<"summary">>
  BY <1>2
<1>8. Sound(r, w) /\ w.at = "drawing"
  BY <1>2, <1>3
<1> HIDE DEF w, v
<1>9. Drawing(v)
  BY <1>5, <1>6, <1>8, EmptyHasNoLength DEF Sound, Drawing, Works, Busy, Analysing!Busy
<1>10. Findings(r, v)
  <2>1. w.pending = {}
    BY <1>8 DEF Sound, Drawing, Findings
  <2>2. QED
    BY <1>1, <1>5, <2>1 DEF Findings
<1>11. Asking(r, v)
  BY <1>5, <1>7, <1>8 DEF Sound, Asking, Busy, Analysing!Busy
<1> DEFINE F(x) == CASE x = r -> v
                    [] x \in Analysing!Others(r) -> [runner[x] EXCEPT !.alone = FALSE]
                    [] OTHER -> runner[x]
<1>16. runner' = [x \in Runners |-> F(x)]
  BY <1>1 DEF v, w, l
<1>12. runner'[r] = v /\ Sound(r, v)
  <2>1. F(r) = v
    BY OthersRelate
  <2> HIDE DEF F
  <2>2. runner'[r] = v
    BY <1>16, <2>1
  <2>3. QED
    BY <1>5, <1>9, <1>10, <1>11, <2>2 DEF Sound
<1>13. ASSUME NEW x \in Runners, x # r
       PROVE  Sound(x, runner'[x])
  <2>1. CASE x \in Analysing!Others(r)
    <3>1. runner[x].relates
      BY <2>1, OthersRelate
    <3> DEFINE u == [runner[x] EXCEPT !.alone = FALSE]
    <3>2. runner'[x] = u
      BY <1>16, <1>13, <2>1
    <3>3. /\ u \in Works /\ u.at = runner[x].at /\ u.law = runner[x].law /\ u.ask = runner[x].ask /\ u.todo = runner[x].todo
          /\ u.left = runner[x].left /\ u.edition = runner[x].edition /\ u.has = runner[x].has /\ u.relates = runner[x].relates
          /\ u.deletes = runner[x].deletes /\ u.named = runner[x].named /\ u.pending = runner[x].pending
      BY <1>3 DEF Works
    <3> HIDE DEF u
    <3>4. Sound(x, runner[x]) /\ runner[x].at \in {"naming", "citing", "persisting"}
      BY <1>3, <3>1 DEF Sound, Drawing
    <3>5. Drawing(u) /\ Findings(x, u) /\ Asking(x, u)
      BY <3>3, <3>4 DEF Sound, Drawing, Findings, Asking
    <3>6. QED
      BY <3>2, <3>3, <3>5 DEF Sound
  <2>2. CASE x \notin Analysing!Others(r)
    <3>1. runner'[x] = runner[x]
      BY <1>16, <1>13, <2>2
    <3>2. QED
      BY <1>3, <3>1
  <2>3. QED
    BY <2>1, <2>2
<1>14. runner' \in [Runners -> Works] /\ \A x \in Runners : Sound(x, runner'[x])
  <2>1. \A x \in Runners : Sound(x, runner'[x])
    BY <1>12, <1>13
  <2> HIDE DEF F
  <2>2. runner' = [x \in Runners |-> runner'[x]]
    BY <1>16
  <2>3. QED
    BY <2>1, <2>2 DEF Sound
<1>15. QED
  BY <1>2, <1>3, <1>14 DEF LawsSound, LawsTyped, SheetsTyped

(* A job's progress is committed, and a law's relationships with it.       *)
LEMMA ProgressIsSound ==
  ASSUME LawsSound, NEW r \in Runners, NEW w \in Works, NEW v, w.law = runner[r].law, v \in {w, Analysing!Committed(w)},
         runner' = [runner EXCEPT ![r] = v], Sound(r, v),
         UNCHANGED <<current, sheet, rollup, troubles>>, writer' \in {writer, "none"},
         edges' \in {edges, [edges EXCEPT ![w.law] = Analysing!Written(w)]}
  PROVE  LawsSound'
<1>1. edges' \in [OfLaws -> SUBSET Analysing!Drawings]
  <2>1. edges \in [OfLaws -> SUBSET Analysing!Drawings] /\ w.law \in OfLaws /\ w.pending \in SUBSET Analysing!Drawings
    BY DEF LawsSound, LawsTyped, Works
  <2>2. Analysing!Written(w) \in SUBSET Analysing!Drawings
    BY <2>1 DEF Analysing!Written
  <2>3. QED
    BY <2>1, <2>2
<1>2. runner' \in [Runners -> Works] /\ \A x \in Runners : Sound(x, runner'[x])
  BY RunnerMoves
<1>3. QED
  BY <1>1, <1>2 DEF LawsSound, LawsTyped, SheetsTyped

LEMMA ClassifyDoes ==
  ASSUME LawsSound, NEW r \in Runners, Analysing!Classify(r)
  PROVE  LET w == [runner[r] EXCEPT !.at = "citing"] IN
         /\ runner[r].at = "naming" /\ UNCHANGED <<current, sheet, rollup, troubles>>
         /\ \/ /\ r \in Jobs /\ runner' = [runner EXCEPT ![r] = Analysing!Committed(w)] /\ writer' = "none"
               /\ edges' = [edges EXCEPT ![runner[r].law] = Analysing!Written(runner[r])]
            \/ r \in Commands /\ runner' = [runner EXCEPT ![r] = w] /\ UNCHANGED <<edges, writer>>
BY PartsAreLaws DEF Analysing!Classify, Analysing!Progress, Analysing!Commits, Analysing!Put

LEMMA ClassifyIsSound ==
  ASSUME LawsSound, NEW r \in Runners, Analysing!Classify(r)
  PROVE  LawsSound'
<1> DEFINE w == [runner[r] EXCEPT !.at = "citing"]
           u == Analysing!Committed(w)
<1>1. /\ runner[r].at = "naming" /\ UNCHANGED <<current, sheet, rollup, troubles>>
      /\ \/ /\ r \in Jobs /\ runner' = [runner EXCEPT ![r] = u] /\ writer' = "none"
            /\ edges' = [edges EXCEPT ![runner[r].law] = Analysing!Written(runner[r])]
         \/ r \in Commands /\ runner' = [runner EXCEPT ![r] = w] /\ UNCHANGED <<edges, writer>>
  BY ClassifyDoes
<1>2. Sound(r, runner[r]) /\ runner[r] \in Works
  BY DEF LawsSound, Sound
<1>3. /\ w \in Works /\ w.at = "citing" /\ w.law = runner[r].law /\ w.todo = runner[r].todo /\ w.relates = runner[r].relates
      /\ w.deletes = runner[r].deletes /\ w.pending = runner[r].pending /\ w.named = runner[r].named
      /\ w.alone = runner[r].alone /\ w.left = runner[r].left /\ w.ask = runner[r].ask /\ w.has = runner[r].has
      /\ w.edition = runner[r].edition
  BY <1>2 DEF Works, Analysing!Places, Analysing!Busy
<1>4. Analysing!Written(w) = Analysing!Written(runner[r])
  BY <1>3 DEF Analysing!Written
<1> HIDE DEF w
<1>5. /\ u \in Works /\ u.at = "citing" /\ u.law = w.law /\ u.todo = w.todo /\ u.relates = w.relates
      /\ u.deletes = FALSE /\ u.pending = {} /\ u.named = w.named
      /\ u.alone = w.alone /\ u.left = w.left /\ u.ask = w.ask /\ u.has = w.has /\ u.edition = w.edition
  BY <1>3 DEF Works, Analysing!Committed
<1> HIDE DEF u
<1>6. Drawing(w) /\ Findings(r, w) /\ Asking(r, w)
  BY <1>1, <1>2, <1>3 DEF Sound, Drawing, Findings, Asking, Busy, Analysing!Busy
<1>7. r \in Jobs => Drawing(u) /\ Findings(r, u) /\ Asking(r, u)
  BY <1>3, <1>5, <1>6, PartsAreLaws DEF Drawing, Findings, Asking, Busy, Analysing!Busy
<1>8. CASE r \in Jobs /\ runner' = [runner EXCEPT ![r] = u] /\ writer' = "none"
           /\ edges' = [edges EXCEPT ![runner[r].law] = Analysing!Written(runner[r])]
  BY <1>1, <1>3, <1>4, <1>5, <1>7, <1>8, ProgressIsSound DEF Sound, u
<1>9. CASE r \in Commands /\ runner' = [runner EXCEPT ![r] = w] /\ UNCHANGED <<edges, writer>>
  BY <1>1, <1>3, <1>6, <1>9, ProgressIsSound DEF Sound
<1>10. QED
  BY <1>1, <1>8, <1>9

(* What Cite makes of its runner: what was named is to be added, by a job  *)
(* at once or with all the rest.                                           *)
LEMMA CiteDoes ==
  ASSUME LawsSound, NEW r \in Runners, Analysing!Cite(r),
         NEW w, w = [runner[r] EXCEPT !.pending = runner[r].named], NEW n, n = Analysing!Next1(w)
  PROVE  /\ runner[r].at = "citing" /\ UNCHANGED <<current, sheet, rollup, troubles>>
         /\ \/ runner' = [runner EXCEPT ![r] = n] /\ UNCHANGED <<edges, writer>>
            \/ /\ r \in Jobs /\ runner' = [runner EXCEPT ![r] = Analysing!Committed(n)] /\ writer' = "none"
               /\ edges' = [edges EXCEPT ![w.law] = Analysing!Written(w)]
         /\ w \in Works /\ w.pending = runner[r].named /\ w.named = runner[r].named /\ w.law = runner[r].law
         /\ w.deletes = runner[r].deletes
         /\ n \in Works /\ n.at = "persisting" /\ n.todo = <<>>
         /\ n.law = w.law /\ n.relates /\ n.deletes = w.deletes /\ n.pending = w.pending /\ n.named = w.named
         /\ n.alone = runner[r].alone /\ n.left = runner[r].left /\ n.ask = runner[r].ask /\ n.has = runner[r].has
         /\ n.edition = runner[r].edition
<1>1. /\ runner[r].at = "citing" /\ UNCHANGED <<current, sheet, rollup, troubles>>
      /\ \/ runner' = [runner EXCEPT ![r] = n] /\ UNCHANGED <<edges, writer>>
         \/ /\ r \in Jobs /\ runner' = [runner EXCEPT ![r] = Analysing!Committed(n)] /\ writer' = "none"
            /\ edges' = [edges EXCEPT ![w.law] = Analysing!Written(w)]
  BY DEF Analysing!Cite, Analysing!Put
<1>2. Sound(r, runner[r]) /\ runner[r] \in Works
  BY DEF LawsSound, Sound
<1>3. Len(runner[r].todo) = 1 /\ runner[r].relates /\ runner[r].todo # <<>>
      /\ \A i \in 1..(Len(runner[r].todo) - 1) : runner[r].todo[i] # "relationships"
  BY <1>1, <1>2 DEF Sound, Drawing
<1>4. /\ w \in Works /\ w.law = runner[r].law /\ w.todo = runner[r].todo /\ w.relates = runner[r].relates
      /\ w.deletes = runner[r].deletes /\ w.pending = runner[r].named /\ w.named = runner[r].named
      /\ w.alone = runner[r].alone /\ w.left = runner[r].left /\ w.ask = runner[r].ask /\ w.has = runner[r].has
      /\ w.edition = runner[r].edition
  BY <1>2 DEF Works
<1>5. /\ w.todo # <<>> /\ Len(w.todo) = 1 /\ \A i \in 1..(Len(w.todo) - 1) : w.todo[i] # "relationships"
  BY <1>3, <1>4
<1>6. /\ n \in Works /\ n.at = "persisting" /\ n.todo = <<>>
      /\ n.law = w.law /\ n.relates = w.relates /\ n.deletes = w.deletes /\ n.pending = w.pending /\ n.named = w.named
      /\ n.alone = w.alone /\ n.left = w.left /\ n.ask = w.ask /\ n.has = w.has /\ n.edition = w.edition
  BY ONLY <1>4, <1>5, n = Analysing!Next1(w), GoingOn
<1>7. QED
  BY <1>1, <1>3, <1>4, <1>6

LEMMA CiteIsSound ==
  ASSUME LawsSound, NEW r \in Runners, Analysing!Cite(r)
  PROVE  LawsSound'
<1> DEFINE w == [runner[r] EXCEPT !.pending = runner[r].named]
           n == Analysing!Next1(w)
           u == Analysing!Committed(n)
<1>1. /\ runner[r].at = "citing" /\ UNCHANGED <<current, sheet, rollup, troubles>>
      /\ \/ runner' = [runner EXCEPT ![r] = n] /\ UNCHANGED <<edges, writer>>
         \/ /\ r \in Jobs /\ runner' = [runner EXCEPT ![r] = u] /\ writer' = "none"
            /\ edges' = [edges EXCEPT ![w.law] = Analysing!Written(w)]
      /\ w \in Works /\ w.pending = runner[r].named /\ w.named = runner[r].named /\ w.law = runner[r].law
      /\ w.deletes = runner[r].deletes
      /\ n \in Works /\ n.at = "persisting" /\ n.todo = <<>>
      /\ n.law = w.law /\ n.relates /\ n.deletes = w.deletes /\ n.pending = w.pending /\ n.named = w.named
      /\ n.alone = runner[r].alone /\ n.left = runner[r].left /\ n.ask = runner[r].ask /\ n.has = runner[r].has
      /\ n.edition = runner[r].edition
  BY CiteDoes
<1>2. Sound(r, runner[r]) /\ runner[r] \in Works
  BY DEF LawsSound, Sound
<1> HIDE DEF w, n
<1>3. /\ u \in Works /\ u.at = n.at /\ u.law = n.law /\ u.todo = n.todo /\ u.relates = n.relates
      /\ u.deletes = FALSE /\ u.pending = {} /\ u.named = n.named
      /\ u.alone = n.alone /\ u.left = n.left /\ u.ask = n.ask /\ u.has = n.has /\ u.edition = n.edition
      /\ Analysing!Written(n) = Analysing!Written(w)
  BY <1>1 DEF Works, Analysing!Committed, Analysing!Written
<1> HIDE DEF u
<1>4. Drawing(n)
  BY <1>1, <1>2 DEF Sound, Drawing, Busy, Analysing!Busy
<1>5. Findings(r, n)
  BY <1>1, <1>2 DEF Sound, Drawing, Findings, Busy, Analysing!Busy
<1>6. Asking(r, n)
  BY <1>1, <1>2 DEF Sound, Asking, Busy, Analysing!Busy
<1>7. r \in Jobs => Drawing(u) /\ Findings(r, u) /\ Asking(r, u)
  BY <1>1, <1>3, <1>4, <1>5, <1>6, PartsAreLaws DEF Drawing, Findings, Asking, Busy, Analysing!Busy
<1>8. CASE runner' = [runner EXCEPT ![r] = n] /\ UNCHANGED <<edges, writer>>
  BY <1>1, <1>4, <1>5, <1>6, <1>8, ProgressIsSound DEF Sound
<1>9. CASE /\ r \in Jobs /\ runner' = [runner EXCEPT ![r] = u] /\ writer' = "none"
           /\ edges' = [edges EXCEPT ![w.law] = Analysing!Written(w)]
  BY <1>1, <1>3, <1>7, <1>9, ProgressIsSound DEF Sound, u
<1>10. QED
  BY <1>1, <1>8, <1>9

LEMMA ReplaceIsSound ==
  ASSUME LawsSound, NEW p \in Revised \intersect Parts, Analysing!Replace(p)
  PROVE  LawsSound'
<1>1. current' \in Manifests
  <2>1. current \in [Parts -> 0..EditionBound] /\ p \in Parts /\ EditionBound \in Nat
    BY PartsAreLaws DEF LawsSound, LawsTyped, Manifests
  <2>2. current[p] < EditionBound /\ current' = [current EXCEPT ![p] = @ + 1]
    BY DEF Analysing!Replace
  <2>3. current[p] + 1 \in 0..EditionBound
    BY <2>1, <2>2
  <2>4. QED
    BY <2>1, <2>2, <2>3 DEF Manifests
<1>2. UNCHANGED <<sheet, rollup, edges, writer, runner, troubles>>
  BY DEF Analysing!Replace
<1>3. QED
  BY <1>1, <1>2 DEF LawsSound, LawsTyped, SheetsTyped

(* The steps, by what they do to what is drawn: a runner begins, idles,    *)
(* goes on, takes up a law, draws, or keeps what it has drawn.             *)
Begins(x)  == runner[x].at = "off" /\ runner'[x].at \in {"queued", "picking"} /\ runner'[x].drew = {}
Idles(x)   == /\ runner[x].at # "off" /\ runner'[x].at \in {"picking", "ended", "failed"}
              /\ runner'[x].drew = runner[x].drew /\ runner'[x].ask = runner[x].ask
              /\ runner'[x].left = runner[x].left \/ runner[x].left # <<>>
GoesOn(x)  == /\ runner[x].at \in Busy /\ runner'[x].at \in Busy /\ runner'[x].law = runner[x].law
              /\ runner'[x].edition = runner[x].edition /\ runner'[x].has = runner[x].has /\ runner'[x].out = runner[x].out
              /\ runner'[x].ask = runner[x].ask /\ runner'[x].left = runner[x].left
              /\ runner'[x].sources = runner[x].sources /\ runner'[x].drew = runner[x].drew
Quiet == /\ UNCHANGED <<sheet, rollup>> /\ \A p \in Parts : current[p] <= current'[p]
         /\ \A x \in Runners : runner'[x] = runner[x] \/ Begins(x) \/ Idles(x) \/ GoesOn(x)
TakesUp(r) ==
  \E w \in Works, l \in OfLaws :
    /\ runner' = [runner EXCEPT ![r] = Analysing!Taken(w, l, w.ask)]
    /\ w.drew = runner[r].drew /\ w.ask = runner[r].ask /\ runner[r].at \in {"queued", "picking"}
    /\ r \in Commands => runner[r].left # <<>> /\ l = Head(runner[r].left) /\ w.left = Tail(runner[r].left)
    /\ l # Whole => current[l] # 0
    /\ UNCHANGED <<current, sheet, rollup>>

LEMMA StepsOfAnalyses ==
  ASSUME LawsSound, Analysing!AnalysisNext
  PROVE  Quiet \/ \E r \in Runners : TakesUp(r) \/ Analysing!Draw(r) \/ Analysing!Persist(r)
<1>1. LawsTyped /\ \A x \in Runners : Sound(x, runner[x]) /\ runner[x] \in Works
  BY DEF LawsSound, Sound
<1>2. \A p \in Parts : current[p] <= current[p]
  BY <1>1 DEF LawsTyped, Manifests
<1>3. ASSUME NEW p \in Revised, Analysing!Replace(p)
      PROVE  Quiet
  <2>1. current' = [current EXCEPT ![p] = @ + 1] /\ UNCHANGED <<sheet, rollup, runner>> /\ current \in [Parts -> 0..EditionBound]
    BY <1>1, <1>3 DEF Analysing!Replace, LawsTyped, Manifests
  <2>2. \A q \in Parts : current[q] <= current'[q]
    BY <2>1
  <2>3. QED
    BY <2>1, <2>2 DEF Quiet
<1>4. ASSUME NEW j \in Jobs, NEW l \in OfLaws, NEW a \in Wanted \union {"all"}, Analysing!AskFor(j, l, a)
      PROVE  Quiet
  <2> DEFINE v == [Analysing!NoRunner EXCEPT !.at = "queued", !.law = l, !.ask = a]
  <2>1. runner[j].at = "off" /\ runner' = [runner EXCEPT ![j] = v] /\ UNCHANGED <<current, sheet, rollup>>
    BY <1>4 DEF Analysing!AskFor, Analysing!Put
  <2>2. v.at = "queued" /\ v.drew = {}
    BY DEF Analysing!NoRunner
  <2> HIDE DEF v
  <2>3. QED
    BY <1>1, <1>2, <2>1, <2>2, PartsAreLaws DEF Quiet, Begins, LawsTyped
<1>5. ASSUME NEW j \in Jobs, Analysing!LoadLaw(j)
      PROVE  Quiet \/ TakesUp(j)
  <2> DEFINE w == runner[j]
             f == [w EXCEPT !.at = "failed"]
  <2>1. w.at = "queued" /\ j \in Runners /\ j \notin Commands /\ w \in Works /\ UNCHANGED <<current, sheet, rollup>>
    BY <1>1, <1>5, PartsAreLaws DEF Analysing!LoadLaw
  <2>2. CASE Analysing!Offered(w.law, w.ask)
    <3>1. runner' = [runner EXCEPT ![j] = Analysing!Taken(w, w.law, w.ask)]
      BY <1>5, <2>2 DEF Analysing!LoadLaw, Analysing!Put
    <3>2. w.law \in OfLaws /\ (w.law # Whole => current[w.law] # 0)
      BY <2>1, <2>2 DEF Analysing!Offered, Whole, Works
    <3> HIDE DEF w
    <3>3. TakesUp(j)
      BY <2>1, <3>1, <3>2 DEF TakesUp, w
    <3>4. QED
      BY <3>3
  <2>3. CASE ~Analysing!Offered(w.law, w.ask)
    <3>1. runner' = [runner EXCEPT ![j] = f]
      BY <1>5, <2>3 DEF Analysing!LoadLaw, Analysing!Put
    <3>2. f.at = "failed" /\ f.drew = w.drew /\ f.ask = w.ask /\ f.left = w.left
      BY <2>1 DEF Works
    <3> HIDE DEF f
    <3>3. Quiet
      BY <1>1, <1>2, <2>1, <3>1, <3>2 DEF Quiet, Idles, LawsTyped
    <3>4. QED
      BY <3>3
  <2>4. QED
    BY <2>2, <2>3
<1>6. ASSUME NEW c \in Commands, NEW a \in Wanted, NEW f \in BOOLEAN, Analysing!StartCommand(c, a, f)
      PROVE  Quiet
  <2> DEFINE v == [Analysing!NoRunner EXCEPT !.at = "picking", !.ask = a, !.force = f, !.left = Analysing!InRunOrder(PartOrder)]
  <2>1. runner[c].at = "off" /\ runner' = [runner EXCEPT ![c] = v] /\ UNCHANGED <<current, sheet, rollup>>
    BY <1>6 DEF Analysing!StartCommand, Analysing!Put
  <2>2. v.at = "picking" /\ v.drew = {}
    BY DEF Analysing!NoRunner
  <2> HIDE DEF v
  <2>3. QED
    BY <1>1, <1>2, <2>1, <2>2, PartsAreLaws DEF Quiet, Begins, LawsTyped
<1>7. ASSUME NEW c \in Commands, Analysing!Pick(c)
      PROVE  Quiet \/ TakesUp(c)
  <2> DEFINE w == runner[c]
             l == Head(w.left)
             rest == [w EXCEPT !.left = Tail(w.left)]
             ready == (w.force \/ ~Analysing!Done(l, w.ask)) /\ Analysing!Offered(l, w.ask)
  <2>1. /\ w.at = "picking" /\ w.left # <<>> /\ UNCHANGED <<current, sheet, rollup>>
        /\ runner' = [runner EXCEPT ![c] = IF ready THEN Analysing!Taken(rest, l, w.ask) ELSE rest]
    BY <1>7 DEF Analysing!Pick, Analysing!Put
  <2>2. c \in Runners /\ w \in Works
    BY <1>1, PartsAreLaws
  <2>3. w.left \in Seq(OfLaws)
    BY <2>2 DEF Works
  <2>4. l \in OfLaws /\ Tail(w.left) \in Seq(OfLaws)
    BY <2>1, <2>3, HeadTailProperties
  <2>5. rest \in Works /\ rest.drew = w.drew /\ rest.ask = w.ask /\ rest.left = Tail(w.left) /\ rest.at = "picking"
    BY <2>1, <2>2, <2>4 DEF Works
  <2>6. ready /\ l # Whole => current[l] # 0
    BY DEF Analysing!Offered, Whole
  <2> HIDE DEF rest, ready
  <2>7. CASE ready
    <3>1. runner' = [runner EXCEPT ![c] = Analysing!Taken(rest, l, rest.ask)]
      BY <2>1, <2>5, <2>7
    <3>2. TakesUp(c)
      BY <2>1, <2>4, <2>5, <2>6, <2>7, <3>1 DEF TakesUp
    <3>3. QED
      BY <3>2
  <2>8. CASE ~ready
    <3>1. runner' = [runner EXCEPT ![c] = rest]
      BY <2>1, <2>8
    <3>2. Quiet
      BY <1>1, <1>2, <2>1, <2>2, <2>5, <3>1 DEF Quiet, Idles, LawsTyped
    <3>3. QED
      BY <3>2
  <2>9. QED
    BY <2>7, <2>8
<1>8. ASSUME NEW c \in Commands, Analysing!CommandEnds(c)
      PROVE  Quiet
  <2> DEFINE w == runner[c]
             v == [w EXCEPT !.at = "ended"]
  <2>1. w.at = "picking" /\ runner' = [runner EXCEPT ![c] = v] /\ UNCHANGED <<current, sheet, rollup>>
    BY <1>8 DEF Analysing!CommandEnds, Analysing!Put
  <2>2. c \in Runners /\ w \in Works
    BY <1>1, PartsAreLaws
  <2>3. v.at = "ended" /\ v.drew = w.drew /\ v.ask = w.ask /\ v.left = w.left
    BY <2>2 DEF Works
  <2> HIDE DEF v
  <2>4. QED
    BY <1>1, <1>2, <2>1, <2>2, <2>3 DEF Quiet, Idles, LawsTyped
<1>9. ASSUME NEW r \in Runners, Analysing!OpenEdges(r)
      PROVE  Quiet
  <2>1. PICK n \in SUBSET Analysing!Drawings, a \in {"naming", "citing"} :
              /\ \A x \in n : x.by = r /\ \A y \in n : x = y
              /\ runner' = [x \in Runners |->
                   CASE x = r -> [runner[r] EXCEPT !.at = a, !.named = n, !.relates = TRUE, !.deletes = TRUE,
                                                   !.alone = (Analysing!Others(r) = {})]
                     [] x \in Analysing!Others(r) -> [runner[x] EXCEPT !.alone = FALSE]
                     [] OTHER -> runner[x]]
    BY <1>9, OpenEdgesDoes
  <2>2. runner[r].at = "drawing" /\ UNCHANGED <<current, sheet, rollup>>
    BY <1>9, OpenEdgesDoes
  <2> DEFINE F(x) == CASE x = r -> [runner[r] EXCEPT !.at = a, !.named = n, !.relates = TRUE, !.deletes = TRUE,
                                                     !.alone = (Analysing!Others(r) = {})]
                       [] x \in Analysing!Others(r) -> [runner[x] EXCEPT !.alone = FALSE]
                       [] OTHER -> runner[x]
  <2>3. \A x \in Runners : runner'[x] = F(x)
    BY <2>1
  <2>4. F(r) = [runner[r] EXCEPT !.at = a, !.named = n, !.relates = TRUE, !.deletes = TRUE, !.alone = (Analysing!Others(r) = {})]
    BY OthersRelate
  <2>5. GoesOn(r)
    <3> HIDE DEF F
    <3>1. runner'[r] = [runner[r] EXCEPT !.at = a, !.named = n, !.relates = TRUE, !.deletes = TRUE,
                                         !.alone = (Analysing!Others(r) = {})]
      BY <2>3, <2>4
    <3>2. QED
      BY <1>1, <2>2, <3>1 DEF GoesOn, Works, Busy, Analysing!Busy
  <2>6. ASSUME NEW x \in Runners, x # r
        PROVE  runner'[x] = runner[x] \/ GoesOn(x)
    <3>1. CASE x \in Analysing!Others(r)
      <4>1. F(x) = [runner[x] EXCEPT !.alone = FALSE]
        BY <2>6, <3>1
      <4> HIDE DEF F
      <4>2. runner'[x] = [runner[x] EXCEPT !.alone = FALSE]
        BY <2>3, <4>1
      <4>3. runner[x].at \in Busy
        BY <1>1, <3>1, OthersRelate DEF Sound, Drawing, Busy, Analysing!Busy
      <4>4. QED
        BY <1>1, <4>2, <4>3 DEF GoesOn, Works
    <3>2. CASE x \notin Analysing!Others(r)
      BY <2>3, <2>6, <3>2
    <3>3. QED
      BY <3>1, <3>2
  <2>7. QED
    BY <1>2, <2>2, <2>5, <2>6 DEF Quiet
<1>10. ASSUME NEW r \in Runners, Analysing!Classify(r)
       PROVE  Quiet
  <2> DEFINE w == [runner[r] EXCEPT !.at = "citing"]
             u == Analysing!Committed(w)
  <2>1. runner[r].at = "naming" /\ UNCHANGED <<current, sheet, rollup>>
        /\ (runner' = [runner EXCEPT ![r] = u] \/ runner' = [runner EXCEPT ![r] = w])
    BY <1>10, ClassifyDoes
  <2>2. /\ w \in Works /\ w.at = "citing" /\ w.law = runner[r].law /\ w.edition = runner[r].edition /\ w.has = runner[r].has
        /\ w.out = runner[r].out /\ w.ask = runner[r].ask /\ w.left = runner[r].left /\ w.sources = runner[r].sources
        /\ w.drew = runner[r].drew
    BY <1>1 DEF Works, Analysing!Places, Analysing!Busy
  <2> HIDE DEF w
  <2>3. /\ u.at = "citing" /\ u.law = w.law /\ u.edition = w.edition /\ u.has = w.has
        /\ u.out = w.out /\ u.ask = w.ask /\ u.left = w.left /\ u.sources = w.sources /\ u.drew = w.drew
    BY <2>2 DEF Works, Analysing!Committed
  <2> HIDE DEF u
  <2>4. GoesOn(r) /\ \A x \in Runners \ {r} : runner'[x] = runner[x]
    BY <1>1, <2>1, <2>2, <2>3 DEF GoesOn, LawsTyped, Busy, Analysing!Busy
  <2>5. QED
    BY <1>2, <2>1, <2>4 DEF Quiet
<1>11. ASSUME NEW r \in Runners, Analysing!Cite(r)
       PROVE  Quiet
  <2> DEFINE w == [runner[r] EXCEPT !.pending = runner[r].named]
             n == Analysing!Next1(w)
             u == Analysing!Committed(n)
  <2>1. /\ runner[r].at = "citing" /\ UNCHANGED <<current, sheet, rollup>>
        /\ runner' = [runner EXCEPT ![r] = u] \/ runner' = [runner EXCEPT ![r] = n]
        /\ n \in Works /\ n.at = "persisting"
    BY <1>11, CiteDoes
  <2>2. /\ w \in Works /\ w.law = runner[r].law /\ w.edition = runner[r].edition /\ w.has = runner[r].has /\ w.todo = runner[r].todo
        /\ w.out = runner[r].out /\ w.ask = runner[r].ask /\ w.left = runner[r].left /\ w.sources = runner[r].sources
        /\ w.drew = runner[r].drew
    BY <1>1 DEF Works
  <2>3. w.todo # <<>> /\ \A i \in 1..(Len(w.todo) - 1) : w.todo[i] # "relationships"
    <3>1. Sound(r, runner[r])
      BY <1>1
    <3> HIDE DEF w
    <3>2. QED
      BY <2>1, <2>2, <3>1 DEF Sound, Drawing
  <2> HIDE DEF w
  <2>4. /\ n.law = w.law /\ n.edition = w.edition /\ n.has = w.has
        /\ n.out = w.out /\ n.ask = w.ask /\ n.left = w.left /\ n.sources = w.sources /\ n.drew = w.drew
    BY <2>2, <2>3, GoingOn
  <2> HIDE DEF n
  <2>5. /\ u.at = "persisting" /\ u.law = n.law /\ u.edition = n.edition /\ u.has = n.has
        /\ u.out = n.out /\ u.ask = n.ask /\ u.left = n.left /\ u.sources = n.sources /\ u.drew = n.drew
    BY <2>1 DEF Works, Analysing!Committed
  <2> HIDE DEF u
  <2>6. GoesOn(r) /\ \A x \in Runners \ {r} : runner'[x] = runner[x]
    BY <1>1, <2>1, <2>2, <2>4, <2>5 DEF GoesOn, LawsTyped, Busy, Analysing!Busy
  <2>7. QED
    BY <1>2, <2>1, <2>6 DEF Quiet
<1>12. ASSUME NEW r \in Runners, Analysing!DrawFails(r) \/ Analysing!Dies(r)
       PROVE  Quiet
  <2> DEFINE v == Analysing!After(r, runner[r], FALSE)
             u == [v EXCEPT !.at = "failed"]
  <2>1. runner[r].at \in Busy \union {"picking"} /\ UNCHANGED <<current, sheet, rollup>>
        /\ (runner' = [runner EXCEPT ![r] = u] \/ runner' = [runner EXCEPT ![r] = v])
    BY <1>12 DEF Analysing!DrawFails, Analysing!Dies, Analysing!Put, Busy
  <2>2. /\ Sound(r, v) /\ v.at \in {"picking", "ended", "failed"} /\ v.left = runner[r].left /\ v.ask = runner[r].ask
        /\ v.drew = runner[r].drew
    BY <2>1, AfterIsSound
  <2> HIDE DEF v
  <2>3. /\ u.at = "failed" /\ u.left = v.left /\ u.ask = v.ask /\ u.drew = v.drew
    BY <2>2 DEF Sound, Works
  <2> HIDE DEF u
  <2>4. Idles(r) /\ \A x \in Runners \ {r} : runner'[x] = runner[x]
    BY <1>1, <2>1, <2>2, <2>3 DEF Idles, LawsTyped, Busy, Analysing!Busy
  <2>5. QED
    BY <1>2, <2>1, <2>4 DEF Quiet
<1>13. \A p \in Revised : p \in Parts
  BY AnalysisAssumption DEF Parts, Analysing!Parts
<1>14. CASE \E p \in Revised : Analysing!Replace(p)
  BY <1>3, <1>14
<1>15. CASE \E j \in Jobs : Analysing!LoadLaw(j) \/ \E law \in OfLaws, ask \in Wanted \union {"all"} : Analysing!AskFor(j, law, ask)
  BY <1>4, <1>5, <1>15, PartsAreLaws
<1>16. CASE \E c \in Commands : \/ Analysing!Pick(c) \/ Analysing!CommandEnds(c)
                                \/ \E ask \in Wanted, force \in BOOLEAN : Analysing!StartCommand(c, ask, force)
  BY <1>6, <1>7, <1>8, <1>16, PartsAreLaws
<1>17. CASE \E r \in Runners : \/ Analysing!Draw(r) \/ Analysing!OpenEdges(r) \/ Analysing!Classify(r) \/ Analysing!Cite(r)
                               \/ Analysing!Persist(r) \/ Analysing!DrawFails(r) \/ Analysing!Dies(r)
  BY <1>9, <1>10, <1>11, <1>12, <1>17
<1>18. QED
  BY <1>14, <1>15, <1>16, <1>17 DEF Analysing!AnalysisNext, OfLaws, Wanted, Runners

LEMMA AnalysisStaysSound == LawsSound /\ [Analysing!AnalysisNext]_lawState => LawsSound'
<1> SUFFICES ASSUME LawsSound, [Analysing!AnalysisNext]_lawState
             PROVE  LawsSound'
  OBVIOUS
<1>1. CASE UNCHANGED lawState
  BY <1>1 DEF lawState, LawsSound, LawsTyped, SheetsTyped
<1>2. ASSUME NEW p \in Revised, Analysing!Replace(p)
      PROVE  LawsSound'
  <2>1. p \in Parts
    BY AnalysisAssumption DEF Parts, Analysing!Parts
  <2>2. QED
    BY <1>2, <2>1, ReplaceIsSound
<1>3. ASSUME NEW j \in Jobs, Analysing!LoadLaw(j) \/ \E law \in OfLaws, ask \in Wanted \union {"all"} : Analysing!AskFor(j, law, ask)
      PROVE  LawsSound'
  BY <1>3, LoadLawIsSound, AskForIsSound
<1>4. ASSUME NEW c \in Commands, \/ Analysing!Pick(c) \/ Analysing!CommandEnds(c)
                                 \/ \E ask \in Wanted, force \in BOOLEAN : Analysing!StartCommand(c, ask, force)
      PROVE  LawsSound'
  BY <1>4, PickIsSound, CommandEndsIsSound, StartCommandIsSound
<1>5. ASSUME NEW r \in Runners, \/ Analysing!Draw(r) \/ Analysing!OpenEdges(r) \/ Analysing!Classify(r) \/ Analysing!Cite(r)
                                \/ Analysing!Persist(r) \/ Analysing!DrawFails(r) \/ Analysing!Dies(r)
      PROVE  LawsSound'
  BY <1>5, DrawIsSound, OpenEdgesIsSound, ClassifyIsSound, CiteIsSound, PersistIsSound, DrawFailsIsSound, DiesIsSound
<1>6. QED
  BY <1>1, <1>2, <1>3, <1>4, <1>5 DEF Analysing!AnalysisNext, OfLaws, Wanted, Runners

(***************************************************************************)
(* What is kept with an edition was drawn from it, and the summary of a    *)
(* collection covers the parts its command summarised before it.           *)
(***************************************************************************)
OneReading(x) ==
  runner[x].at \in Busy /\ runner[x].law # Whole =>
    /\ runner[x].edition <= current[runner[x].law]
    /\ "summary" \in runner[x].has => runner[x].out.summary = runner[x].edition
    /\ "tags" \in runner[x].has => runner[x].out.tags = runner[x].edition
    /\ "entities" \in runner[x].has => runner[x].out.entities = {[by |-> x, text |-> runner[x].edition]}
Summarised(c) ==
  runner[c].ask = "summary" => \A x \in runner[c].drew : sheet[x[1]][x[2]].summary # 0 /\ x[2] <= current[x[1]]
Covering(c) ==
  runner[c].ask = "summary" /\ runner[c].at \in Busy /\ runner[c].law = Whole =>
    \A x \in runner[c].drew : x \in runner[c].sources \/ current[x[1]] # x[2]
RolledLast(c) ==
  rollup.by = c => runner[c].at \in {"picking", "ended", "failed"} /\ runner[c].left = <<>>

LawsKept == /\ Analysing!KeptWithItsEdition /\ Analysing!RollupSeesItsParts
            /\ \A x \in Runners : OneReading(x)
            /\ \A c \in Commands : Summarised(c) /\ Covering(c) /\ RolledLast(c)

LEMMA KeptBegins == Analysing!AnalysisInit => LawsKept
<1> SUFFICES ASSUME Analysing!AnalysisInit
             PROVE  LawsKept
  OBVIOUS
<1>1. /\ sheet = [p \in Parts |-> [e \in Editions |-> Analysing!NoSheet]] /\ rollup = Analysing!NoRollup
      /\ runner = [r \in Runners |-> Analysing!NoRunner]
  BY DEF Analysing!AnalysisInit, Parts, Editions, Runners
<1>2. Analysing!KeptWithItsEdition
  BY <1>1 DEF Analysing!KeptWithItsEdition, Analysing!NoSheet, Parts, Editions
<1>3. \A x \in Runners : runner[x].at = "off" /\ runner[x].ask = "none"
  BY <1>1 DEF Analysing!NoRunner
<1>4. rollup.by = "none"
  BY <1>1 DEF Analysing!NoRollup
<1>5. QED
  BY <1>2, <1>3, <1>4, PartsAreLaws DEF LawsKept, OneReading, Summarised, Covering, RolledLast, Analysing!RollupSeesItsParts,
     Busy, Analysing!Busy

(* A step that changes neither what was kept nor what was summed up.       *)
LEMMA QuietKeeps ==
  ASSUME LawsSound, LawsSound', LawsKept, Quiet
  PROVE  LawsKept'
<1>1. LawsTyped /\ LawsTyped' /\ \A x \in Runners : Sound(x, runner[x]) /\ runner[x] \in Works
  BY DEF LawsSound, Sound
<1>2. /\ sheet' = sheet /\ rollup' = rollup /\ \A p \in Parts : current[p] <= current'[p]
      /\ \A x \in Runners : runner'[x] = runner[x] \/ Begins(x) \/ Idles(x) \/ GoesOn(x)
  BY DEF Quiet
<1>3. \A c \in Commands : c \in Runners
  BY PartsAreLaws
<1>4. ASSUME NEW c \in Runners, NEW x \in runner[c].drew
      PROVE  x[1] \in Parts /\ x[2] \in Editions /\ x = <<x[1], x[2]>>
  BY <1>1 DEF Works, Readings
<1>5. Analysing!KeptWithItsEdition'
  BY <1>2 DEF LawsKept, Analysing!KeptWithItsEdition
<1>6. ASSUME NEW x \in Runners
      PROVE  OneReading(x)'
  <2>1. CASE runner'[x] = runner[x] \/ GoesOn(x)
    <3>1. runner[x].at \in Busy /\ runner[x].law # Whole =>
            /\ runner[x].edition \in Nat /\ current[runner[x].law] \in Nat /\ current'[runner[x].law] \in Nat
            /\ current[runner[x].law] <= current'[runner[x].law]
      <4>1. runner[x].law \in Parts \union {Whole} /\ runner[x].edition \in Nat
        BY <1>1, PartsAreLaws DEF Works
      <4>2. \A p \in Parts : current[p] \in Nat /\ current'[p] \in Nat
        BY <1>1, PartsAreLaws DEF LawsTyped, Manifests
      <4>3. QED
        BY <1>2, <4>1, <4>2
    <3>2. OneReading(x)
      BY DEF LawsKept
    <3>3. /\ runner'[x].at \in Busy => runner[x].at \in Busy
          /\ runner'[x].law = runner[x].law /\ runner'[x].edition = runner[x].edition
          /\ runner'[x].has = runner[x].has /\ runner'[x].out = runner[x].out
      BY <2>1 DEF GoesOn
    <3>4. runner[x].at \in Busy /\ runner[x].law # Whole => runner[x].edition <= current'[runner[x].law]
      BY <3>1, <3>2 DEF OneReading
    <3>5. QED
      BY <3>2, <3>3, <3>4 DEF OneReading
  <2>2. CASE Begins(x) \/ Idles(x)
    BY <2>2 DEF OneReading, Begins, Idles, Busy, Analysing!Busy
  <2>3. QED
    BY <1>2, <2>1, <2>2
<1>7. ASSUME NEW c \in Commands
      PROVE  Summarised(c)'
  <2>1. CASE runner'[c] = runner[c] \/ GoesOn(c) \/ Idles(c)
    <3>1. runner'[c].ask = runner[c].ask /\ runner'[c].drew = runner[c].drew
      BY <2>1 DEF GoesOn, Idles
    <3>2. ASSUME NEW x \in runner[c].drew
          PROVE  current[x[1]] \in Nat /\ current'[x[1]] \in Nat /\ current[x[1]] <= current'[x[1]] /\ x[2] \in Nat
      BY <1>1, <1>2, <1>3, <1>4, <3>2, PartsAreLaws DEF LawsTyped, Manifests
    <3>3. ASSUME runner[c].ask = "summary", NEW x \in runner[c].drew
          PROVE  sheet[x[1]][x[2]].summary # 0 /\ x[2] <= current'[x[1]]
      <4>1. sheet[x[1]][x[2]].summary # 0 /\ x[2] <= current[x[1]]
        BY <3>3 DEF LawsKept, Summarised
      <4>2. current[x[1]] \in Nat /\ current'[x[1]] \in Nat /\ current[x[1]] <= current'[x[1]] /\ x[2] \in Nat
        BY <3>2
      <4>3. x[2] <= current'[x[1]]
        BY <4>1, <4>2
      <4>4. QED
        BY <4>1, <4>3
    <3>4. QED
      BY <1>2, <3>1, <3>3 DEF Summarised
  <2>2. CASE Begins(c)
    BY <2>2 DEF Begins, Summarised
  <2>3. QED
    BY <1>2, <1>3, <2>1, <2>2
<1>8. ASSUME NEW c \in Commands
      PROVE  Covering(c)'
  <2>1. CASE runner'[c] = runner[c] \/ GoesOn(c)
    <3> SUFFICES ASSUME (runner[c].ask = "summary")', (runner[c].at \in Busy)', (runner[c].law = Whole)', NEW x \in runner[c].drew
                 PROVE  x \in runner[c].sources \/ current'[x[1]] # x[2]
      BY <2>1 DEF Covering, GoesOn
    <3>1. current[x[1]] \in Nat /\ current'[x[1]] \in Nat /\ current[x[1]] <= current'[x[1]] /\ x[2] \in Nat
      BY <1>1, <1>2, <1>3, <1>4, PartsAreLaws DEF LawsTyped, Manifests
    <3>2. x[2] <= current[x[1]] /\ (x \in runner[c].sources \/ current[x[1]] # x[2])
      BY <2>1 DEF LawsKept, Summarised, Covering, GoesOn
    <3>3. QED
      BY <3>1, <3>2
  <2>2. CASE Begins(c) \/ Idles(c)
    BY <2>2 DEF Covering, Begins, Idles, Busy, Analysing!Busy
  <2>3. QED
    BY <1>2, <1>3, <2>1, <2>2
<1>9. ASSUME NEW c \in Commands
      PROVE  RolledLast(c)'
  BY <1>2, <1>3 DEF LawsKept, RolledLast, GoesOn, Idles, Begins, Busy, Analysing!Busy
<1>10. Analysing!RollupSeesItsParts'
  <2> SUFFICES ASSUME NEW c \in Commands, rollup.by = c, (runner[c].ask = "summary")', NEW x \in runner'[c].drew
               PROVE  x \in rollup.of \/ current'[x[1]] # x[2]
    BY <1>2 DEF Analysing!RollupSeesItsParts
  <2>1. runner[c].at \in {"picking", "ended", "failed"}
    BY DEF LawsKept, RolledLast
  <2>2. runner'[c].ask = runner[c].ask /\ runner'[c].drew = runner[c].drew
    BY <1>2, <1>3, <2>1 DEF Begins, Idles, GoesOn, Busy, Analysing!Busy
  <2>3. x[2] <= current[x[1]] /\ (x \in rollup.of \/ current[x[1]] # x[2])
    BY <2>2 DEF LawsKept, Summarised, Analysing!RollupSeesItsParts
  <2>4. current[x[1]] \in Nat /\ current'[x[1]] \in Nat /\ current[x[1]] <= current'[x[1]] /\ x[2] \in Nat
    BY <1>1, <1>2, <1>3, <1>4, <2>2, PartsAreLaws DEF LawsTyped, Manifests
  <2>5. QED
    BY <2>3, <2>4
<1>11. QED
  BY <1>5, <1>6, <1>7, <1>8, <1>9, <1>10 DEF LawsKept

(* A runner that takes up a law.                                           *)
LEMMA TakingKeeps ==
  ASSUME LawsSound, LawsKept, NEW r \in Runners, TakesUp(r)
  PROVE  LawsKept'
<1>1. LawsTyped /\ \A x \in Runners : Sound(x, runner[x]) /\ runner[x] \in Works
  BY DEF LawsSound, Sound
<1>2. PICK w \in Works, l \in OfLaws :
        /\ runner' = [runner EXCEPT ![r] = Analysing!Taken(w, l, w.ask)]
        /\ w.drew = runner[r].drew /\ w.ask = runner[r].ask /\ runner[r].at \in {"queued", "picking"}
        /\ r \in Commands => runner[r].left # <<>> /\ l = Head(runner[r].left) /\ w.left = Tail(runner[r].left)
        /\ l # Whole => current[l] # 0
        /\ UNCHANGED <<current, sheet, rollup>>
  BY DEF TakesUp
<1> DEFINE v == Analysing!Taken(w, l, w.ask)
<1>3. /\ v.at = "drawing" /\ v.law = l /\ v.edition = Analysing!EditionOf(l) /\ v.has = {} /\ v.drew = w.drew /\ v.ask = w.ask
      /\ v.sources = Analysing!Sources
  BY DEF Analysing!Taken, Works
<1> HIDE DEF v
<1>4. runner'[r] = v /\ \A x \in Runners \ {r} : runner'[x] = runner[x]
  BY <1>1, <1>2 DEF LawsTyped, v
<1>5. sheet' = sheet /\ rollup' = rollup /\ current' = current
  BY <1>2
<1>6. \A x \in Runners : OneReading(x)'
  <2>1. ASSUME l # Whole
        PROVE  Analysing!EditionOf(l) <= current[l]
    <3>1. l \in Parts /\ Analysing!EditionOf(l) = current[l] /\ current[l] \in Nat
      BY <1>1, <2>1, PartsAreLaws, SourcesTyped DEF LawsTyped, Manifests
    <3>2. QED
      BY <3>1
  <2>2. OneReading(r)'
    BY <1>3, <1>4, <1>5, <2>1 DEF OneReading
  <2>3. QED
    BY <1>4, <1>5, <2>2 DEF LawsKept, OneReading
<1>7. \A c \in Commands : Summarised(c)'
  BY <1>2, <1>3, <1>4, <1>5, PartsAreLaws DEF LawsKept, Summarised
<1>8. ASSUME r \in Commands, v.ask = "summary", NEW x \in v.drew
      PROVE  x \in Analysing!Sources \/ current[x[1]] # x[2]
  <2>1. x[1] \in Parts /\ x[2] \in Editions /\ x = <<x[1], x[2]>>
    BY <1>1, <1>2, <1>3, <1>8 DEF Works, Readings
  <2>2. sheet[x[1]][x[2]].summary # 0
    BY <1>2, <1>3, <1>8 DEF LawsKept, Summarised
  <2>3. QED
    BY <2>1, <2>2, PartsAreLaws DEF Analysing!Sources, Parts
<1>9. \A c \in Commands : Covering(c)'
  <2>1. r \in Commands => Covering(r)'
    BY <1>3, <1>4, <1>5, <1>8 DEF Covering
  <2>2. QED
    BY <1>4, <1>5, <2>1, PartsAreLaws DEF LawsKept, Covering
<1>10. r \in Commands => rollup.by # r
  BY <1>2 DEF LawsKept, RolledLast
<1>11. \A c \in Commands : RolledLast(c)'
  BY <1>4, <1>5, <1>10, PartsAreLaws DEF LawsKept, RolledLast
<1>12. Analysing!RollupSeesItsParts'
  BY <1>2, <1>3, <1>4, <1>5, PartsAreLaws DEF LawsKept, Analysing!RollupSeesItsParts
<1>13. Analysing!KeptWithItsEdition'
  BY <1>5 DEF LawsKept, Analysing!KeptWithItsEdition
<1>14. QED
  BY <1>6, <1>7, <1>9, <1>11, <1>12, <1>13 DEF LawsKept

LEMMA DrawDoes ==
  ASSUME LawsSound, NEW r \in Runners, Analysing!Draw(r)
  PROVE  LET w == runner[r]  f == Head(w.todo)  v == runner'[r] IN
         /\ w.at = "drawing" /\ f \in {"summary", "tags", "entities"} /\ v.at \in {"persisting", "drawing"}
         /\ \A x \in Runners \ {r} : runner'[x] = runner[x]
         /\ v.law = w.law /\ v.ask = w.ask /\ v.left = w.left /\ v.edition = w.edition /\ v.sources = w.sources
         /\ v.drew = w.drew /\ v.has = w.has \union {f}
         /\ v.out = CASE f = "summary" -> [w.out EXCEPT !.summary = w.edition]
                      [] f = "tags" -> [w.out EXCEPT !.tags = Analysing!Basis(w)]
                      [] f = "entities" -> [w.out EXCEPT !.entities = {[by |-> r, text |-> w.edition]}]
         /\ UNCHANGED <<current, sheet, rollup>>
<1> DEFINE w == runner[r]
           f == Head(w.todo)
           out == CASE f = "summary" -> [w.out EXCEPT !.summary = w.edition]
                    [] f = "tags" -> [w.out EXCEPT !.tags = Analysing!Basis(w)]
                    [] f = "entities" -> [w.out EXCEPT !.entities = {[by |-> r, text |-> w.edition]}]
           n == Analysing!Next1(w)
           v == [n EXCEPT !.out = out, !.has = @ \union {f}]
<1>1. /\ w.at = "drawing" /\ f # "relationships" /\ runner' = [runner EXCEPT ![r] = v]
      /\ UNCHANGED <<current, sheet, rollup>>
  BY DEF Analysing!Draw, Analysing!Put
<1>2. LawsTyped /\ Sound(r, w) /\ w \in Works
  BY DEF LawsSound, Sound
<1>3. w.todo # <<>> /\ w.todo \in Seq(Wanted) /\ \A i \in 1..(Len(w.todo) - 1) : w.todo[i] # "relationships"
  BY <1>1, <1>2 DEF Sound, Drawing, Works
<1>4. f \in {"summary", "tags", "entities"}
  BY <1>1, <1>3 DEF Wanted, Analysing!Features
<1> HIDE DEF w, f, out
<1>5. /\ n \in Works /\ n.at \in {"persisting", "drawing"} /\ n.law = w.law /\ n.ask = w.ask /\ n.left = w.left
      /\ n.edition = w.edition /\ n.has = w.has /\ n.drew = w.drew /\ n.sources = w.sources
  BY <1>2, <1>3, GoingOn
<1> HIDE DEF n
<1>6. /\ v.at = n.at /\ v.law = n.law /\ v.ask = n.ask /\ v.left = n.left /\ v.edition = n.edition
      /\ v.has = n.has \union {f} /\ v.out = out /\ v.drew = n.drew /\ v.sources = n.sources
  BY <1>5 DEF Works
<1> HIDE DEF v
<1>7. runner'[r] = v /\ \A x \in Runners \ {r} : runner'[x] = runner[x]
  BY <1>1, <1>2 DEF LawsTyped
<1>8. QED
  BY <1>1, <1>4, <1>5, <1>6, <1>7 DEF w, f, out

LEMMA DrawingKeeps ==
  ASSUME LawsSound, LawsKept, NEW r \in Runners, Analysing!Draw(r)
  PROVE  LawsKept'
<1> DEFINE w == runner[r]
           f == Head(w.todo)
           v == runner'[r]
<1>1. /\ w.at = "drawing" /\ f \in {"summary", "tags", "entities"} /\ v.at \in {"persisting", "drawing"}
      /\ \A x \in Runners \ {r} : runner'[x] = runner[x]
      /\ v.law = w.law /\ v.ask = w.ask /\ v.left = w.left /\ v.edition = w.edition /\ v.sources = w.sources
      /\ v.drew = w.drew /\ v.has = w.has \union {f}
      /\ v.out = CASE f = "summary" -> [w.out EXCEPT !.summary = w.edition]
                   [] f = "tags" -> [w.out EXCEPT !.tags = Analysing!Basis(w)]
                   [] f = "entities" -> [w.out EXCEPT !.entities = {[by |-> r, text |-> w.edition]}]
  BY DrawDoes
<1>2. sheet' = sheet /\ rollup' = rollup /\ current' = current
  BY DEF Analysing!Draw
<1>3. LawsTyped /\ Sound(r, w) /\ w \in Works /\ w.out \in Sheets
  BY DEF LawsSound, Sound, Works
<1>4. w.at \in Busy /\ v.at \in Busy
  BY <1>1 DEF Busy, Analysing!Busy
<1>5. OneReading(r)'
  <2> SUFFICES ASSUME w.law # Whole
               PROVE  /\ w.edition <= current[w.law]
                      /\ "summary" \in v.has => v.out.summary = w.edition
                      /\ "tags" \in v.has => v.out.tags = w.edition
                      /\ "entities" \in v.has => v.out.entities = {[by |-> r, text |-> w.edition]}
    BY <1>1, <1>2 DEF OneReading
  <2>1. /\ w.edition <= current[w.law]
        /\ "summary" \in w.has => w.out.summary = w.edition
        /\ "tags" \in w.has => w.out.tags = w.edition
        /\ "entities" \in w.has => w.out.entities = {[by |-> r, text |-> w.edition]}
    BY <1>4 DEF LawsKept, OneReading
  <2>2. Analysing!Basis(w) = w.edition
    <3>1. w.law \in Parts /\ w.edition \in Editions
      BY <1>3, <1>4, PartsAreLaws DEF Sound, Drawing, Works
    <3>2. sheet[w.law][w.edition].summary \in {0, w.edition}
      BY <3>1 DEF LawsKept, Analysing!KeptWithItsEdition, Parts, Editions
    <3>3. QED
      BY <2>1, <3>2 DEF Analysing!Basis, Whole
  <2> HIDE DEF w, f, v
  <2>3. CASE f = "summary"
    <3>1. v.out = [w.out EXCEPT !.summary = w.edition]
      BY <1>1, <2>3
    <3>2. v.out.summary = w.edition /\ v.out.tags = w.out.tags /\ v.out.entities = w.out.entities
      BY <1>3, <3>1 DEF Sheets
    <3>3. QED
      BY <1>1, <2>1, <2>3, <3>2
  <2>4. CASE f = "tags"
    <3>1. v.out = [w.out EXCEPT !.tags = w.edition]
      BY <1>1, <2>2, <2>4
    <3>2. v.out.summary = w.out.summary /\ v.out.tags = w.edition /\ v.out.entities = w.out.entities
      BY <1>3, <3>1 DEF Sheets
    <3>3. QED
      BY <1>1, <2>1, <2>4, <3>2
  <2>5. CASE f = "entities"
    <3>1. v.out = [w.out EXCEPT !.entities = {[by |-> r, text |-> w.edition]}]
      BY <1>1, <2>5
    <3>2. v.out.summary = w.out.summary /\ v.out.tags = w.out.tags /\ v.out.entities = {[by |-> r, text |-> w.edition]}
      BY <1>3, <3>1 DEF Sheets
    <3>3. QED
      BY <1>1, <2>1, <2>5, <3>2
  <2>6. QED
    BY <1>1, <2>3, <2>4, <2>5
<1>6. \A x \in Runners : OneReading(x)'
  <2>1. ASSUME NEW x \in Runners \ {r}
        PROVE  OneReading(x)'
    <3>1. runner'[x] = runner[x] /\ current' = current /\ OneReading(x)
      BY <1>1, <1>2 DEF LawsKept
    <3>2. QED
      BY ONLY <3>1 DEF OneReading
  <2>2. QED
    BY <1>5, <2>1
<1>7. \A c \in Commands : Summarised(c)' /\ Covering(c)'
  BY <1>1, <1>2, <1>4, PartsAreLaws DEF LawsKept, Summarised, Covering
<1>8. r \in Commands => rollup.by # r
  BY <1>1 DEF LawsKept, RolledLast
<1>9. \A c \in Commands : RolledLast(c)'
  BY <1>1, <1>2, <1>8, PartsAreLaws DEF LawsKept, RolledLast
<1>10. Analysing!RollupSeesItsParts'
  BY <1>1, <1>2, PartsAreLaws DEF LawsKept, Analysing!RollupSeesItsParts
<1>11. Analysing!KeptWithItsEdition'
  BY <1>2 DEF LawsKept, Analysing!KeptWithItsEdition
<1>12. QED
  BY <1>6, <1>7, <1>9, <1>10, <1>11 DEF LawsKept

LEMMA PersistingKeeps ==
  ASSUME LawsSound, LawsKept, NEW r \in Runners, Analysing!Persist(r)
  PROVE  LawsKept'
<1> DEFINE w == runner[r]
           v == Analysing!After(r, w, TRUE)
<1>1. /\ w.at = "persisting" /\ runner' = [runner EXCEPT ![r] = v] /\ current' = current
      /\ IF w.law = Whole THEN rollup' = Analysing!RolledUp(r, w) /\ sheet' = sheet
         ELSE sheet' = [sheet EXCEPT ![w.law][w.edition] = Analysing!Kept(w, @)] /\ rollup' = rollup
  BY DEF Analysing!Persist, Analysing!Put, Analysing!Into, Whole
<1>2. LawsTyped /\ Sound(r, w) /\ w \in Works /\ w.at \in Busy
  BY <1>1 DEF LawsSound, Sound, Busy, Analysing!Busy
<1>3. /\ v.at \in {"picking", "ended", "failed"} /\ v.left = w.left /\ v.ask = w.ask
      /\ v.drew = IF w.law # Whole THEN w.drew \union {<<w.law, w.edition>>} ELSE w.drew
  BY <1>1, <1>2, AfterIsSound
<1> HIDE DEF v
<1>4. runner'[r] = v /\ \A x \in Runners \ {r} : runner'[x] = runner[x]
  BY <1>1, <1>2 DEF LawsTyped
<1>5. w.law # Whole => w.law \in Parts /\ w.edition \in Editions /\ w.edition # 0
  BY <1>2, PartsAreLaws DEF Sound, Drawing, Works
<1>6. OneReading(r) /\ (r \in Commands => Summarised(r) /\ Covering(r) /\ RolledLast(r))
  BY DEF LawsKept
<1> DEFINE k == Analysing!Kept(w, sheet[w.law][w.edition])
<1>7. w.law # Whole =>
        /\ k.summary = IF "summary" \in w.has THEN w.edition ELSE sheet[w.law][w.edition].summary
        /\ k.tags = IF "tags" \in w.has THEN w.edition ELSE sheet[w.law][w.edition].tags
        /\ k.entities = IF "entities" \in w.has THEN {[by |-> r, text |-> w.edition]} ELSE sheet[w.law][w.edition].entities
  BY <1>2, <1>6 DEF Analysing!Kept, OneReading
<1> HIDE DEF k
<1>8. ASSUME NEW p \in Parts, NEW e \in Editions
      PROVE  /\ w.law # Whole /\ p = w.law /\ e = w.edition => sheet'[p][e] = k
             /\ w.law = Whole \/ p # w.law \/ e # w.edition => sheet'[p][e] = sheet[p][e]
  <2>1. CASE w.law = Whole
    BY <1>1, <2>1
  <2>2. CASE w.law # Whole
    <3>1. sheet' = [sheet EXCEPT ![w.law][w.edition] = k]
      BY <1>1, <2>2 DEF k
    <3> HIDE DEF w
    <3>2. QED
      BY <1>2, <1>5, <2>2, <3>1 DEF LawsTyped, SheetsTyped
  <2>3. QED
    BY <2>1, <2>2
<1> HIDE DEF w
<1>9. Analysing!KeptWithItsEdition'
  <2> SUFFICES ASSUME NEW p \in Parts, NEW e \in Editions
               PROVE  /\ {sheet'[p][e].summary, sheet'[p][e].tags} \subseteq {0, e}
                      /\ \A x \in sheet'[p][e].entities : x.text = e /\ \A y \in sheet'[p][e].entities : x = y
    BY DEF Analysing!KeptWithItsEdition, Parts, Editions
  <2>1. /\ {sheet[p][e].summary, sheet[p][e].tags} \subseteq {0, e}
        /\ \A x \in sheet[p][e].entities : x.text = e /\ \A y \in sheet[p][e].entities : x = y
    BY DEF LawsKept, Analysing!KeptWithItsEdition, Parts, Editions
  <2>2. CASE w.law # Whole /\ p = w.law /\ e = w.edition
    BY <1>7, <1>8, <2>1, <2>2
  <2>3. CASE ~(w.law # Whole /\ p = w.law /\ e = w.edition)
    BY <1>8, <2>1, <2>3
  <2>4. QED
    BY <2>2, <2>3
<1>10. \A x \in Runners : OneReading(x)'
  BY <1>1, <1>3, <1>4 DEF LawsKept, OneReading, Busy, Analysing!Busy
<1>11. ASSUME NEW p \in Parts, NEW e \in Editions, sheet[p][e].summary # 0
       PROVE  sheet'[p][e].summary # 0
  BY <1>5, <1>7, <1>8, <1>11
<1>12. ASSUME NEW c \in Runners, NEW x \in runner[c].drew
       PROVE  x[1] \in Parts /\ x[2] \in Editions
  BY DEF LawsSound, LawsTyped, Works, Readings
<1>13. ASSUME NEW c \in Commands
       PROVE  Summarised(c)'
  <2>1. ASSUME runner[c].ask = "summary", NEW x \in runner[c].drew
        PROVE  sheet'[x[1]][x[2]].summary # 0 /\ x[2] <= current'[x[1]]
    BY <1>1, <1>11, <1>12, <2>1, PartsAreLaws DEF LawsKept, Summarised
  <2>2. CASE c # r
    BY <1>4, <2>1, <2>2, PartsAreLaws DEF Summarised
  <2>3. CASE c = r
    <3>1. ASSUME w.law # Whole, w.ask = "summary"
          PROVE  sheet'[w.law][w.edition].summary # 0 /\ w.edition <= current'[w.law]
      <4>1. "summary" \in w.has
        BY <1>1, <1>2, <2>3, <3>1, PartsAreLaws DEF Sound, Asking
      <4>2. w.edition <= current[w.law]
        BY <1>2, <1>6, <3>1 DEF OneReading, w
      <4>3. QED
        BY <1>1, <1>5, <1>7, <1>8, <3>1, <4>1, <4>2
    <3>2. QED
      BY <1>3, <1>4, <2>1, <2>3, <3>1 DEF Summarised, w
  <2>4. QED
    BY <2>2, <2>3
<1>14. \A c \in Commands : Covering(c)'
  BY <1>1, <1>3, <1>4, PartsAreLaws DEF LawsKept, Covering, Busy, Analysing!Busy
<1>15. r \in Commands /\ w.law = Whole => w.left = <<>>
  BY <1>2 DEF Sound, Asking
<1>16. rollup'.by = r \/ rollup'.by = rollup.by
  BY <1>1 DEF Analysing!RolledUp
<1>17. rollup'.by = r /\ r \in Commands => w.law = Whole /\ "summary" \in w.has
  <2>1. r \in Commands => rollup.by # r
    BY <1>1, <1>6 DEF RolledLast, w
  <2>2. QED
    BY <1>1, <2>1 DEF Analysing!RolledUp
<1>18. \A c \in Commands : RolledLast(c)'
  BY <1>3, <1>4, <1>15, <1>16, <1>17, PartsAreLaws DEF LawsKept, RolledLast
<1>19. Analysing!RollupSeesItsParts'
  <2> SUFFICES ASSUME NEW c \in Commands, rollup'.by = c, runner'[c].ask = "summary", NEW x \in runner'[c].drew
               PROVE  x \in rollup'.of \/ current[x[1]] # x[2]
    BY <1>1 DEF Analysing!RollupSeesItsParts
  <2>1. CASE c = r
    <3>1. w.law = Whole /\ rollup' = Analysing!RolledUp(r, w) /\ rollup'.of = w.sources
      BY <1>1, <1>17, <2>1 DEF Analysing!RolledUp
    <3>2. w.ask = "summary" /\ x \in w.drew
      BY <1>3, <1>4, <2>1, <3>1
    <3>3. QED
      BY <1>2, <1>6, <2>1, <3>1, <3>2 DEF Covering, w
  <2>2. CASE c # r
    <3>1. runner'[c] = runner[c] /\ rollup.by = c
      BY <1>4, <1>16, <2>2, PartsAreLaws
    <3>2. rollup'.of = rollup.of
      <4>1. CASE w.law = Whole
        BY <1>1, <2>2, <4>1 DEF Analysing!RolledUp
      <4>2. CASE w.law # Whole
        BY <1>1, <4>2
      <4>3. QED
        BY <4>1, <4>2
    <3>3. QED
      BY <3>1, <3>2 DEF LawsKept, Analysing!RollupSeesItsParts
  <2>3. QED
    BY <2>1, <2>2
<1>20. QED
  BY <1>9, <1>10, <1>13, <1>14, <1>18, <1>19 DEF LawsKept

LEMMA AnalysisKeeps == LawsSound /\ LawsKept /\ [Analysing!AnalysisNext]_lawState => LawsKept'
<1> SUFFICES ASSUME LawsSound, LawsKept, [Analysing!AnalysisNext]_lawState
             PROVE  LawsKept'
  OBVIOUS
<1>1. CASE UNCHANGED lawState
  BY <1>1 DEF lawState, LawsKept, OneReading, Summarised, Covering, RolledLast, Analysing!KeptWithItsEdition,
     Analysing!RollupSeesItsParts
<1>2. CASE Analysing!AnalysisNext
  BY <1>2, AnalysisStaysSound, StepsOfAnalyses, QuietKeeps, TakingKeeps, DrawingKeeps, PersistingKeeps
<1>3. QED
  BY <1>1, <1>2

(***************************************************************************)
(* The relationships of a law.  Those of two analyses are there together   *)
(* only if a job among them was not alone; a runner that is alone at a law *)
(* is the only one that relates it, and once a job has deleted what was    *)
(* there, all that is there is its own.                                    *)
(***************************************************************************)
Mixed     == \A l \in OfLaws : \A x, y \in edges[l] :
               x # y => \E b \in {x.by, y.by} : b \in Jobs /\ ~runner[b].alone
Apart     == \A x, y \in Runners :
               x # y /\ runner[x].relates /\ runner[y].relates /\ runner[x].law = runner[y].law => ~runner[x].alone
Cleared   == \A j \in Jobs :
               runner[j].relates /\ ~runner[j].deletes /\ runner[j].alone => edges[runner[j].law] \subseteq runner[j].named
LawsRelated == Mixed /\ Apart /\ Cleared

(* A runner goes on, opens a law's relationships, or commits some.         *)
Alike(r)  == /\ runner'[r].relates = runner[r].relates /\ runner'[r].law = runner[r].law
             /\ runner'[r].alone = runner[r].alone /\ runner'[r].named = runner[r].named
Steady(r) == /\ edges' = edges /\ \A x \in Runners \ {r} : runner'[x] = runner[x]
             /\ r \in Jobs /\ ~runner[r].alone => ~runner'[r].alone
             /\ ~runner'[r].relates \/ (Alike(r) /\ runner'[r].deletes = runner[r].deletes)
Writes(r) == \E p \in SUBSET runner[r].named :
               /\ edges' = [edges EXCEPT ![runner[r].law] = IF runner[r].deletes THEN p ELSE @ \union p]
               /\ \A x \in Runners \ {r} : runner'[x] = runner[x]
               /\ runner'[r].alone = runner[r].alone
               /\ ~runner'[r].relates \/ Alike(r)

LEMMA RelatedBegins == Analysing!AnalysisInit => LawsRelated
<1> SUFFICES ASSUME Analysing!AnalysisInit
             PROVE  LawsRelated
  OBVIOUS
<1>1. edges = [l \in OfLaws |-> {}] /\ runner = [r \in Runners |-> Analysing!NoRunner]
  BY DEF Analysing!AnalysisInit, OfLaws, Runners
<1>2. \A x \in Runners : runner[x].relates = FALSE
  BY <1>1 DEF Analysing!NoRunner
<1>3. Mixed
  BY <1>1 DEF Mixed
<1>4. QED
  BY <1>2, <1>3, PartsAreLaws DEF LawsRelated, Apart, Cleared

LEMMA SteadyRelates == ASSUME LawsSound, LawsRelated, NEW r \in Runners, Steady(r) PROVE LawsRelated'
<1>1. /\ edges' = edges /\ \A x \in Runners \ {r} : runner'[x] = runner[x]
      /\ r \in Jobs /\ ~runner[r].alone => ~runner'[r].alone
      /\ ~runner'[r].relates \/ (Alike(r) /\ runner'[r].deletes = runner[r].deletes)
  BY DEF Steady
<1>2. Mixed'
  <2> SUFFICES ASSUME NEW l \in OfLaws, NEW x \in edges[l], NEW y \in edges[l], x # y
               PROVE  \E b \in {x.by, y.by} : b \in Jobs /\ ~runner'[b].alone
    BY <1>1 DEF Mixed
  <2>1. PICK b \in {x.by, y.by} : b \in Jobs /\ ~runner[b].alone
    BY DEF LawsRelated, Mixed
  <2>2. QED
    BY <1>1, <2>1, PartsAreLaws
<1>3. Apart'
  BY <1>1 DEF LawsRelated, Apart, Alike
<1>4. Cleared'
  BY <1>1, PartsAreLaws DEF LawsRelated, Cleared, Alike
<1>5. QED
  BY <1>2, <1>3, <1>4 DEF LawsRelated

LEMMA WritingRelates == ASSUME LawsSound, LawsRelated, NEW r \in Runners, Writes(r) PROVE LawsRelated'
<1>1. PICK p \in SUBSET runner[r].named :
        /\ edges' = [edges EXCEPT ![runner[r].law] = IF runner[r].deletes THEN p ELSE @ \union p]
        /\ \A x \in Runners \ {r} : runner'[x] = runner[x]
        /\ runner'[r].alone = runner[r].alone
        /\ ~runner'[r].relates \/ Alike(r)
  BY DEF Writes
<1>2. Sound(r, runner[r]) /\ runner[r] \in Works /\ edges \in [OfLaws -> SUBSET Analysing!Drawings]
  BY DEF LawsSound, LawsTyped, Sound
<1>3. /\ ~runner[r].relates => ~runner[r].deletes /\ p = {}
      /\ runner[r].relates /\ r \in Commands => runner[r].deletes
      /\ \A x \in p : x.by = r /\ \A y \in runner[r].named : x = y
  BY <1>2 DEF Sound, Findings
<1> DEFINE k == runner[r].law
<1>4. /\ k \in OfLaws /\ edges'[k] = IF runner[r].deletes THEN p ELSE edges[k] \union p
      /\ \A l \in OfLaws \ {k} : edges'[l] = edges[l]
  BY <1>1, <1>2 DEF Works
<1>5. \A b \in Runners : runner'[b].alone = runner[b].alone
  BY <1>1
<1>6. r \in Jobs /\ runner[r].relates /\ ~runner[r].deletes /\ runner[r].alone => edges[k] \subseteq runner[r].named
  BY DEF LawsRelated, Cleared
<1>7. Mixed'
  <2> SUFFICES ASSUME NEW l \in OfLaws, NEW x \in edges'[l], NEW y \in edges'[l], x # y
               PROVE  \E b \in {x.by, y.by} : b \in Jobs /\ ~runner[b].alone
    BY <1>5, PartsAreLaws DEF Mixed
  <2>1. CASE x \in edges[l] /\ y \in edges[l]
    BY <2>1 DEF LawsRelated, Mixed
  <2>2. CASE ~(x \in edges[l] /\ y \in edges[l])
    <3>1. l = k /\ (x \in p \/ y \in p)
      BY <1>4, <2>2
    <3>2. r \in Jobs /\ runner[r].relates /\ ~runner[r].deletes
      <4>1. ~runner[r].deletes
        BY <1>3, <1>4, <3>1
      <4>2. QED
        BY <1>3, <3>1, <4>1, PartsAreLaws
    <3>3. ~runner[r].alone
      <4>1. runner[r].alone => x \in runner[r].named /\ y \in runner[r].named
        BY <1>4, <1>6, <3>1, <3>2
      <4>2. QED
        BY <1>3, <3>1, <4>1
    <3>4. r \in {x.by, y.by}
      BY <1>3, <3>1
    <3>5. QED
      BY <3>2, <3>3, <3>4
  <2>3. QED
    BY <2>1, <2>2
<1>8. Apart'
  BY <1>1 DEF LawsRelated, Apart, Alike
<1>9. Cleared'
  <2> SUFFICES ASSUME NEW j \in Jobs, runner'[j].relates, ~runner'[j].deletes, runner'[j].alone
               PROVE  edges'[runner'[j].law] \subseteq runner'[j].named
    BY DEF Cleared
  <2>1. CASE j = r
    <3>1. Alike(r)
      BY <1>1, <2>1
    <3>2. edges'[k] \subseteq runner[r].named
      BY <1>1, <1>4, <1>6, <2>1, <3>1 DEF Alike
    <3>3. QED
      BY <2>1, <3>1, <3>2 DEF Alike
  <2>2. CASE j # r
    <3>1. runner'[j] = runner[j] /\ j \in Runners
      BY <1>1, <2>2, PartsAreLaws
    <3>2. edges[runner[j].law] \subseteq runner[j].named
      BY <3>1 DEF LawsRelated, Cleared
    <3>3. runner[j].law = k => ~runner[r].relates
      BY <2>2, <3>1 DEF LawsRelated, Apart
    <3>4. edges'[runner[j].law] \subseteq edges[runner[j].law]
      <4>1. runner[j].law \in OfLaws
        BY <3>1 DEF LawsSound, LawsTyped, Works
      <4>2. CASE runner[j].law = k
        BY <1>3, <1>4, <3>3, <4>2
      <4>3. CASE runner[j].law # k
        BY <1>4, <4>1, <4>3
      <4>4. QED
        BY <4>2, <4>3
    <3>5. QED
      BY <3>1, <3>2, <3>4
  <2>3. QED
    BY <2>1, <2>2
<1>10. QED
  BY <1>7, <1>8, <1>9 DEF LawsRelated

LEMMA OpeningRelates ==
  ASSUME LawsSound, LawsRelated, NEW r \in Runners, Analysing!OpenEdges(r)
  PROVE  LawsRelated'
<1>1. PICK n \in SUBSET Analysing!Drawings, a \in {"naming", "citing"} :
              /\ \A x \in n : x.by = r /\ \A y \in n : x = y
              /\ runner' = [x \in Runners |->
                   CASE x = r -> [runner[r] EXCEPT !.at = a, !.named = n, !.relates = TRUE, !.deletes = TRUE,
                                                   !.alone = (Analysing!Others(r) = {})]
                     [] x \in Analysing!Others(r) -> [runner[x] EXCEPT !.alone = FALSE]
                     [] OTHER -> runner[x]]
  BY OpenEdgesDoes
<1>2. runner[r].at = "drawing" /\ edges' = edges
  BY OpenEdgesDoes
<1>3. LawsTyped /\ \A x \in Runners : Sound(x, runner[x]) /\ runner[x] \in Works
  BY DEF LawsSound, Sound
<1> DEFINE F(x) == CASE x = r -> [runner[r] EXCEPT !.at = a, !.named = n, !.relates = TRUE, !.deletes = TRUE,
                                                   !.alone = (Analysing!Others(r) = {})]
                     [] x \in Analysing!Others(r) -> [runner[x] EXCEPT !.alone = FALSE]
                     [] OTHER -> runner[x]
<1>4. \A x \in Runners : runner'[x] = F(x)
  BY <1>1
<1>5. F(r) = [runner[r] EXCEPT !.at = a, !.named = n, !.relates = TRUE, !.deletes = TRUE, !.alone = (Analysing!Others(r) = {})]
  BY OthersRelate
<1>6. \A x \in Analysing!Others(r) : F(x) = [runner[x] EXCEPT !.alone = FALSE]
  BY OthersRelate
<1>7. \A x \in Runners : x # r /\ x \notin Analysing!Others(r) => F(x) = runner[x]
  BY OthersRelate
<1> HIDE DEF F
<1>8. /\ runner'[r].relates /\ runner'[r].deletes /\ runner'[r].law = runner[r].law
      /\ runner'[r].alone => Analysing!Others(r) = {}
  <2> DEFINE b == (Analysing!Others(r) = {})
  <2>1. runner'[r] = [runner[r] EXCEPT !.at = a, !.named = n, !.relates = TRUE, !.deletes = TRUE, !.alone = b]
    BY <1>4, <1>5
  <2> HIDE DEF b
  <2>2. /\ runner'[r].relates = TRUE /\ runner'[r].deletes = TRUE /\ runner'[r].law = runner[r].law
        /\ runner'[r].alone = b
    BY <1>3, <2>1 DEF Works
  <2>3. QED
    BY <2>2 DEF b
<1>9. \A x \in Analysing!Others(r) : /\ runner'[x].alone = FALSE /\ runner'[x].relates = runner[x].relates
                                     /\ runner'[x].law = runner[x].law
  BY <1>3, <1>4, <1>6, OthersRelate DEF Works
<1>10. \A x \in Runners : x # r /\ x \notin Analysing!Others(r) => runner'[x] = runner[x]
  BY <1>4, <1>7
<1>11. Mixed'
  <2> SUFFICES ASSUME NEW l \in OfLaws, NEW x \in edges[l], NEW y \in edges[l], x # y
               PROVE  \E b \in {x.by, y.by} : b \in Jobs /\ ~runner'[b].alone
    BY <1>2 DEF Mixed
  <2>1. PICK b \in {x.by, y.by} : b \in Jobs /\ ~runner[b].alone
    BY DEF LawsRelated, Mixed
  <2>2. b # r /\ b \in Runners
    BY <1>2, <1>3, <2>1, PartsAreLaws DEF Sound, Findings
  <2>3. ~runner'[b].alone
    BY <1>9, <1>10, <2>1, <2>2
  <2>4. QED
    BY <2>1, <2>3
<1>12. Apart'
  <2> SUFFICES ASSUME NEW x \in Runners, NEW y \in Runners, x # y, runner'[x].relates, runner'[y].relates,
                      runner'[x].law = runner'[y].law
               PROVE  ~runner'[x].alone
    BY DEF Apart
  <2>1. CASE x = r
    <3>1. runner[y].relates /\ runner[y].law = runner[r].law
      BY <1>8, <1>9, <1>10, <2>1
    <3>2. y \in Analysing!Others(r)
      BY <2>1, <3>1, OthersRelate
    <3>3. QED
      BY <1>8, <2>1, <3>2
  <2>2. CASE x # r /\ x \in Analysing!Others(r)
    BY <1>9, <2>2
  <2>3. CASE x # r /\ x \notin Analysing!Others(r)
    <3>1. runner'[x] = runner[x]
      BY <1>10, <2>3
    <3>2. y # r
      BY <1>8, <2>3, <3>1, OthersRelate
    <3>3. runner[y].relates /\ runner[y].law = runner[x].law
      BY <1>9, <1>10, <3>1, <3>2
    <3>4. QED
      BY <3>1, <3>3 DEF LawsRelated, Apart
  <2>4. QED
    BY <2>1, <2>2, <2>3
<1>13. Cleared'
  <2> SUFFICES ASSUME NEW j \in Jobs, runner'[j].relates, ~runner'[j].deletes, runner'[j].alone
               PROVE  edges'[runner'[j].law] \subseteq runner'[j].named
    BY DEF Cleared
  <2>1. j # r /\ j \notin Analysing!Others(r) /\ j \in Runners
    BY <1>8, <1>9, PartsAreLaws
  <2>2. runner'[j] = runner[j]
    BY <1>10, <2>1
  <2>3. QED
    BY <1>2, <2>2 DEF LawsRelated, Cleared
<1>14. QED
  BY <1>11, <1>12, <1>13 DEF LawsRelated

(* Every other step is one of a runner that goes on, or writes.            *)
LEMMA OthersGoOn ==
  ASSUME LawsSound, Analysing!AnalysisNext
  PROVE  UNCHANGED <<edges, runner>> \/ \E r \in Runners : Analysing!OpenEdges(r) \/ Steady(r) \/ Writes(r)
<1>1. LawsTyped /\ \A x \in Runners : Sound(x, runner[x]) /\ runner[x] \in Works
  BY DEF LawsSound, Sound
<1>2. \A p \in Revised : Analysing!Replace(p) => UNCHANGED <<edges, runner>>
  BY DEF Analysing!Replace
<1>3. \A x \in Jobs : x \in Runners /\ x \notin Commands
  BY PartsAreLaws
<1>4. \A x \in Commands : x \in Runners /\ x \notin Jobs
  BY PartsAreLaws
<1>5. ASSUME NEW r \in Runners, NEW v, edges' = edges, runner' = [runner EXCEPT ![r] = v],
             r \in Jobs /\ ~runner[r].alone => ~v.alone,
             \/ ~v.relates
             \/ /\ v.relates = runner[r].relates /\ v.law = runner[r].law /\ v.alone = runner[r].alone
                /\ v.named = runner[r].named /\ v.deletes = runner[r].deletes
      PROVE  Steady(r)
  <2>1. runner'[r] = v /\ \A x \in Runners \ {r} : runner'[x] = runner[x]
    BY <1>1, <1>5 DEF LawsTyped
  <2>2. QED
    BY <1>5, <2>1 DEF Steady, Alike
<1>6. ASSUME NEW r \in Runners, NEW v, NEW p \in SUBSET runner[r].named, runner' = [runner EXCEPT ![r] = v],
             edges' = [edges EXCEPT ![runner[r].law] = IF runner[r].deletes THEN p ELSE @ \union p],
             v.alone = runner[r].alone,
             ~v.relates \/ (v.relates = runner[r].relates /\ v.law = runner[r].law /\ v.named = runner[r].named)
      PROVE  Writes(r)
  <2>1. runner'[r] = v /\ \A x \in Runners \ {r} : runner'[x] = runner[x]
    BY <1>1, <1>6 DEF LawsTyped
  <2>2. QED
    BY <1>6, <2>1 DEF Writes, Alike
<1>7. ASSUME NEW j \in Jobs, NEW l \in OfLaws, NEW a \in Wanted \union {"all"}, Analysing!AskFor(j, l, a)
      PROVE  Steady(j)
  <2> DEFINE v == [Analysing!NoRunner EXCEPT !.at = "queued", !.law = l, !.ask = a]
  <2>1. runner[j].at = "off" /\ runner' = [runner EXCEPT ![j] = v] /\ edges' = edges
    BY <1>7 DEF Analysing!AskFor, Analysing!Put
  <2>2. v.relates = FALSE
    BY DEF Analysing!NoRunner
  <2>3. runner[j].alone
    BY <1>1, <1>3, <2>1 DEF Sound, Findings
  <2> HIDE DEF v
  <2>4. QED
    BY <1>3, <1>5, <2>1, <2>2, <2>3
<1>8. ASSUME NEW j \in Jobs, Analysing!LoadLaw(j)
      PROVE  Steady(j)
  <2> DEFINE w == runner[j]
             v == IF Analysing!Offered(w.law, w.ask) THEN Analysing!Taken(w, w.law, w.ask) ELSE [w EXCEPT !.at = "failed"]
  <2>1. w.at = "queued" /\ runner' = [runner EXCEPT ![j] = v] /\ edges' = edges
    BY <1>8 DEF Analysing!LoadLaw, Analysing!Put
  <2>2. ~w.relates /\ w.alone /\ w \in Works /\ j \in Runners
    BY <1>1, <1>3, <2>1 DEF Sound, Drawing, Findings
  <2>3. v.relates = w.relates
    <3> HIDE DEF w
    <3>1. Analysing!Taken(w, w.law, w.ask).relates = w.relates
      BY <2>2 DEF Analysing!Taken, Works
    <3>2. [w EXCEPT !.at = "failed"].relates = w.relates
      BY <2>2 DEF Works
    <3>3. QED
      BY <3>1, <3>2
  <2> HIDE DEF v
  <2>4. QED
    BY <1>5, <2>1, <2>2, <2>3
<1>9. ASSUME NEW c \in Commands, NEW a \in Wanted, NEW f \in BOOLEAN, Analysing!StartCommand(c, a, f)
      PROVE  Steady(c)
  <2> DEFINE v == [Analysing!NoRunner EXCEPT !.at = "picking", !.ask = a, !.force = f, !.left = Analysing!InRunOrder(PartOrder)]
  <2>1. runner' = [runner EXCEPT ![c] = v] /\ edges' = edges
    BY <1>9 DEF Analysing!StartCommand, Analysing!Put
  <2>2. v.relates = FALSE
    BY DEF Analysing!NoRunner
  <2> HIDE DEF v
  <2>3. QED
    BY <1>4, <1>5, <2>1, <2>2
<1>10. ASSUME NEW c \in Commands, Analysing!Pick(c)
       PROVE  Steady(c)
  <2> DEFINE w == runner[c]
             l == Head(w.left)
             rest == [w EXCEPT !.left = Tail(w.left)]
             v == IF (w.force \/ ~Analysing!Done(l, w.ask)) /\ Analysing!Offered(l, w.ask)
                  THEN Analysing!Taken(rest, l, w.ask) ELSE rest
  <2>1. w.at = "picking" /\ runner' = [runner EXCEPT ![c] = v] /\ edges' = edges
    BY <1>10 DEF Analysing!Pick, Analysing!Put
  <2>2. ~w.relates /\ w \in Works /\ c \in Runners
    BY <1>1, <1>4, <2>1 DEF Sound, Drawing
  <2>3. v.relates = w.relates
    <3> HIDE DEF w, l
    <3>1. rest.relates = w.relates /\ Analysing!Taken(rest, l, w.ask).relates = rest.relates
      BY <2>2 DEF Analysing!Taken, Works
    <3>2. QED
      BY <3>1
  <2> HIDE DEF v
  <2>4. QED
    BY <1>4, <1>5, <2>1, <2>2, <2>3
<1>11. ASSUME NEW c \in Commands, Analysing!CommandEnds(c)
       PROVE  Steady(c)
  <2> DEFINE v == [runner[c] EXCEPT !.at = "ended"]
  <2>1. runner' = [runner EXCEPT ![c] = v] /\ edges' = edges
    BY <1>11 DEF Analysing!CommandEnds, Analysing!Put
  <2>2. runner[c] \in Works
    BY <1>1, <1>4
  <2>3. v.relates = runner[c].relates /\ v.law = runner[c].law /\ v.alone = runner[c].alone /\ v.named = runner[c].named
        /\ v.deletes = runner[c].deletes
    BY <2>2 DEF Works
  <2> HIDE DEF v
  <2>4. QED
    BY <1>4, <1>5, <2>1, <2>3
<1>12. ASSUME NEW r \in Runners, Analysing!Draw(r)
       PROVE  Steady(r)
  <2> DEFINE w == runner[r]
             f == Head(w.todo)
             out == CASE f = "summary" -> [w.out EXCEPT !.summary = w.edition]
                      [] f = "tags" -> [w.out EXCEPT !.tags = Analysing!Basis(w)]
                      [] f = "entities" -> [w.out EXCEPT !.entities = {[by |-> r, text |-> w.edition]}]
             n == Analysing!Next1(w)
             v == [n EXCEPT !.out = out, !.has = @ \union {f}]
  <2>1. /\ w.at = "drawing" /\ runner' = [runner EXCEPT ![r] = v] /\ edges' = edges
    BY <1>12 DEF Analysing!Draw, Analysing!Put
  <2>2. w \in Works /\ Sound(r, w)
    BY <1>1
  <2> HIDE DEF w, f, out
  <2>3. v.relates = w.relates
    BY <2>2 DEF Analysing!Next1, Works
  <2>4. v.alone = w.alone
    BY <2>2 DEF Analysing!Next1, Works
  <2>5. ~w.relates
    BY <2>1, <2>2 DEF Sound, Drawing
  <2> HIDE DEF v
  <2>6. QED
    BY <1>5, <2>1, <2>3, <2>4, <2>5 DEF w
<1>13. ASSUME NEW r \in Runners, Analysing!Classify(r)
       PROVE  Steady(r) \/ Writes(r)
  <2> DEFINE w == [runner[r] EXCEPT !.at = "citing"]
             u == Analysing!Committed(w)
  <2>1. \/ /\ runner' = [runner EXCEPT ![r] = u]
           /\ edges' = [edges EXCEPT ![runner[r].law] = Analysing!Written(runner[r])]
        \/ runner' = [runner EXCEPT ![r] = w] /\ edges' = edges
    BY <1>13, ClassifyDoes
  <2>2. /\ w \in Works /\ w.relates = runner[r].relates /\ w.law = runner[r].law /\ w.alone = runner[r].alone
        /\ w.named = runner[r].named /\ w.deletes = runner[r].deletes
    BY <1>1 DEF Works, Analysing!Places, Analysing!Busy
  <2>3. runner[r].pending \subseteq runner[r].named
    BY <1>1 DEF Sound, Findings
  <2> HIDE DEF w
  <2>4. u.relates = w.relates /\ u.law = w.law /\ u.alone = w.alone /\ u.named = w.named
    BY <2>2 DEF Works, Analysing!Committed
  <2> HIDE DEF u
  <2>5. CASE /\ runner' = [runner EXCEPT ![r] = u]
             /\ edges' = [edges EXCEPT ![runner[r].law] = Analysing!Written(runner[r])]
    <3>1. edges' = [edges EXCEPT ![runner[r].law] = IF runner[r].deletes THEN runner[r].pending ELSE @ \union runner[r].pending]
      BY <1>1, <2>5 DEF Analysing!Written, LawsTyped
    <3>2. QED
      BY <1>6, <2>2, <2>3, <2>4, <2>5, <3>1
  <2>6. CASE runner' = [runner EXCEPT ![r] = w] /\ edges' = edges
    BY <1>5, <2>2, <2>6
  <2>7. QED
    BY <2>1, <2>5, <2>6
<1>14. ASSUME NEW r \in Runners, Analysing!Cite(r)
       PROVE  Steady(r) \/ Writes(r)
  <2> DEFINE w == [runner[r] EXCEPT !.pending = runner[r].named]
             n == Analysing!Next1(w)
             u == Analysing!Committed(n)
  <2>1. /\ runner[r].at = "citing"
        /\ \/ runner' = [runner EXCEPT ![r] = n] /\ UNCHANGED <<edges, writer>>
           \/ /\ r \in Jobs /\ runner' = [runner EXCEPT ![r] = u] /\ writer' = "none"
              /\ edges' = [edges EXCEPT ![w.law] = Analysing!Written(w)]
    BY <1>14, CiteDoes
  <2>2. /\ w \in Works /\ w.pending = runner[r].named /\ w.named = runner[r].named /\ w.law = runner[r].law
        /\ w.deletes = runner[r].deletes
        /\ n \in Works /\ n.law = w.law /\ n.relates /\ n.deletes = w.deletes /\ n.pending = w.pending /\ n.named = w.named
        /\ n.alone = runner[r].alone
    BY <1>14, CiteDoes
  <2>3. runner[r].relates
    BY <1>1, <2>1 DEF Sound, Drawing
  <2> HIDE DEF w, n
  <2>4. u.relates = n.relates /\ u.law = n.law /\ u.alone = n.alone /\ u.named = n.named
    BY <2>2 DEF Works, Analysing!Committed
  <2>5. n.relates = runner[r].relates
    BY <1>1, <2>2, <2>3 DEF Works
  <2> HIDE DEF u
  <2>6. CASE runner' = [runner EXCEPT ![r] = n] /\ edges' = edges
    BY <1>5, <2>2, <2>5, <2>6
  <2>7. CASE /\ runner' = [runner EXCEPT ![r] = u]
             /\ edges' = [edges EXCEPT ![w.law] = Analysing!Written(w)]
    <3>1. edges' = [edges EXCEPT ![runner[r].law] = IF runner[r].deletes THEN runner[r].named ELSE @ \union runner[r].named]
      BY <1>1, <2>2, <2>7 DEF Analysing!Written, LawsTyped
    <3>2. QED
      BY <1>6, <2>2, <2>4, <2>5, <2>7, <3>1
  <2>8. QED
    BY <2>1, <2>6, <2>7
<1>15. ASSUME NEW r \in Runners, Analysing!Persist(r)
       PROVE  Writes(r)
  <2> DEFINE v == Analysing!After(r, runner[r], TRUE)
  <2>1. runner[r].at = "persisting" /\ runner' = [runner EXCEPT ![r] = v]
        /\ edges' = [edges EXCEPT ![runner[r].law] = Analysing!Written(runner[r])]
    BY <1>15 DEF Analysing!Persist, Analysing!Put, Analysing!Commits
  <2>2. v.relates = FALSE /\ v.alone = runner[r].alone
    BY <2>1, AfterIsSound DEF Busy, Analysing!Busy
  <2>3. runner[r].pending \subseteq runner[r].named
    BY <1>1 DEF Sound, Findings
  <2> HIDE DEF v
  <2>4. edges' = [edges EXCEPT ![runner[r].law] = IF runner[r].deletes THEN runner[r].pending ELSE @ \union runner[r].pending]
    BY <1>1, <2>1 DEF Analysing!Written, LawsTyped
  <2>5. QED
    BY <1>6, <2>1, <2>2, <2>3, <2>4
<1>16. ASSUME NEW r \in Runners, Analysing!DrawFails(r) \/ Analysing!Dies(r)
       PROVE  Steady(r)
  <2> DEFINE v == Analysing!After(r, runner[r], FALSE)
             u == [v EXCEPT !.at = "failed"]
  <2>1. runner[r].at \in Busy \union {"picking"} /\ edges' = edges
        /\ (runner' = [runner EXCEPT ![r] = u] \/ runner' = [runner EXCEPT ![r] = v])
    BY <1>16 DEF Analysing!DrawFails, Analysing!Dies, Analysing!Put, Busy
  <2>2. Sound(r, v) /\ v.relates = FALSE /\ v.alone = runner[r].alone
    BY <2>1, AfterIsSound
  <2> HIDE DEF v
  <2>3. u.relates = FALSE /\ u.alone = v.alone
    BY <2>2 DEF Sound, Works
  <2> HIDE DEF u
  <2>4. QED
    BY <1>5, <2>1, <2>2, <2>3
<1>17. CASE \E p \in Revised : Analysing!Replace(p)
  BY <1>2, <1>17
<1>18. CASE \E j \in Jobs : Analysing!LoadLaw(j) \/ \E law \in OfLaws, ask \in Wanted \union {"all"} : Analysing!AskFor(j, law, ask)
  BY <1>3, <1>7, <1>8, <1>18
<1>19. CASE \E c \in Commands : \/ Analysing!Pick(c) \/ Analysing!CommandEnds(c)
                                \/ \E ask \in Wanted, force \in BOOLEAN : Analysing!StartCommand(c, ask, force)
  BY <1>4, <1>9, <1>10, <1>11, <1>19
<1>20. CASE \E r \in Runners : \/ Analysing!Draw(r) \/ Analysing!OpenEdges(r) \/ Analysing!Classify(r) \/ Analysing!Cite(r)
                               \/ Analysing!Persist(r) \/ Analysing!DrawFails(r) \/ Analysing!Dies(r)
  BY <1>12, <1>13, <1>14, <1>15, <1>16, <1>20
<1>21. QED
  BY <1>17, <1>18, <1>19, <1>20 DEF Analysing!AnalysisNext, OfLaws, Wanted, Runners

LEMMA AnalysisRelates == LawsSound /\ LawsRelated /\ [Analysing!AnalysisNext]_lawState => LawsRelated'
<1> SUFFICES ASSUME LawsSound, LawsRelated, [Analysing!AnalysisNext]_lawState
             PROVE  LawsRelated'
  OBVIOUS
<1>1. CASE UNCHANGED <<edges, runner>>
  BY <1>1 DEF LawsRelated, Mixed, Apart, Cleared
<1>2. CASE Analysing!AnalysisNext
  BY <1>1, <1>2, OthersGoOn, SteadyRelates, WritingRelates, OpeningRelates
<1>3. QED
  BY <1>1, <1>2 DEF lawState

LEMMA AnalysesSay ==
  ASSUME LawsSound, LawsKept, LawsRelated
  PROVE  Analysing!KeptWithItsEdition /\ Analysing!RollupSeesItsParts /\ Analysing!EdgesAreReplaced
<1>1. Analysing!EdgesAreReplaced
  BY DEF LawsRelated, Mixed, Analysing!EdgesAreReplaced, OfLaws
<1>2. QED
  BY <1>1 DEF LawsKept

LEMMA AnalysesHold ==
  Analysing!AnalysisInit /\ [][Analysing!AnalysisNext]_lawState
  => [](LawsSound /\ Analysing!KeptWithItsEdition /\ Analysing!RollupSeesItsParts /\ Analysing!EdgesAreReplaced)
BY LawsBegin, KeptBegins, RelatedBegins, AnalysisStaysSound, AnalysisKeeps, AnalysisRelates, AnalysesSay, PTL

-----------------------------------------------------------------------------
(***************************************************************************)
(* RelationGraph.  What replaces all that was said before of a subject     *)
(* replaces earlier circulars only, and what an annexure lists is not the  *)
(* circular itself.                                                        *)
(***************************************************************************)
Corpus == Relating!Corpus
Replacing(e, how) == [kind |-> "supersedes", to |-> e, by |-> how]
Backward(c, rows) == /\ \A e \in Corpus : Replacing(e, "subject") \in rows => Issued[e] < Issued[c]
                     /\ Replacing(c, "annexure") \notin rows

(* Whatever the statuses were derived from is shown as replaced.           *)
ToldIsShown == \A p \in told : p[2] \in Corpus => status[p[2]] = "superseded"
GraphTrue   == DOMAIN links = Corpus /\ (\A c \in Corpus : Backward(c, links[c])) /\ ToldIsShown /\ ~reply.misled

LEMMA NoReplacing ==
  ASSUME NEW c \in Corpus, NEW e \in Corpus, NEW how, how \in {"subject", "annexure"},
         NEW s, NEW t \in Relating!Confirmed(c),
         Replacing(e, how) \in Relating!ByName(c) \union Relating!Blanket(t, s) \union Relating!Annexed(c, s)
  PROVE  (how = "subject" => Issued[e] < Issued[c]) /\ (how = "annexure" => e # c)
<1>1. Replacing(e, how) \notin Relating!ByName(c)
  BY DEF Replacing, Relating!ByName
<1>2. how = "annexure" => Replacing(e, how) \notin Relating!Blanket(t, s)
  BY DEF Replacing, Relating!Blanket
<1>3. how = "subject" => Replacing(e, how) \notin Relating!Annexed(c, s)
  BY DEF Replacing, Relating!Annexed
<1>4. Replacing(e, how) \in Relating!Annexed(c, s) => e # c
  BY DEF Replacing, Relating!Annexed
<1>5. Replacing(e, how) \in Relating!Blanket(t, s) => e \in t
  BY DEF Replacing, Relating!Blanket
<1>6. t \subseteq Relating!OnSubject(c)
  BY DEF Relating!Confirmed, Relating!Shortlists
<1>7. e \in t => Issued[e] < Issued[c]
  BY <1>6 DEF Relating!OnSubject
<1>8. QED
  BY <1>1, <1>2, <1>3, <1>4, <1>5, <1>7

LEMMA GraphBegins == Relating!GraphInit => GraphTrue
<1> SUFFICES ASSUME Relating!GraphInit
             PROVE  GraphTrue
  OBVIOUS
<1>1. links = [c \in Corpus |-> {}] /\ told = {} /\ reply = [is |-> "none", misled |-> FALSE]
  BY DEF Relating!GraphInit, Corpus
<1>2. QED
  BY <1>1 DEF GraphTrue, Backward, ToldIsShown

LEMMA DerivingShows ==
  ASSUME NEW rows, Relating!Derives(rows)
  PROVE  ToldIsShown'
<1>1. status' = [c \in Corpus |-> Relating!StatusOf(rows, c)] /\ told' = Relating!Pairs(rows)
  BY DEF Relating!Derives, Corpus
<1> SUFFICES ASSUME NEW p \in told', p[2] \in Corpus
             PROVE  status'[p[2]] = "superseded"
  BY DEF ToldIsShown
<1>2. p[1] \in Corpus /\ \E x \in rows[p[1]] : x.kind = "supersedes" /\ x.to = p[2]
  BY <1>1 DEF Relating!Pairs, Corpus
<1>3. Relating!StatusOf(rows, p[2]) = "superseded"
  <2>1. PICK x \in rows[p[1]] : x.kind = "supersedes" /\ x.to = p[2]
    BY <1>2
  <2>2. x \in {y \in UNION {rows[s] : s \in Corpus} : y.to = p[2]}
    BY <1>2, <2>1
  <2>3. "supersedes" \in {y.kind : y \in {y \in UNION {rows[s] : s \in Corpus} : y.to = p[2]}}
    BY <2>1, <2>2
  <2>4. QED
    BY <2>3 DEF Relating!StatusOf, Corpus
<1>4. QED
  BY <1>1, <1>3

LEMMA GraphStaysTrue == GraphTrue /\ [Relating!GraphNext]_graphState => GraphTrue'
<1> SUFFICES ASSUME GraphTrue, [Relating!GraphNext]_graphState
             PROVE  GraphTrue'
  OBVIOUS
<1>1. ASSUME UNCHANGED <<links, status, told, reply>>
      PROVE  GraphTrue'
  BY <1>1 DEF GraphTrue, Backward, ToldIsShown
<1>2. ASSUME NEW d \in Relating!Drivers, \/ Relating!Next1(d) \/ Relating!FailOne(d) \/ Relating!GoAround(d) \/ Relating!DriverDies(d)
      PROVE  UNCHANGED <<links, status, told, reply>>
  BY <1>2 DEF Relating!Next1, Relating!FailOne, Relating!GoAround, Relating!DriverDies
<1>3. ASSUME NEW d \in Relating!Drivers, NEW p \in Plans[d], Relating!Start(d, p)
      PROVE  GraphTrue'
  <2>1. links' = [c \in Corpus |-> IF p.mode = "batch" /\ p.refresh /\ c \in Relating!Range(p.todo) THEN {} ELSE links[c]]
        /\ UNCHANGED <<status, told, reply>>
    BY <1>3 DEF Relating!Start, Corpus
  <2>2. \A c \in Corpus : links'[c] \in {{}, links[c]}
    BY <2>1
  <2>3. DOMAIN links' = Corpus
    BY <2>1
  <2>4. QED
    BY <2>1, <2>2, <2>3 DEF GraphTrue, Backward, ToldIsShown
<1>4. ASSUME NEW d \in Relating!Drivers, Relating!EndOne(d)
      PROVE  GraphTrue'
  <2>1. UNCHANGED <<links, reply>> /\ (Relating!Derives(links) \/ UNCHANGED <<status, told>>)
    BY <1>4 DEF Relating!EndOne
  <2>2. ToldIsShown'
    BY <2>1, DerivingShows DEF GraphTrue, ToldIsShown
  <2>3. QED
    BY <2>1, <2>2 DEF GraphTrue, Backward
<1>5. ASSUME NEW d \in Relating!Drivers, Relating!ReadOne(d)
      PROVE  GraphTrue'
  <2> DEFINE w == driver[d]
             c == w.now[1]
             old == IF w.deletes \/ w.plan.mode = "job" THEN {} ELSE links[c]
             said(targets) == Relating!ByName(c) \union Relating!Blanket(targets, old) \union Relating!Annexed(c, old)
  <2>1. PICK found \in {{}} \union {said(targets) : targets \in Relating!Confirmed(c)} :
               links' = [links EXCEPT ![c] = old \union found]
    BY <1>5 DEF Relating!ReadOne
  <2>2. /\ reply' = reply
        /\ Relating!Derives(links') \/ (status' = status /\ told' \subseteq told)
    BY <1>5 DEF Relating!ReadOne
  <2>3. ToldIsShown'
    BY <2>2, DerivingShows DEF GraphTrue, ToldIsShown
  <2>4. ASSUME NEW b \in Corpus
        PROVE  Backward(b, links'[b])
    <3>1. CASE b # c
      BY <2>1, <3>1 DEF GraphTrue
    <3>2. CASE b = c
      <4>1. links'[b] = old \union found
        BY <2>1, <2>4, <3>2 DEF GraphTrue
      <4>2. old \subseteq links[b]
        BY <3>2
      <4>3. ASSUME NEW e \in Corpus, NEW how, how \in {"subject", "annexure"}, Replacing(e, how) \in found
            PROVE  (how = "subject" => Issued[e] < Issued[b]) /\ (how = "annexure" => e # b)
        <5>1. PICK t \in Relating!Confirmed(c) : found = said(t)
          BY <2>1, <4>3
        <5>2. QED
          BY <3>2, <4>3, <5>1, NoReplacing
      <4>4. Backward(b, links[b])
        BY DEF GraphTrue
      <4> HIDE DEF old
      <4>5. QED
        BY <4>1, <4>2, <4>3, <4>4 DEF Backward
    <3>3. QED
      BY <3>1, <3>2
  <2>5. DOMAIN links' = Corpus
    BY <2>1 DEF GraphTrue
  <2>6. QED
    BY <2>2, <2>3, <2>4, <2>5 DEF GraphTrue
<1>6. ASSUME NEW c \in Corpus, NEW gone \in BOOLEAN, NEW names, Relating!Check(c, names, gone)
      PROVE  GraphTrue'
  <2> DEFINE said == {c} \union names
             high == Relating!Withdrawn(c) /\ said \intersect Relating!By({"supersedes"}, c) = {} /\ ~gone
             replacing == {s \in Corpus : <<s, c>> \in told \union Relating!Pairs(links)}
             misled == ~high /\ ~gone /\ replacing # {} /\ replacing \intersect said = {}
  <2>1. reply'.misled = misled /\ UNCHANGED <<links, status, told>>
    BY <1>6 DEF Relating!Check, Corpus
  <2>2. ~misled
    <3> SUFFICES ASSUME ~gone, replacing # {}, replacing \intersect said = {}
                 PROVE  high
      OBVIOUS
    <3>1. Relating!By({"supersedes"}, c) \subseteq replacing
      BY DEF Relating!By, Relating!Pairs, Corpus
    <3>2. PICK s \in Corpus : <<s, c>> \in told \union Relating!Pairs(links)
      OBVIOUS
    <3>3. CASE <<s, c>> \in told
      <4>1. status[c] = "superseded"
        BY <3>3 DEF GraphTrue, ToldIsShown
      <4>2. QED
        BY <3>1, <4>1 DEF Relating!Withdrawn
    <3>4. CASE <<s, c>> \in Relating!Pairs(links)
      <4>1. s \in Relating!By({"supersedes"}, c)
        BY <3>4 DEF Relating!By, Relating!Pairs, Corpus
      <4>2. QED
        BY <3>1, <4>1 DEF Relating!Withdrawn
    <3>5. QED
      BY <3>2, <3>3, <3>4
  <2> HIDE DEF misled
  <2>3. QED
    BY <2>1, <2>2 DEF GraphTrue, Backward, ToldIsShown
<1>7. CASE UNCHANGED graphState
  BY <1>1, <1>7 DEF graphState
<1>8. CASE Relating!GraphNext
  <2>1. \/ \E d \in Relating!Drivers : \/ Relating!Next1(d) \/ Relating!ReadOne(d) \/ Relating!FailOne(d) \/ Relating!GoAround(d)
                                       \/ Relating!EndOne(d) \/ Relating!DriverDies(d) \/ \E p \in Plans[d] : Relating!Start(d, p)
        \/ \E c \in Corpus, gone \in BOOLEAN : \E names \in {{}} \union {{n} : n \in Corpus \ {c}} : Relating!Check(c, names, gone)
    BY <1>8 DEF Relating!GraphNext, Corpus
  <2>2. QED
    BY <1>1, <1>2, <1>3, <1>4, <1>5, <1>6, <2>1
<1>9. QED
  BY <1>7, <1>8

LEMMA GraphSays == GraphTrue => Relating!NoneReplacesItself /\ Relating!ReplacedIsWarned
<1> SUFFICES ASSUME GraphTrue
             PROVE  Relating!NoneReplacesItself
  BY DEF GraphTrue, Relating!ReplacedIsWarned
<1> SUFFICES ASSUME NEW c \in Corpus, NEW e \in Corpus, Replacing(e, "subject") \in links[c]
             PROVE  Replacing(c, "subject") \notin links[e] /\ Replacing(c, "annexure") \notin links[c]
  BY DEF Relating!NoneReplacesItself, Replacing, Corpus
<1>1. Issued[e] < Issued[c] /\ Replacing(c, "annexure") \notin links[c]
  BY DEF GraphTrue, Backward
<1>2. Replacing(c, "subject") \in links[e] => Issued[c] < Issued[e]
  BY DEF GraphTrue, Backward
<1>3. Issued[c] \in Nat /\ Issued[e] \in Nat
  BY GraphAssumption DEF Corpus, Relating!Corpus
<1>4. QED
  BY <1>1, <1>2, <1>3

LEMMA GraphHolds ==
  Relating!GraphInit /\ [][Relating!GraphNext]_graphState
  => [](Relating!NoneReplacesItself /\ Relating!ReplacedIsWarned)
BY GraphBegins, GraphStaysTrue, GraphSays, PTL

-----------------------------------------------------------------------------
(***************************************************************************)
(* AmendmentChains.  The first and last of a chain, and the next.          *)
(***************************************************************************)
Circulars == 1..Lineage

LEMMA CircularsAreNumbers == Circulars \subseteq Nat /\ Circulars \subseteq 0..Lineage /\ Lineage \in Nat
BY ChainAssumption DEF Circulars

LEMMA EndsOfChains ==
  ASSUME NEW cs \in SUBSET Circulars, cs # {}
  PROVE  /\ Merging!First(cs) \in cs /\ \A d \in cs : Merging!First(cs) <= d
         /\ Merging!Last(cs) \in cs /\ \A d \in cs : d <= Merging!Last(cs)
<1>1. \E c \in cs : \A d \in cs : c <= d
  <2>1. cs \in SUBSET Nat
    BY ChainAssumption DEF Circulars
  <2>2. QED
    BY <2>1, Least
<1>2. \E c \in cs : \A d \in cs : d <= c
  <2>1. cs \in SUBSET (0..Lineage) /\ Lineage \in Nat
    BY ChainAssumption DEF Circulars
  <2>2. QED
    BY <2>1, Greatest
<1>3. QED
  BY <1>1, <1>2 DEF Merging!First, Merging!Last

LEMMA NextOfChain ==
  ASSUME NEW cs \in SUBSET Circulars, NEW c \in cs, c # Merging!Last(cs)
  PROVE  Merging!After(cs, c) \in cs /\ Merging!After(cs, c) > c
<1> DEFINE later == {d \in cs : d > c}
<1>1. Merging!Last(cs) \in later
  <2>1. Merging!Last(cs) \in cs /\ c <= Merging!Last(cs)
    BY EndsOfChains
  <2>2. c \in Nat /\ Merging!Last(cs) \in Nat
    BY <2>1, CircularsAreNumbers
  <2>3. QED
    BY <2>1, <2>2
<1>2. Merging!First(later) \in later
  BY <1>1, EndsOfChains
<1>3. QED
  BY <1>2 DEF Merging!After

Reaches == [seen : SUBSET Circulars, front : SUBSET Circulars]

LEMMA ClosureStays ==
  ASSUME NEW es \in SUBSET (Circulars \X Circulars), NEW start \in SUBSET Circulars, NEW fwd \in BOOLEAN
  PROVE  Merging!Closure(es, start, fwd) \in SUBSET Circulars /\ start \subseteq Merging!Closure(es, start, fwd)
<1> DEFINE step(s) == IF Merging!Cardinality(s.seen) > ChainMax THEN s
                      ELSE [seen |-> s.seen \union Merging!Beside(es, s.front, fwd),
                            front |-> Merging!Beside(es, s.front, fwd) \ s.seen]
           b == [seen |-> start, front |-> start]
           S == {s \in Reaches : start \subseteq s.seen}
           go == CHOOSE g : g = [k \in 0..Lineage |-> IF k = 0 THEN b ELSE step(g[k - 1])]
<1>1. \A fr \in SUBSET Circulars : Merging!Beside(es, fr, fwd) \in SUBSET Circulars
  BY DEF Merging!Beside
<1>2. \A s \in S : step(s) \in S
  BY <1>1 DEF Reaches
<1>3. b \in S
  BY DEF Reaches
<1> DEFINE G == [k \in Nat |-> [s \in S |-> step(s)]]
<1>4. G \in [Nat -> [S -> S]]
  BY <1>2
<1>5. Lineage \in Nat
  BY ChainAssumption
<1> HIDE DEF step, b, S, G
<1>6. PICK g \in [0..Lineage -> S] : StepByStep(g, b, G, Lineage)
  BY <1>3, <1>4, <1>5, Iterates
<1>7. g = [k \in 0..Lineage |-> IF k = 0 THEN b ELSE step(g[k - 1])]
  <2>1. ASSUME NEW k \in 1..Lineage
        PROVE  g[k] = step(g[k - 1])
    <3>1. k - 1 \in 0..Lineage /\ k \in Nat
      BY <1>5
    <3>2. k \in Nat /\ g[k - 1] \in S
      BY <3>1
    <3>3. G[k][g[k - 1]] = step(g[k - 1])
      BY <3>2 DEF G
    <3>4. QED
      BY <1>6, <3>3 DEF StepByStep
  <2>2. QED
    BY <1>5, <1>6, <2>1 DEF StepByStep
<1>8. go = [k \in 0..Lineage |-> IF k = 0 THEN b ELSE step(go[k - 1])]
  BY <1>7
<1> HIDE DEF go
<1> DEFINE bad == {k \in 0..Lineage : go[k] \notin S}
<1>9. bad = {}
  <2> SUFFICES ASSUME bad # {}
               PROVE  FALSE
    OBVIOUS
  <2>1. bad \in SUBSET Nat
    BY <1>5
  <2>2. PICK k \in bad : \A j \in bad : k <= j
    BY <2>1, Least
  <2>3. k # 0
    BY <1>3, <1>5, <1>8
  <2>4. k - 1 \in 0..Lineage /\ k - 1 \notin bad
    BY <1>5, <2>2, <2>3
  <2>5. go[k] = step(go[k - 1])
    BY <1>8, <2>3
  <2>6. QED
    BY <1>2, <2>4, <2>5
<1>10. go[Lineage] \in S
  BY <1>5, <1>9
<1>11. Merging!Closure(es, start, fwd) = go[Lineage].seen
  BY DEF Merging!Closure, go, step, b
<1>12. QED
  BY <1>10, <1>11 DEF S, Reaches

LEMMA ChainHasIt ==
  ASSUME amendments \in SUBSET (Circulars \X Circulars), NEW c \in Circulars
  PROVE  /\ Merging!ChainOf(amendments, c) \in SUBSET Circulars /\ c \in Merging!ChainOf(amendments, c)
         /\ Merging!First(Merging!ChainOf(amendments, c)) \in Circulars
<1> DEFINE roots == Merging!Closure(amendments, {c}, FALSE)
<1>1. roots \in SUBSET Circulars /\ {c} \subseteq roots
  BY ClosureStays
<1> HIDE DEF roots
<1>2. Merging!Closure(amendments, roots, TRUE) \in SUBSET Circulars /\ roots \subseteq Merging!Closure(amendments, roots, TRUE)
  BY <1>1, ClosureStays
<1>3. Merging!ChainOf(amendments, c) \in SUBSET Circulars /\ c \in Merging!ChainOf(amendments, c)
  BY <1>1, <1>2 DEF Merging!ChainOf, roots
<1>4. QED
  BY <1>3, EndsOfChains

(***************************************************************************)
(* The history of a requirement.  It is told up to a circular when it is   *)
(* explained by the members of the chain, and none after that circular has *)
(* a part in it.                                                           *)
(***************************************************************************)
Entries  == [by : Circulars, act : {"added", "modified", "removed"}, old : Nat, new : Nat]
Items    == [value : Nat, old : Nat, by : Circulars, changed : Nat, dropped : Nat,
             status : {"unchanged", "added", "modified", "removed"}, history : Seq(Entries)]
Told(item, members, upTo) ==
  /\ item \in Items /\ Merging!Explained(item, members)
  /\ item.by <= upTo /\ \A i \in DOMAIN item.history : item.history[i].by <= upTo
AllTold(items, members, upTo) == items \in Seq(Items) /\ \A i \in DOMAIN items : Told(items[i], members, upTo)

LEMMA TellingGoesOn ==
  ASSUME NEW item, NEW members, NEW c \in Circulars, NEW d \in Circulars, c <= d, Told(item, members, c)
  PROVE  Told(item, members, d)
<1>1. item.by \in Nat /\ c \in Nat /\ d \in Nat /\ \A i \in DOMAIN item.history : item.history[i].by \in Nat
  <2>1. item \in Items
    BY DEF Told
  <2>2. item.by \in Circulars /\ item.history \in Seq(Entries)
    BY <2>1 DEF Items
  <2>3. \A i \in DOMAIN item.history : item.history[i] \in Entries
    BY <2>2
  <2>4. QED
    BY <2>2, <2>3, CircularsAreNumbers DEF Entries
<1>2. QED
  BY <1>1 DEF Told

(* The changes of a value are among the entries, and what holds after the  *)
(* first i of them depends on no other.                                    *)
LEMMA ChangesOfValue ==
  ASSUME NEW h \in Seq(Entries), NEW i \in 0..Len(h),
         NEW mods, mods = {j \in Merging!ModsOf(h) : j <= i}, mods # {}
  PROVE  Merging!Last(mods) \in mods /\ \A j \in mods : j <= Merging!Last(mods)
<1>1. mods \in SUBSET (0..Len(h)) /\ Len(h) \in Nat
  BY DEF Merging!ModsOf
<1>2. \E c \in mods : \A d \in mods : d <= c
  BY <1>1, Greatest
<1>3. QED
  BY <1>2 DEF Merging!Last

LEMMA ValueUpTo ==
  ASSUME NEW x \in Items, NEW e \in Entries, NEW y \in Items, y.by = x.by, y.history = Append(x.history, e),
         NEW i \in 0..Len(x.history)
  PROVE  Merging!ValueAfter(y, i) = Merging!ValueAfter(x, i)
<1> DEFINE h == x.history
           g == y.history
           mods == {j \in Merging!ModsOf(h) : j <= i}
<1>1. h \in Seq(Entries) /\ g = Append(h, e) /\ Len(h) \in Nat
  BY DEF Items
<1>2. Len(g) = Len(h) + 1 /\ \A j \in 1..Len(h) : g[j] = h[j]
  BY <1>1
<1>3. {j \in Merging!ModsOf(g) : j <= i} = mods
  <2>1. DOMAIN g = 1..(Len(h) + 1) /\ DOMAIN h = 1..Len(h)
    BY <1>1, <1>2
  <2>2. i <= Len(h)
    BY <1>1
  <2>3. \A j \in 1..(Len(h) + 1) : j <= i => j \in 1..Len(h)
    BY <1>1, <2>2
  <2>4. QED
    BY <1>2, <2>1, <2>3 DEF Merging!ModsOf
<1>4. mods # {} => g[Merging!Last(mods)] = h[Merging!Last(mods)]
  <2>1. mods # {} => Merging!Last(mods) \in mods
    BY <1>1, ChangesOfValue
  <2>2. mods \subseteq 1..Len(h)
    BY <1>1 DEF Merging!ModsOf
  <2>3. QED
    BY <1>2, <2>1, <2>2
<1> HIDE DEF mods
<1>5. QED
  BY <1>3, <1>4 DEF Merging!ValueAfter, mods

LEMMA NewItemIsTold ==
  ASSUME NEW c \in Circulars, NEW members, c \in members, NEW how, how \in {"unchanged", "added"}
  PROVE  Told(Merging!Item(c, how), members, c)
<1> DEFINE x == Merging!Item(c, how)
           e == [by |-> c, act |-> "added", old |-> Merging!NoOne, new |-> Merging!NoOne]
<1>1. c \in Nat /\ Merging!NoOne = 0
  BY CircularsAreNumbers DEF Merging!NoOne
<1>2. x.history = IF how = "added" THEN <<e>> ELSE <<>>
  BY DEF Merging!Item
<1>3. e \in Entries /\ x \in Items
  <2>1. e \in Entries
    BY <1>1 DEF Entries
  <2> HIDE DEF e
  <2>2. (IF how = "added" THEN <<e>> ELSE <<>>) \in Seq(Entries)
    BY <2>1
  <2> DEFINE t == IF how = "added" THEN <<e>> ELSE <<>>
  <2>3. x = [value |-> c, old |-> 0, by |-> c, changed |-> IF how = "added" THEN c ELSE 0,
             status |-> how, dropped |-> 0, history |-> t]
    BY <1>1 DEF Merging!Item, e
  <2> HIDE DEF t, x
  <2>4. t \in Seq(Entries)
    BY <2>2 DEF t
  <2>5. QED
    BY <1>1, <2>1, <2>3, <2>4 DEF Items
<1>4. x.by = c /\ x.value = c /\ x.status = how
  BY DEF Merging!Item
<1> HIDE DEF x
<1>5. CASE how = "unchanged"
  <2>1. x.history = <<>> /\ DOMAIN x.history = {} /\ Merging!ModsOf(x.history) = {}
    BY <1>2, <1>5 DEF Merging!ModsOf
  <2>2. \A i : Merging!ValueAfter(x, i) = c
    BY <1>4, <2>1 DEF Merging!ValueAfter
  <2>3. Merging!Explained(x, members)
    BY <1>4, <2>1, <2>2 DEF Merging!Explained
  <2>4. QED
    BY <1>1, <1>3, <1>4, <2>1, <2>3 DEF Told, x
<1>6. CASE how = "added"
  <2>1. x.history = <<e>> /\ DOMAIN x.history = {1} /\ x.history[1] = e /\ Len(x.history) = 1
    BY <1>2, <1>6
  <2>2. Merging!ModsOf(x.history) = {}
    BY <2>1 DEF Merging!ModsOf
  <2>3. \A i : Merging!ValueAfter(x, i) = c
    BY <1>4, <2>2 DEF Merging!ValueAfter
  <2> HIDE DEF e
  <2>4. e.by = c /\ e.act = "added"
    BY DEF e
  <2>5. Merging!Explained(x, members)
    <3>1. x.value = Merging!ValueAfter(x, Len(x.history))
      BY <1>4, <2>3
    <3>2. \A i \in DOMAIN x.history :
            /\ x.history[i].by \in members /\ x.history[i].by >= x.by
            /\ i > 1 => x.history[i - 1].by <= x.history[i].by
            /\ x.history[i].act = "removed" <=> i = Len(x.history) /\ x.status = "removed"
      BY <1>1, <1>4, <1>6, <2>1, <2>4
    <3>3. QED
      BY <2>2, <3>1, <3>2 DEF Merging!Explained
  <2>6. QED
    BY <1>1, <1>3, <1>4, <2>1, <2>4, <2>5 DEF Told, x
<1>7. QED
  BY <1>5, <1>6

(* An entry is added to a requirement that is not removed: of its removal, *)
(* or of a change that starts from its value.                              *)
LEMMA EntryIsTold ==
  ASSUME NEW c \in Circulars, NEW members, c \in members, NEW x, Told(x, members, c), x.status # "removed",
         NEW e \in Entries, e.by = c, NEW y \in Items, y.by = x.by, y.history = Append(x.history, e),
         \/ /\ e.act = "removed" /\ y.status = "removed" /\ y.value = x.value /\ y.changed = x.changed /\ y.old = x.old
         \/ /\ e.act = "modified" /\ y.status # "removed" /\ y.value = e.new /\ e.old = x.value
            /\ y.changed = c /\ y.old = e.old
  PROVE  Told(y, members, c)
<1> DEFINE h == x.history
           g == y.history
           n == Len(h)
<1>1. x \in Items /\ h \in Seq(Entries) /\ n \in Nat /\ x.by \in Nat /\ c \in Nat
  <2>1. x \in Items
    BY DEF Told
  <2>2. h \in Seq(Entries) /\ x.by \in Circulars
    BY <2>1 DEF Items
  <2>3. x.by \in Nat /\ c \in Nat
    BY ONLY <2>2, c \in Circulars, CircularsAreNumbers
  <2>4. n \in Nat
    BY ONLY <2>2
  <2>5. QED
    BY <2>1, <2>2, <2>3, <2>4
<1>2. /\ g \in Seq(Entries) /\ Len(g) = n + 1 /\ DOMAIN g = 1..(n + 1) /\ DOMAIN h = 1..n
      /\ g[n + 1] = e /\ \A j \in 1..n : g[j] = h[j]
  BY <1>1
<1>3. \A i \in 0..n : Merging!ValueAfter(y, i) = Merging!ValueAfter(x, i)
  BY <1>1, ValueUpTo
<1>4. /\ x.value = Merging!ValueAfter(x, n)
      /\ \A i \in Merging!ModsOf(h) : h[i].old = Merging!ValueAfter(x, i - 1)
      /\ \A i \in 1..n : /\ h[i].by \in members /\ h[i].by >= x.by /\ h[i].by <= c
                         /\ i > 1 => h[i - 1].by <= h[i].by
                         /\ h[i].act # "removed"
      /\ Merging!ModsOf(h) # {} => x.changed = h[Merging!Last(Merging!ModsOf(h))].by
                                   /\ x.old = h[Merging!Last(Merging!ModsOf(h))].old
      /\ x.by <= c
  <2>1. Merging!Explained(x, members) /\ x.by <= c /\ \A i \in DOMAIN h : h[i].by <= c
    BY DEF Told
  <2>2. QED
    BY <1>2, <2>1 DEF Merging!Explained
<1> HIDE DEF h, g
<1>5. \A i \in 1..(n + 1) : /\ g[i].by \in members /\ g[i].by >= y.by /\ g[i].by <= c
                            /\ i > 1 => g[i - 1].by <= g[i].by
                            /\ g[i].act = "removed" <=> i = n + 1 /\ y.status = "removed"
  <2> SUFFICES ASSUME NEW i \in 1..(n + 1)
               PROVE  /\ g[i].by \in members /\ g[i].by >= y.by /\ g[i].by <= c
                      /\ i > 1 => g[i - 1].by <= g[i].by
                      /\ g[i].act = "removed" <=> i = n + 1 /\ y.status = "removed"
    OBVIOUS
  <2>1. CASE i = n + 1
    <3>1. i > 1 => i - 1 \in 1..n
      BY <1>1, <2>1
    <3>2. g[i] = e
      BY <1>2, <2>1
    <3>3. i > 1 => g[i - 1].by <= c
      BY <1>2, <1>4, <3>1
    <3>4. QED
      BY <1>1, <1>4, <2>1, <3>2, <3>3
  <2>2. CASE i # n + 1
    <3>1. i \in 1..n /\ (i > 1 => i - 1 \in 1..n)
      BY <1>1, <2>2
    <3>2. g[i] = h[i] /\ (i > 1 => g[i - 1] = h[i - 1])
      BY <1>2, <3>1
    <3>3. QED
      BY <1>4, <2>2, <3>1, <3>2
  <2>3. QED
    BY <2>1, <2>2
<1>6. Merging!ModsOf(g) = IF e.act = "modified" THEN Merging!ModsOf(h) \union {n + 1} ELSE Merging!ModsOf(h)
  <2>1. \A i \in 1..(n + 1) : i \in 1..n \/ i = n + 1
    BY <1>1
  <2>2. \A i \in 1..n : i \in 1..(n + 1) /\ i # n + 1
    BY <1>1
  <2>3. n + 1 \in 1..(n + 1)
    BY <1>1
  <2>4. QED
    BY <1>2, <2>1, <2>2, <2>3 DEF Merging!ModsOf
<1>7. Merging!ModsOf(h) \subseteq 1..n
  BY <1>2 DEF Merging!ModsOf
<1>8. \A i \in Merging!ModsOf(h) : g[i].old = Merging!ValueAfter(y, i - 1)
  <2> SUFFICES ASSUME NEW i \in Merging!ModsOf(h)
               PROVE  g[i].old = Merging!ValueAfter(y, i - 1)
    OBVIOUS
  <2>1. i \in 1..n /\ i - 1 \in 0..n
    BY <1>1, <1>7
  <2>2. QED
    BY <1>2, <1>3, <1>4, <2>1
<1>9. CASE e.act = "removed"
  <2>1. y.status = "removed" /\ y.value = x.value /\ y.changed = x.changed /\ y.old = x.old
    BY <1>9
  <2>2. Merging!ModsOf(g) = Merging!ModsOf(h)
    BY <1>6, <1>9
  <2>3. Merging!ValueAfter(y, n + 1) = Merging!ValueAfter(y, n)
    <3>1. {j \in Merging!ModsOf(h) : j <= n + 1} = {j \in Merging!ModsOf(h) : j <= n}
      BY <1>1, <1>7
    <3>2. QED
      BY <2>2, <3>1 DEF Merging!ValueAfter, g
  <2>4. Merging!ModsOf(h) # {} => g[Merging!Last(Merging!ModsOf(h))] = h[Merging!Last(Merging!ModsOf(h))]
    <3>1. Merging!ModsOf(h) = {j \in Merging!ModsOf(h) : j <= n}
      BY <1>1, <1>7
    <3>2. n \in 0..n
      BY <1>1
    <3>3. Merging!ModsOf(h) # {} => Merging!Last(Merging!ModsOf(h)) \in Merging!ModsOf(h)
      BY <1>1, <3>1, <3>2, ChangesOfValue
    <3>4. QED
      BY <1>2, <1>7, <3>3
  <2>5. n \in 0..n /\ y.value = Merging!ValueAfter(y, n + 1)
    BY <1>1, <1>3, <1>4, <2>1, <2>3
  <2>6. Merging!Explained(y, members)
    BY <1>2, <1>4, <1>5, <1>8, <2>1, <2>2, <2>4, <2>5 DEF Merging!Explained, g
  <2>7. QED
    BY <1>2, <1>4, <1>5, <2>6 DEF Told, g
<1>10. CASE e.act = "modified"
  <2>1. /\ y.status # "removed" /\ y.value = e.new /\ e.old = x.value
        /\ y.changed = c /\ y.old = e.old
    BY <1>10
  <2>2. Merging!ModsOf(g) = Merging!ModsOf(h) \union {n + 1}
    BY <1>6, <1>10
  <2> DEFINE mods == {j \in Merging!ModsOf(g) : j <= n + 1}
  <2>3. mods = Merging!ModsOf(g) /\ n + 1 \in mods
    BY <1>1, <1>7, <2>2
  <2>4. Merging!Last(mods) = n + 1
    <3>1. Merging!Last(mods) \in mods /\ \A j \in mods : j <= Merging!Last(mods)
      <4>1. n + 1 \in 0..Len(g) /\ mods # {} /\ g \in Seq(Entries)
        BY <1>1, <1>2, <2>3
      <4>2. mods = {j \in Merging!ModsOf(g) : j <= n + 1}
        OBVIOUS
      <4> HIDE DEF mods
      <4>3. QED
        BY <4>1, <4>2, ChangesOfValue
    <3>2. Merging!Last(mods) \in 1..(n + 1) /\ n + 1 <= Merging!Last(mods)
      BY <1>1, <1>7, <2>2, <2>3, <3>1
    <3>3. QED
      BY <1>1, <3>2
  <2>5. Merging!ValueAfter(y, n + 1) = e.new
    <3> HIDE DEF mods
    <3>1. mods # {}
      BY <2>3
    <3>2. QED
      BY <1>2, <2>4, <3>1 DEF Merging!ValueAfter, mods, g
  <2>6. g[n + 1].old = Merging!ValueAfter(y, n)
    <3>1. n \in 0..n
      BY <1>1
    <3>2. QED
      BY <1>2, <1>3, <1>4, <2>1, <3>1
  <2>7. \A i \in Merging!ModsOf(g) : g[i].old = Merging!ValueAfter(y, i - 1)
    <3>1. n + 1 - 1 = n
      BY <1>1
    <3>2. QED
      BY <1>8, <2>2, <2>6, <3>1
  <2>8. Merging!Last(Merging!ModsOf(g)) = n + 1
    BY <2>3, <2>4
  <2>9. Merging!Explained(y, members)
    BY <1>2, <1>5, <2>1, <2>5, <2>7, <2>8 DEF Merging!Explained, g
  <2>10. QED
    BY <1>2, <1>4, <1>5, <2>9 DEF Told, g
<1>11. QED
  BY <1>9, <1>10

(* What a circular does to the requirements told before it.                *)
LEMMA RemovalIsTold ==
  ASSUME NEW c \in Circulars, NEW members, c \in members, NEW x, Told(x, members, c), x.status # "removed",
         NEW y, y = [x EXCEPT !.status = "removed", !.dropped = c,
                              !.history = Append(@, [by |-> c, act |-> "removed", old |-> Merging!NoOne, new |-> Merging!NoOne])]
  PROVE  Told(y, members, c)
<1> DEFINE e == [by |-> c, act |-> "removed", old |-> Merging!NoOne, new |-> Merging!NoOne]
<1>1. c \in Nat /\ Merging!NoOne = 0 /\ x \in Items
  BY CircularsAreNumbers DEF Merging!NoOne, Told
<1>2. e \in Entries /\ e.by = c /\ e.act = "removed"
  BY <1>1 DEF Entries
<1>3. y = [x EXCEPT !.status = "removed", !.dropped = c, !.history = Append(x.history, e)]
  BY <1>1 DEF Items
<1> HIDE DEF e
<1>4. Append(x.history, e) \in Seq(Entries)
  BY <1>1, <1>2 DEF Items
<1>5. /\ y \in Items /\ y.by = x.by /\ y.history = Append(x.history, e)
      /\ y.status = "removed" /\ y.value = x.value /\ y.changed = x.changed /\ y.old = x.old
  BY ONLY <1>1, <1>3, <1>4 DEF Items
<1>6. QED
  BY <1>2, <1>5, EntryIsTold

LEMMA RewordingIsTold ==
  ASSUME NEW c \in Circulars, NEW members, c \in members, NEW x, Told(x, members, c), x.status # "removed",
         NEW valued \in BOOLEAN
  PROVE  Told(Merging!Reworded(x, c, valued), members, c)
<1> DEFINE now == IF valued THEN c ELSE x.value
           e == [by |-> c, act |-> "modified", old |-> x.value, new |-> now]
           s == IF x.status = "added" THEN x.status ELSE "modified"
           y == Merging!Reworded(x, c, valued)
<1>1. c \in Nat /\ x \in Items
  BY CircularsAreNumbers DEF Told
<1>2. now \in Nat /\ x.value \in Nat /\ s \in {"added", "modified"}
  BY <1>1 DEF Items
<1> HIDE DEF now
<1>3. e \in Entries /\ e.by = c /\ e.act = "modified" /\ e.old = x.value /\ e.new = now
  BY <1>2 DEF Entries
<1>4. y = [x EXCEPT !.old = x.value, !.value = now, !.changed = c, !.status = s, !.history = Append(x.history, e)]
  BY <1>1 DEF Merging!Reworded, Items, now
<1> HIDE DEF e, s, y
<1>5. Append(x.history, e) \in Seq(Entries)
  BY <1>1, <1>3 DEF Items
<1>6. /\ y \in Items /\ y.by = x.by /\ y.history = Append(x.history, e)
      /\ y.status = s /\ y.value = now /\ y.changed = c /\ y.old = x.value
  BY ONLY <1>1, <1>2, <1>4, <1>5 DEF Items
<1>7. QED
  BY <1>2, <1>3, <1>6, EntryIsTold DEF y

LEMMA RevisionsAreTold ==
  ASSUME NEW c \in Circulars, NEW members, c \in members, NEW items, AllTold(items, members, c), NEW known,
         NEW y \in Merging!Revisions(items, known, c)
  PROVE  AllTold(y, members, c)
<1>1. items \in Seq(Items) /\ \A i \in DOMAIN items : Told(items[i], members, c)
  BY DEF AllTold
<1>2. ASSUME NEW i \in DOMAIN items, NEW z, Told(z, members, c), y = [items EXCEPT ![i] = z]
      PROVE  AllTold(y, members, c)
  <2>1. z \in Items
    BY <1>2 DEF Told
  <2>2. y \in Seq(Items) /\ DOMAIN y = DOMAIN items /\ \A j \in DOMAIN items : y[j] = IF j = i THEN z ELSE items[j]
    BY <1>1, <1>2, <2>1
  <2>3. QED
    BY <1>1, <1>2, <2>2 DEF AllTold
<1>3. CASE y \in {Merging!Removed(items, c, i) : i \in Merging!Open(items) \intersect known}
  <2>1. PICK i \in Merging!Open(items) : y = Merging!Removed(items, c, i)
    BY <1>3
  <2>2. i \in DOMAIN items /\ items[i].status # "removed" /\ Told(items[i], members, c)
    BY <1>1 DEF Merging!Open
  <2> DEFINE z == [items[i] EXCEPT !.status = "removed", !.dropped = c,
                     !.history = Append(@, [by |-> c, act |-> "removed", old |-> Merging!NoOne, new |-> Merging!NoOne])]
  <2>3. y = [items EXCEPT ![i] = z]
    <3>1. items[i] \in Items
      BY <2>2 DEF Told
    <3>2. QED
      BY <1>1, <2>1, <2>2, <3>1 DEF Merging!Removed, Items
  <2>4. Told(z, members, c)
    BY <2>2, RemovalIsTold
  <2> HIDE DEF z
  <2>5. QED
    BY <1>2, <2>2, <2>3, <2>4
<1>4. CASE y \in {Merging!Modified(items, c, i, valued) : i \in Merging!Open(items) \intersect known, valued \in BOOLEAN}
  <2>1. PICK i \in Merging!Open(items), valued \in BOOLEAN : y = Merging!Modified(items, c, i, valued)
    BY <1>4
  <2>2. i \in DOMAIN items /\ items[i].status # "removed" /\ Told(items[i], members, c)
    BY <1>1 DEF Merging!Open
  <2>3. y = [items EXCEPT ![i] = Merging!Reworded(items[i], c, valued)]
    BY <2>1 DEF Merging!Modified
  <2>4. Told(Merging!Reworded(items[i], c, valued), members, c)
    BY <2>2, RewordingIsTold
  <2>5. QED
    BY <1>2, <2>2, <2>3, <2>4
<1>5. QED
  BY <1>3, <1>4 DEF Merging!Revisions

LEMMA ChangesAreTold ==
  ASSUME NEW c \in Circulars, NEW members, c \in members, NEW items, AllTold(items, members, c),
         NEW y \in Merging!Changes(items, c)
  PROVE  AllTold(y, members, c)
<1>1. ASSUME NEW x \in Merging!OneChange(items, c)
      PROVE  AllTold(x, members, c)
  <2>1. CASE x = items
    BY <2>1
  <2>2. CASE x = Merging!Added(items, c)
    <3>1. Told(Merging!Item(c, "added"), members, c) /\ Merging!Item(c, "added") \in Items
      BY NewItemIsTold DEF Told
    <3> DEFINE z == Merging!Item(c, "added")
    <3> HIDE DEF z
    <3>2. x = Append(items, z) /\ items \in Seq(Items) /\ z \in Items
      BY <2>2, <3>1 DEF Merging!Added, AllTold, z
    <3>3. x \in Seq(Items) /\ DOMAIN x = 1..(Len(items) + 1) /\ Len(items) \in Nat /\ DOMAIN items = 1..Len(items)
          /\ x[Len(items) + 1] = z /\ \A i \in 1..Len(items) : x[i] = items[i]
      BY <3>2
    <3>4. \A i \in DOMAIN x : i \in DOMAIN items \/ i = Len(items) + 1
      BY <3>3
    <3>5. QED
      BY <3>1, <3>3, <3>4 DEF AllTold, z
  <2>3. CASE x \in Merging!Revisions(items, DOMAIN items, c)
    BY <2>3, RevisionsAreTold
  <2>4. QED
    BY <2>1, <2>2, <2>3 DEF Merging!OneChange
<1>2. CASE y \in Merging!OneChange(items, c)
  BY <1>1, <1>2
<1>3. CASE y \in Merging!Twice(items, c)
  <2>1. PICK x \in Merging!OneChange(items, c) : y \in Merging!Revisions(x, {i \in DOMAIN items : x[i] # items[i]}, c)
    BY <1>3 DEF Merging!Twice
  <2>2. QED
    BY <1>1, <2>1, RevisionsAreTold
<1>4. QED
  BY <1>2, <1>3 DEF Merging!Changes

LEMMA ExtractsAreTold ==
  ASSUME NEW c \in Circulars, NEW members, c \in members, NEW n \in Nat
  PROVE  AllTold(Merging!Extracted(c, n), members, c)
<1> DEFINE z == Merging!Item(c, "unchanged")
           x == Merging!Extracted(c, n)
<1>1. Told(z, members, c) /\ z \in Items
  BY NewItemIsTold DEF Told
<1>2. x = [i \in 1..n |-> z]
  BY DEF Merging!Extracted
<1> HIDE DEF x, z
<1>3. x \in Seq(Items)
  BY <1>1, <1>2
<1>4. QED
  BY <1>1, <1>2, <1>3 DEF AllTold, x

(***************************************************************************)
(* The state.  What a generation has folded is told up to the circular it  *)
(* has come to, and what is stored, unless it raced, was told to the last  *)
(* of the members it has.                                                  *)
(***************************************************************************)
Merges   == [is : BOOLEAN, members : SUBSET Circulars, items : Seq(Items), stale : BOOLEAN, of : SUBSET Circulars,
             raced : BOOLEAN]
Foldings == [at : {"off", "extract", "fold", "commit"}, members : SUBSET Circulars, upTo : Nat, items : Seq(Items),
             saw : Merges]
ChainsTyped == /\ amendments \in SUBSET (Circulars \X Circulars) /\ blank \in SUBSET Circulars
               /\ merged \in [Circulars -> Merges] /\ folding \in [Folders -> Foldings]
FoldSound(w)  == w.at # "off" => /\ w.upTo \in w.members
                                 /\ w.at # "extract" => AllTold(w.items, w.members, w.upTo)
MergeSound(r) == r.is /\ ~r.raced => /\ r.of = r.members
                                     /\ \A i \in DOMAIN r.items : Merging!Explained(r.items[i], r.of)
ChainInv == ChainsTyped /\ (\A f \in Folders : FoldSound(folding[f])) /\ \A c \in Circulars : MergeSound(merged[c])

LEMMA NothingMerged ==
  /\ Merging!NoMerge \in Merges /\ Merging!Away \in Foldings /\ FoldSound(Merging!Away) /\ MergeSound(Merging!NoMerge)
<1>1. Merging!NoMerge \in Merges /\ MergeSound(Merging!NoMerge)
  BY DEF Merging!NoMerge, Merges, MergeSound
<1>2. Merging!Away \in Foldings /\ FoldSound(Merging!Away)
  BY <1>1 DEF Merging!Away, Foldings, FoldSound, Merging!NoOne
<1>3. QED
  BY <1>1, <1>2

LEMMA ChainsBegin == Merging!ChainInit => ChainInv
<1> SUFFICES ASSUME Merging!ChainInit
             PROVE  ChainInv
  OBVIOUS
<1>1. /\ amendments \in {{<<c, c - 1>> : c \in Circulars \ {1}}, {<<Lineage, c>> : c \in 1..(Lineage - 1)}}
      /\ blank \in {{}, {Lineage}} /\ merged = [c \in Circulars |-> Merging!NoMerge]
      /\ folding = [f \in Folders |-> Merging!Away]
  BY DEF Merging!ChainInit, Circulars, Merging!Circular
<1>2. Lineage \in Nat /\ Lineage >= 1
  BY ChainAssumption
<1>3. Lineage \in Circulars /\ (\A c \in Circulars \ {1} : c - 1 \in Circulars) /\ \A c \in 1..(Lineage - 1) : c \in Circulars
  BY <1>2 DEF Circulars
<1>4. amendments \in SUBSET (Circulars \X Circulars) /\ blank \in SUBSET Circulars
  BY <1>1, <1>3
<1>5. QED
  BY <1>1, <1>4, NothingMerged DEF ChainInv, ChainsTyped

(* A step that changes what one generation has, and nothing stored.        *)
LEMMA FoldingMoves ==
  ASSUME ChainInv, NEW f \in Folders, NEW v \in Foldings, FoldSound(v), folding' = [folding EXCEPT ![f] = v],
         UNCHANGED <<amendments, blank, merged>>
  PROVE  ChainInv'
BY DEF ChainInv, ChainsTyped

LEMMA BeginningIsSound ==
  ASSUME ChainInv, NEW f \in Folders, NEW c \in Circulars, Merging!BeginFold(f, c)
  PROVE  ChainInv'
<1> DEFINE cs == Merging!ChainOf(amendments, c)
<1>1. cs \in SUBSET Circulars /\ cs # {} /\ Merging!First(cs) \in cs /\ Merging!First(cs) \in Circulars
  BY ChainHasIt, EndsOfChains DEF ChainInv, ChainsTyped
<1>2. PICK saw \in {Merging!NoMerge, merged[Merging!First(cs)]} :
        folding' = [folding EXCEPT ![f] = [Merging!Away EXCEPT !.at = "extract", !.members = cs, !.upTo = Merging!First(cs), !.saw = saw]]
  BY DEF Merging!BeginFold
<1>3. UNCHANGED <<amendments, blank, merged>>
  BY DEF Merging!BeginFold
<1> HIDE DEF cs
<1>4. saw \in Merges
  BY <1>1, NothingMerged DEF ChainInv, ChainsTyped
<1> DEFINE v == [Merging!Away EXCEPT !.at = "extract", !.members = cs, !.upTo = Merging!First(cs), !.saw = saw]
<1>5. v \in Foldings /\ FoldSound(v)
  <2>1. Merging!First(cs) \in Nat
    BY <1>1, CircularsAreNumbers
  <2>2. v \in Foldings /\ v.at = "extract" /\ v.upTo = Merging!First(cs) /\ v.members = cs
    BY <1>1, <1>4, <2>1, NothingMerged DEF Foldings
  <2>3. QED
    BY <1>1, <2>2 DEF FoldSound
<1> HIDE DEF v
<1>6. folding' = [folding EXCEPT ![f] = v]
  BY <1>2 DEF v
<1>7. QED
  BY <1>3, <1>5, <1>6, FoldingMoves

LEMMA ExtractingIsSound ==
  ASSUME ChainInv, NEW f \in Folders, Merging!ExtractFirst(f)
  PROVE  ChainInv'
<1> DEFINE w == folding[f]
           b == Merging!First(w.members)
<1>1. w \in Foldings /\ FoldSound(w) /\ w.at = "extract"
  BY DEF ChainInv, ChainsTyped, Merging!ExtractFirst
<1>2. PICK n \in FirstItems :
        folding' = [folding EXCEPT ![f] = IF n = 0 THEN Merging!Away
                                          ELSE [w EXCEPT !.at = "fold", !.items = Merging!Extracted(b, n)]]
  BY DEF Merging!ExtractFirst
<1>3. UNCHANGED <<amendments, blank, merged>>
  BY DEF Merging!ExtractFirst
<1>4. /\ w.members \in SUBSET Circulars /\ w.upTo \in w.members /\ w.upTo \in Circulars /\ b \in w.members /\ b \in Circulars /\ b <= w.upTo
      /\ n \in Nat
  BY <1>1, EndsOfChains, ChainAssumption DEF Foldings, FoldSound
<1> HIDE DEF w, b
<1>5. AllTold(Merging!Extracted(b, n), w.members, w.upTo)
  <2>1. AllTold(Merging!Extracted(b, n), w.members, b)
    BY <1>4, ExtractsAreTold
  <2>2. QED
    BY <1>4, <2>1, TellingGoesOn DEF AllTold
<1> DEFINE u == [w EXCEPT !.at = "fold", !.items = Merging!Extracted(b, n)]
<1>6. u \in Foldings /\ FoldSound(u)
  <2>1. u \in Foldings /\ u.at = "fold" /\ u.upTo = w.upTo /\ u.members = w.members /\ u.items = Merging!Extracted(b, n)
    BY <1>1, <1>5 DEF Foldings, AllTold
  <2>2. QED
    BY <1>4, <1>5, <2>1 DEF FoldSound
<1> HIDE DEF u
<1>7. folding' = [folding EXCEPT ![f] = u] \/ folding' = [folding EXCEPT ![f] = Merging!Away]
  BY <1>2 DEF u
<1>8. QED
  BY <1>3, <1>6, <1>7, FoldingMoves, NothingMerged

LEMMA AligningIsSound ==
  ASSUME ChainInv, NEW f \in Folders, Merging!Align(f)
  PROVE  ChainInv'
<1> DEFINE w == folding[f]
           c == Merging!After(w.members, w.upTo)
<1>1. w \in Foldings /\ FoldSound(w) /\ w.at = "fold" /\ w.upTo # Merging!Last(w.members)
  BY DEF ChainInv, ChainsTyped, Merging!Align
<1>2. PICK items \in Merging!Changes(w.items, c) : folding' = [folding EXCEPT ![f].items = items, ![f].upTo = c]
  BY DEF Merging!Align
<1>3. UNCHANGED <<amendments, blank, merged>>
  BY DEF Merging!Align
<1>4. /\ w.members \in SUBSET Circulars /\ w.upTo \in w.members /\ w.upTo \in Circulars
      /\ AllTold(w.items, w.members, w.upTo)
  BY <1>1 DEF Foldings, FoldSound
<1>5. c \in w.members /\ c > w.upTo /\ c \in Circulars
  BY <1>1, <1>4, NextOfChain
<1> DEFINE u == [w EXCEPT !.items = items, !.upTo = c]
<1>6. folding' = [folding EXCEPT ![f] = u]
  <2>1. folding \in [Folders -> Foldings]
    BY DEF ChainInv, ChainsTyped
  <2>2. QED
    BY <1>2, <2>1
<1> HIDE DEF w, c
<1>7. AllTold(items, w.members, c)
  <2>1. w.upTo <= c
    <3>1. w.upTo \in Nat /\ c \in Nat
      BY <1>4, <1>5, CircularsAreNumbers
    <3>2. QED
      BY <1>5, <3>1
  <2>2. AllTold(w.items, w.members, c)
    BY <1>4, <1>5, <2>1, TellingGoesOn DEF AllTold
  <2>3. QED
    BY <1>5, <2>2, ChangesAreTold
<1>8. u \in Foldings /\ FoldSound(u)
  <2>1. c \in Nat
    BY <1>5, CircularsAreNumbers
  <2>2. u \in Foldings /\ u.at = w.at /\ u.upTo = c /\ u.members = w.members /\ u.items = items
    BY <1>1, <1>7, <2>1 DEF Foldings, AllTold
  <2>3. QED
    BY <1>5, <1>7, <2>2 DEF FoldSound
<1> HIDE DEF u
<1>9. QED
  BY <1>3, <1>6, <1>8, FoldingMoves

LEMMA LoadingIsSound ==
  ASSUME ChainInv, NEW f \in Folders, Merging!LoadMerge(f)
  PROVE  ChainInv'
<1> DEFINE w == folding[f]
           b == Merging!First(w.members)
           r == IF w.saw.is THEN w.saw ELSE merged[b]
           u == [w EXCEPT !.at = "commit", !.saw = r]
<1>1. w \in Foldings /\ FoldSound(w) /\ w.at = "fold" /\ folding \in [Folders -> Foldings]
  BY DEF ChainInv, ChainsTyped, Merging!LoadMerge
<1>2. folding' = [folding EXCEPT ![f] = u] /\ UNCHANGED <<amendments, blank, merged>>
  <2>1. folding' = [folding EXCEPT ![f].at = "commit", ![f].saw = IF @.is THEN @ ELSE merged[b]]
    BY DEF Merging!LoadMerge
  <2>2. UNCHANGED <<amendments, blank, merged>>
    BY DEF Merging!LoadMerge
  <2>3. QED
    BY <1>1, <2>1, <2>2 DEF Foldings
<1>3. b \in Circulars
  BY <1>1, EndsOfChains DEF Foldings, FoldSound
<1>4. r \in Merges
  BY <1>1, <1>3 DEF ChainInv, ChainsTyped, Foldings
<1> HIDE DEF w, r
<1>5. u \in Foldings /\ FoldSound(u)
  <2>1. u \in Foldings /\ u.at = "commit" /\ u.upTo = w.upTo /\ u.members = w.members /\ u.items = w.items
    BY <1>1, <1>4 DEF Foldings
  <2>2. QED
    BY <1>1, <2>1 DEF FoldSound
<1> HIDE DEF u
<1>6. QED
  BY <1>2, <1>5, FoldingMoves

LEMMA CommittingIsSound ==
  ASSUME ChainInv, NEW f \in Folders, Merging!CommitMerge(f)
  PROVE  ChainInv'
<1> DEFINE w == folding[f]
           b == Merging!First(w.members)
           r == merged[b]
           s == Merging!Saved(w, r)
<1>1. w \in Foldings /\ FoldSound(w) /\ w.at = "commit" /\ ChainsTyped
  BY DEF ChainInv, ChainsTyped, Merging!CommitMerge
<1>2. /\ folding' = [folding EXCEPT ![f] = Merging!Away] /\ UNCHANGED <<amendments, blank>>
      /\ merged' = merged \/ merged' = [merged EXCEPT ![b] = s]
  BY DEF Merging!CommitMerge
<1>3. w.members \in SUBSET Circulars /\ b \in Circulars /\ AllTold(w.items, w.members, w.upTo) /\ r \in Merges /\ w.saw \in Merges
  <2>1. w.members \in SUBSET Circulars /\ w.saw \in Merges
    BY <1>1 DEF Foldings
  <2>2. w.upTo \in w.members /\ AllTold(w.items, w.members, w.upTo)
    BY <1>1 DEF FoldSound
  <2>3. b \in Circulars
    <3> HIDE DEF w
    <3>1. QED
      BY <2>1, <2>2, EndsOfChains
  <2>4. r \in Merges
    BY <1>1, <2>3 DEF ChainsTyped
  <2>5. QED
    BY <2>1, <2>2, <2>3, <2>4
<1> HIDE DEF w, b
<1>4. s \in Merges
  <2> HIDE DEF r
  <2>1. /\ r.is \in BOOLEAN /\ r.members \in SUBSET Circulars /\ r.items \in Seq(Items) /\ r.stale \in BOOLEAN
        /\ r.of \in SUBSET Circulars
    BY <1>3 DEF Merges
  <2>2. w.members \in SUBSET Circulars /\ w.items \in Seq(Items)
    BY <1>1 DEF Foldings
  <2>3. w.saw.stale \in BOOLEAN
    BY <1>3 DEF Merges
  <2>4. (w.saw # r) \in BOOLEAN
    OBVIOUS
  <2> DEFINE m == Merging!Written(w.members, w.saw.members, r.members)
             i == Merging!Written(w.items, w.saw.items, r.items)
             l == Merging!Written(FALSE, w.saw.stale, r.stale)
             o == IF w.saw # r /\ w.items = w.saw.items THEN r.of ELSE w.members
             d == w.saw # r
  <2>5. m \in SUBSET Circulars /\ i \in Seq(Items) /\ l \in BOOLEAN /\ o \in SUBSET Circulars
    BY <2>1, <2>2 DEF Merging!Written
  <2>6. s = [is |-> TRUE, members |-> m, items |-> i, stale |-> l, of |-> o, raced |-> d]
    BY DEF Merging!Saved
  <2> HIDE DEF m, i, l, o, d, s
  <2>7. d \in BOOLEAN
    BY <2>4 DEF d
  <2>8. QED
    BY <2>5, <2>6, <2>7 DEF Merges
<1>5. MergeSound(s)
  <2> SUFFICES ASSUME ~s.raced
               PROVE  s.of = s.members /\ \A i \in DOMAIN s.items : Merging!Explained(s.items[i], s.of)
    BY DEF MergeSound
  <2>1. w.saw = r
    BY DEF Merging!Saved
  <2>2. s.members = w.members /\ s.items = w.items /\ s.of = w.members
    BY <2>1 DEF Merging!Saved, Merging!Written
  <2>3. \A i \in DOMAIN w.items : Merging!Explained(w.items[i], w.members)
    BY <1>3 DEF AllTold, Told
  <2>4. QED
    BY <2>2, <2>3
<1> HIDE DEF s
<1>6. merged' \in [Circulars -> Merges] /\ \A c \in Circulars : MergeSound(merged'[c])
  BY <1>1, <1>2, <1>3, <1>4, <1>5 DEF ChainInv, ChainsTyped
<1>7. folding' \in [Folders -> Foldings] /\ \A g \in Folders : FoldSound(folding'[g])
  BY <1>2, NothingMerged DEF ChainInv, ChainsTyped
<1>8. QED
  BY <1>1, <1>2, <1>6, <1>7 DEF ChainInv, ChainsTyped

LEMMA RelatingIsSound ==
  ASSUME ChainInv, NEW c \in Circulars, Merging!Relate(c)
  PROVE  ChainInv'
<1>1. PICK targets \in SUBSET (Circulars \ {c}), marks \in BOOLEAN :
        /\ amendments' = {e \in amendments : e[1] # c} \union ({c} \X targets)
        /\ merged' = IF marks THEN Merging!Marked(c, targets) ELSE merged
        /\ UNCHANGED <<blank, folding>>
  BY DEF Merging!Relate, Merging!Circular, Circulars
<1>2. ChainsTyped
  BY DEF ChainInv
<1>3. amendments' \in SUBSET (Circulars \X Circulars)
  BY <1>1, <1>2 DEF ChainsTyped
<1>4. ASSUME NEW b \in Circulars
      PROVE  merged'[b] \in Merges /\ MergeSound(merged'[b])
  <2>1. merged[b] \in Merges /\ MergeSound(merged[b])
    BY DEF ChainInv, ChainsTyped
  <2>2. merged'[b] = merged[b] \/ merged'[b] = [merged[b] EXCEPT !.stale = TRUE]
    BY <1>1 DEF Merging!Marked, Merging!Circular, Circulars
  <2>3. ASSUME NEW r, r = [merged[b] EXCEPT !.stale = TRUE]
        PROVE  r \in Merges /\ MergeSound(r)
    <3>1. r \in Merges /\ r.is = merged[b].is /\ r.raced = merged[b].raced /\ r.of = merged[b].of
          /\ r.members = merged[b].members /\ r.items = merged[b].items
      BY <2>1, <2>3 DEF Merges
    <3>2. QED
      BY <2>1, <3>1 DEF MergeSound
  <2>4. QED
    BY <2>1, <2>2, <2>3
<1>5. merged' \in [Circulars -> Merges]
  <2>1. merged' = [b \in Circulars |-> merged'[b]]
    BY <1>1, <1>2 DEF ChainsTyped, Merging!Marked, Merging!Circular, Circulars
  <2>2. QED
    BY <1>4, <2>1
<1>6. QED
  BY <1>1, <1>2, <1>3, <1>4, <1>5 DEF ChainInv, ChainsTyped

LEMMA ChainsStaySound == ChainInv /\ [Merging!ChainNext]_chainState => ChainInv'
<1> SUFFICES ASSUME ChainInv, [Merging!ChainNext]_chainState
             PROVE  ChainInv'
  OBVIOUS
<1>1. CASE UNCHANGED chainState
  BY <1>1 DEF chainState, ChainInv, ChainsTyped
<1>2. ASSUME NEW f \in Folders, Merging!FoldFails(f)
      PROVE  ChainInv'
  BY <1>2, FoldingMoves, NothingMerged DEF Merging!FoldFails
<1>3. CASE Merging!ChainNext
  BY <1>2, <1>3, RelatingIsSound, BeginningIsSound, ExtractingIsSound, AligningIsSound, LoadingIsSound, CommittingIsSound
     DEF Merging!ChainNext, Merging!Circular, Circulars
<1>4. QED
  BY <1>1, <1>3

LEMMA ChainsSay == ChainInv => Merging!ShownIsCurrent /\ Merging!HistoryExplains
<1> SUFFICES ASSUME ChainInv
             PROVE  Merging!ShownIsCurrent /\ Merging!HistoryExplains
  OBVIOUS
<1>1. Merging!HistoryExplains
  BY DEF ChainInv, MergeSound, Merging!HistoryExplains, Merging!Circular, Circulars
<1>2. ASSUME NEW c \in Circulars, Merging!Shown(c).is, ~Merging!Shown(c).raced, Merging!Current(c, Merging!Shown(c))
      PROVE  Merging!Shown(c).of = Merging!ChainOf(amendments, c)
  <2>1. Merging!First(Merging!ChainOf(amendments, c)) \in Circulars
    BY ChainHasIt DEF ChainInv, ChainsTyped
  <2>2. MergeSound(Merging!Shown(c))
    BY <2>1 DEF ChainInv, Merging!Shown
  <2>3. QED
    BY <1>2, <2>2 DEF MergeSound, Merging!Current
<1>3. QED
  BY <1>1, <1>2 DEF Merging!ShownIsCurrent, Merging!Circular, Circulars

LEMMA ChainsHold ==
  Merging!ChainInit /\ [][Merging!ChainNext]_chainState => [](Merging!ShownIsCurrent /\ Merging!HistoryExplains)
BY ChainsBegin, ChainsStaySound, ChainsSay, PTL

-----------------------------------------------------------------------------
(***************************************************************************)
(* Extraction.  Nothing with something to do in it is dropped on the way   *)
(* from units to blocks and batches.                                       *)
(***************************************************************************)
Block == Seq(Nat)
Group == [closed : Seq(Block), open : Block]

\* i lies in one of these blocks.
In(i, blocks) == \E b \in DOMAIN blocks : \E n \in DOMAIN blocks[b] : blocks[b][n] = i
\* i lies in what units were grouped into.
Lies(i, acc) == In(i, acc.closed) \/ \E n \in DOMAIN acc.open : acc.open[n] = i

LEMMA FlushingKeeps ==
  ASSUME NEW units, NEW acc \in Group
  PROVE  LET new == Reading!Flushed(units, acc) IN
         /\ new \in Group /\ new.open = <<>>
         /\ \A i \in Nat : units[i].kind # "na" /\ Lies(i, acc) => In(i, new.closed)
<1> DEFINE new == Reading!Flushed(units, acc)
           c == IF acc.open # <<>> /\ \E i \in Reading!Range(acc.open) : units[i].kind # "na"
                THEN Append(acc.closed, acc.open) ELSE acc.closed
<1>1. acc.closed \in Seq(Block) /\ acc.open \in Block
  BY DEF Group
<1>2. c \in Seq(Block)
  BY <1>1
<1>3. new = [closed |-> c, open |-> <<>>]
  BY DEF Reading!Flushed
<1>4. <<>> \in Block
  BY DEF Block
<1> HIDE DEF c, new
<1>5. new \in Group /\ new.open = <<>> /\ new.closed = c
  BY <1>2, <1>3, <1>4 DEF Group
<1>6. ASSUME NEW i \in Nat, units[i].kind # "na", Lies(i, acc)
      PROVE  In(i, c)
  <2>1. CASE In(i, acc.closed)
    <3>1. PICK b \in DOMAIN acc.closed : \E n \in DOMAIN acc.closed[b] : acc.closed[b][n] = i
      BY <2>1 DEF In
    <3>2. b \in DOMAIN c /\ c[b] = acc.closed[b]
      BY <1>1, <3>1 DEF c
    <3>3. QED
      BY <3>1, <3>2 DEF In
  <2>2. CASE \E n \in DOMAIN acc.open : acc.open[n] = i
    <3>1. PICK n \in DOMAIN acc.open : acc.open[n] = i
      BY <2>2
    <3>2. acc.open # <<>> /\ i \in Reading!Range(acc.open)
      BY <1>1, <3>1 DEF Reading!Range, Block
    <3>3. c = Append(acc.closed, acc.open)
      BY <1>6, <3>2 DEF c
    <3>4. Len(acc.closed) + 1 \in DOMAIN c /\ c[Len(acc.closed) + 1] = acc.open
      BY <1>1, <3>3
    <3>5. QED
      BY <3>1, <3>4 DEF In
  <2>3. QED
    BY <1>6, <2>1, <2>2 DEF Lies
<1>7. QED
  BY <1>5, <1>6 DEF new

\* What was put somewhere stays, and the unit that is grouped is put somewhere.
LEMMA GroupingKeeps ==
  ASSUME NEW units, NEW acc \in Group, NEW k \in Nat
  PROVE  LET new == Reading!Grouped(units, acc, k) IN
         /\ new \in Group
         /\ \A i \in Nat : units[i].kind # "na" /\ (i = k \/ Lies(i, acc)) => Lies(i, new)
<1> DEFINE new == Reading!Grouped(units, acc, k)
           shut == Reading!Flushed(units, acc)
           ready == IF Reading!Fits(units, acc.open, k) THEN acc ELSE shut
           alone == [shut EXCEPT !.open = <<k>>]
           last == Reading!Flushed(units, alone)
           more == [ready EXCEPT !.open = Append(@, k)]
<1>1. /\ shut \in Group
      /\ \A i \in Nat : units[i].kind # "na" /\ Lies(i, acc) => In(i, shut.closed)
  BY FlushingKeeps
<1>2. new = last \/ new = more
  BY DEF Reading!Grouped
<1> HIDE DEF new
<1>3. CASE new = last
  <2>1. alone \in Group /\ alone.closed = shut.closed /\ alone.open = <<k>>
    <3>1. shut.closed \in Seq(Block) /\ <<k>> \in Block
      BY <1>1 DEF Group, Block
    <3> HIDE DEF shut
    <3>2. QED
      BY <1>1, <3>1 DEF Group
  <2> HIDE DEF shut, alone
  <2>2. /\ last \in Group
        /\ \A i \in Nat : units[i].kind # "na" /\ Lies(i, alone) => In(i, last.closed)
    BY <2>1, FlushingKeeps
  <2>3. \A i \in Nat : In(i, shut.closed) \/ i = k => Lies(i, alone)
    BY <2>1 DEF Lies
  <2> HIDE DEF last
  <2>4. \A i \in Nat : units[i].kind # "na" /\ (i = k \/ Lies(i, acc)) => In(i, last.closed)
    BY <1>1, <2>2, <2>3
  <2>5. QED
    BY <1>3, <2>2, <2>4 DEF Lies, new
<1>4. CASE new = more
  <2>1. /\ ready \in Group
        /\ \A i \in Nat : units[i].kind # "na" /\ Lies(i, acc) => Lies(i, ready)
    BY <1>1 DEF Lies
  <2> HIDE DEF ready
  <2>2. more \in Group /\ more.closed = ready.closed /\ more.open = Append(ready.open, k)
    <3>1. ready.closed \in Seq(Block) /\ Append(ready.open, k) \in Block
      BY <2>1 DEF Group, Block
    <3>2. QED
      BY <2>1, <3>1 DEF Group
  <2>3. /\ Len(ready.open) + 1 \in DOMAIN more.open /\ more.open[Len(ready.open) + 1] = k
        /\ \A n \in DOMAIN ready.open : n \in DOMAIN more.open /\ more.open[n] = ready.open[n]
    <3>1. ready.open \in Seq(Nat)
      BY <2>1 DEF Group, Block
    <3> HIDE DEF more
    <3>2. QED
      BY <2>2, <3>1
  <2> HIDE DEF more
  <2>4. \A i \in Nat : i = k \/ Lies(i, ready) => Lies(i, more)
    BY <2>2, <2>3 DEF Lies
  <2>5. QED
    BY <1>4, <2>1, <2>2, <2>4 DEF new
<1> HIDE DEF last, more
<1>5. QED
  BY <1>2, <1>3, <1>4 DEF new

LEMMA SectionsKeep ==
  ASSUME NEW units \in Seq(Reading!Units)
  PROVE  /\ Reading!Sections(units) \in Seq(Block)
         /\ \A i \in DOMAIN units : units[i].kind # "na" => In(i, Reading!Sections(units))
<1> DEFINE N == Len(units)
           g == Reading!Grouping(units)
           b == [closed |-> <<>>, open |-> <<>>]
           F == [k \in Nat |-> [acc \in Group |-> Reading!Grouped(units, acc, k)]]
<1>1. b \in Group /\ N \in Nat
  BY DEF Group, Block
<1>2. F \in [Nat -> [Group -> Group]]
  BY GroupingKeeps
<1> HIDE DEF F
<1>3. PICK f \in [0..N -> Group] : StepByStep(f, b, F, N)
  <2> HIDE DEF b, N
  <2>1. QED
    BY <1>1, <1>2, Iterates
<1>4. f = [k \in 0..N |-> IF k = 0 THEN b ELSE Reading!Grouped(units, f[k - 1], k)]
  <2> HIDE DEF b, N
  <2>1. ASSUME NEW k \in 0..N, k # 0
        PROVE  f[k] = Reading!Grouped(units, f[k - 1], k)
    <3>1. k \in Nat /\ k \in 1..N /\ k - 1 \in 0..N
      BY <1>1, <2>1
    <3>2. f[k] = F[k][f[k - 1]] /\ f[k - 1] \in Group
      BY <1>3, <3>1 DEF StepByStep
    <3>3. QED
      BY <3>1, <3>2 DEF F
  <2>2. f[0] = b
    BY <1>3 DEF StepByStep
  <2>3. QED
    BY <2>1, <2>2
<1>5. g = [k \in 0..N |-> IF k = 0 THEN b ELSE Reading!Grouped(units, g[k - 1], k)]
  BY <1>4 DEF Reading!Grouping
<1> HIDE DEF g, b, N
<1> DEFINE Good(k) == g[k] \in Group /\ \A i \in 1..k : units[i].kind # "na" => Lies(i, g[k])
           T == {k \in 0..N : Good(k)}
<1>6. N \in T
  <2>1. 0 \in T
    BY <1>1, <1>5
  <2>2. ASSUME NEW k \in 1..N, k - 1 \in T
        PROVE  k \in T
    <3>1. k \in Nat /\ k \in 0..N /\ k # 0
      BY <1>1
    <3>2. g[k] = Reading!Grouped(units, g[k - 1], k)
      BY <1>5, <3>1
    <3>3. Good(k - 1)
      BY <2>2
    <3>4. g[k - 1] \in Group
      BY <3>3
    <3>5. /\ g[k] \in Group
          /\ \A i \in Nat : units[i].kind # "na" /\ (i = k \/ Lies(i, g[k - 1])) => Lies(i, g[k])
      BY <3>1, <3>2, <3>4, GroupingKeeps
    <3>6. ASSUME NEW i \in 1..k, units[i].kind # "na"
          PROVE  Lies(i, g[k])
      <4>1. i \in Nat /\ (i = k \/ i \in 1..(k - 1))
        BY <3>1
      <4>2. QED
        BY <3>3, <3>5, <3>6, <4>1
    <3>7. QED
      BY <3>1, <3>5, <3>6
  <2> HIDE DEF T
  <2>3. QED
    BY <1>1, <2>1, <2>2, Throughout
<1>7. Good(N)
  BY <1>6
<1>8. Reading!Sections(units) = Reading!Flushed(units, g[N]).closed
  BY DEF Reading!Sections, g, N
<1>9. /\ Reading!Flushed(units, g[N]) \in Group
      /\ \A i \in Nat : units[i].kind # "na" /\ Lies(i, g[N]) => In(i, Reading!Flushed(units, g[N]).closed)
  BY <1>7, FlushingKeeps
<1>10. DOMAIN units = 1..N /\ \A i \in 1..N : i \in Nat
  BY <1>1 DEF N
<1>11. QED
  <2>1. Reading!Flushed(units, g[N]).closed \in Seq(Block)
    BY <1>9 DEF Group
  <2>2. ASSUME NEW i \in DOMAIN units, units[i].kind # "na"
        PROVE  In(i, Reading!Sections(units))
    BY <1>7, <1>8, <1>9, <1>10, <2>2
  <2>3. QED
    BY <1>8, <2>1, <2>2

\* Joined to the end of the last one or put behind it, a sequence adds what is in it.
Adds(done, b, new) ==
  \/ new = Append(done, b)
  \/ done # <<>> /\ new = Append(SubSeq(done, 1, Len(done) - 1), done[Len(done)] \o b)

LEMMA AddingKeeps ==
  ASSUME NEW E, NEW done \in Seq(Seq(E)), NEW b \in Seq(E), NEW new, Adds(done, b, new)
  PROVE  /\ new \in Seq(Seq(E))
         /\ \A i \in E : In(i, done) \/ (\E n \in DOMAIN b : b[n] = i) => In(i, new)
<1> DEFINE more == Append(done, b)
           last == Len(done)
           joined == Append(SubSeq(done, 1, last - 1), done[last] \o b)
<1>1. b \in Seq(E)
  OBVIOUS
<1>2. new = more \/ (done # <<>> /\ new = joined)
  BY DEF Adds
<1>3. /\ more \in Seq(Seq(E)) /\ last + 1 \in DOMAIN more /\ more[last + 1] = b
      /\ \A m \in DOMAIN done : m \in DOMAIN more /\ more[m] = done[m]
  BY <1>1
<1>4. ASSUME done # <<>>
      PROVE  /\ joined \in Seq(Seq(E)) /\ last \in DOMAIN joined /\ joined[last] = done[last] \o b
             /\ \A m \in DOMAIN done : m # last => m \in DOMAIN joined /\ joined[m] = done[m]
             /\ done[last] \in Seq(E) /\ last \in DOMAIN done
  <2>1. last \in Nat \ {0} /\ last \in DOMAIN done /\ done[last] \in Seq(E)
    BY <1>4
  <2>2. done[last] \o b \in Seq(E)
    BY <1>1, <2>1
  <2> DEFINE front == SubSeq(done, 1, last - 1)
             end == done[last] \o b
  <2>3. front \in Seq(Seq(E)) /\ Len(front) = last - 1 /\ \A m \in 1..(last - 1) : front[m] = done[m]
    <3>1. last - 1 \in Nat /\ DOMAIN done = 1..last
      BY <2>1
    <3>2. QED
      BY <3>1, SubSeqProperties
  <2> HIDE DEF front, end
  <2>4. end \in Seq(E) /\ joined = Append(front, end)
    BY <2>2 DEF front, end
  <2>5. /\ joined \in Seq(Seq(E)) /\ Len(joined) = last /\ joined[last] = end
        /\ \A m \in 1..(last - 1) : joined[m] = done[m]
    <3> HIDE DEF joined, last
    <3>1. QED
      BY <2>1, <2>3, <2>4
  <2>6. DOMAIN joined = 1..last /\ DOMAIN done = 1..last
    <3> HIDE DEF joined
    <3>1. QED
      BY <2>5
  <2> HIDE DEF joined, last
  <2>7. QED
    BY <2>1, <2>2, <2>5, <2>6 DEF end
<1> HIDE DEF more, joined, last
<1>5. ASSUME NEW i \in E
      PROVE  (In(i, done) \/ \E n \in DOMAIN b : b[n] = i) => In(i, more)
  BY <1>3 DEF In
<1>6. ASSUME NEW i \in E, done # <<>>
      PROVE  (In(i, done) \/ \E n \in DOMAIN b : b[n] = i) => In(i, joined)
  <2>1. ASSUME \E n \in DOMAIN done[last] : done[last][n] = i
        PROVE  In(i, joined)
    <3>1. PICK n \in DOMAIN done[last] : done[last][n] = i
      BY <2>1
    <3>2. n \in DOMAIN (done[last] \o b) /\ (done[last] \o b)[n] = i
      BY <1>1, <1>4, <1>6, <3>1
    <3>3. QED
      BY <1>4, <1>6, <3>2 DEF In
  <2>2. ASSUME \E n \in DOMAIN b : b[n] = i
        PROVE  In(i, joined)
    <3>1. PICK n \in DOMAIN b : b[n] = i
      BY <2>2
    <3>2. Len(done[last]) + n \in DOMAIN (done[last] \o b) /\ (done[last] \o b)[Len(done[last]) + n] = i
      BY <1>1, <1>4, <1>6, <3>1
    <3>3. QED
      BY <1>4, <1>6, <3>2 DEF In
  <2>3. ASSUME In(i, done)
        PROVE  In(i, joined)
    <3>1. PICK m \in DOMAIN done : \E n \in DOMAIN done[m] : done[m][n] = i
      BY <2>3 DEF In
    <3>2. CASE m = last
      BY <2>1, <3>1, <3>2
    <3>3. CASE m # last
      BY <1>4, <1>6, <3>1, <3>3 DEF In
    <3>4. QED
      BY <3>2, <3>3
  <2>4. QED
    BY <2>2, <2>3
<1>7. QED
  BY <1>2, <1>3, <1>4, <1>5, <1>6

\* So a sequence that all are added to has all of them.
LEMMA AddingAll ==
  ASSUME NEW E, NEW s \in Seq(Seq(E)), NEW h, h[0] = <<>>, \A k \in 1..Len(s) : Adds(h[k - 1], s[k], h[k])
  PROVE  h[Len(s)] \in Seq(Seq(E)) /\ \A i \in E : In(i, s) => In(i, h[Len(s)])
<1> DEFINE N == Len(s)
           Good(k) == /\ h[k] \in Seq(Seq(E))
                      /\ \A i \in E, m \in 1..k : (\E n \in DOMAIN s[m] : s[m][n] = i) => In(i, h[k])
           T == {k \in 0..N : Good(k)}
<1>1. N \in Nat /\ DOMAIN s = 1..N
  OBVIOUS
<1>2. N \in T
  <2>1. 0 \in T
    <3>1. h[0] \in Seq(Seq(E)) /\ 0 \in 0..N /\ \A m \in 1..0 : FALSE
      <4> HIDE DEF N
      <4>1. QED
        BY <1>1
    <3>2. QED
      BY <3>1
  <2>2. ASSUME NEW k \in 1..N, k - 1 \in T
        PROVE  k \in T
    <3>1. k \in 0..N /\ s[k] \in Seq(E) /\ Adds(h[k - 1], s[k], h[k])
      BY <1>1
    <3>2. Good(k - 1)
      BY <2>2
    <3>3. /\ h[k] \in Seq(Seq(E))
          /\ \A i \in E : In(i, h[k - 1]) \/ (\E n \in DOMAIN s[k] : s[k][n] = i) => In(i, h[k])
      BY <3>1, <3>2, AddingKeeps
    <3>4. \A m \in 1..k : m = k \/ m \in 1..(k - 1)
      BY <1>1
    <3>5. Good(k)
      BY <3>2, <3>3, <3>4
    <3>6. QED
      BY <3>1, <3>5
  <2> HIDE DEF T, N
  <2>3. QED
    BY <1>1, <2>1, <2>2, Throughout
<1>3. Good(N)
  BY <1>2
<1>4. QED
  BY <1>1, <1>3 DEF In

LEMMA BlocksKeep ==
  ASSUME NEW units \in Seq(Reading!Units)
  PROVE  /\ Reading!Blocks(units) \in Seq(Block)
         /\ \A i \in DOMAIN units : units[i].kind # "na" => In(i, Reading!Blocks(units))
<1> DEFINE s == Reading!Sections(units)
           N == Len(s)
           h == CHOOSE h : h = [k \in 0..N |-> IF k = 0 THEN <<>> ELSE Reading!Put(units, h[k - 1], s[k])]
           F == [k \in Nat |-> [d \in Seq(Block) |-> IF k \in 1..N THEN Reading!Put(units, d, s[k]) ELSE d]]
<1>1. s \in Seq(Block) /\ N \in Nat /\ DOMAIN s = 1..N
  BY SectionsKeep
<1>2. Reading!Blocks(units) = h[N]
  BY DEF Reading!Blocks
<1> HIDE DEF s, N
<1>3. ASSUME NEW d, NEW b
      PROVE  Adds(d, b, Reading!Put(units, d, b))
  BY DEF Reading!Put, Reading!Front, Reading!Last, Adds
<1>4. F \in [Nat -> [Seq(Block) -> Seq(Block)]]
  <2>1. ASSUME NEW k \in 1..N, NEW d \in Seq(Block)
        PROVE  Reading!Put(units, d, s[k]) \in Seq(Block)
    <3>1. s[k] \in Seq(Nat)
      BY <1>1 DEF Block
    <3>2. QED
      BY <1>3, <3>1, AddingKeeps DEF Block
  <2>2. QED
    BY <2>1
<1> HIDE DEF F
<1>5. PICK f \in [0..N -> Seq(Block)] : StepByStep(f, <<>>, F, N)
  <2>1. <<>> \in Seq(Block)
    OBVIOUS
  <2>2. QED
    BY <1>1, <1>4, <2>1, Iterates
<1>6. f = [k \in 0..N |-> IF k = 0 THEN <<>> ELSE Reading!Put(units, f[k - 1], s[k])]
  <2>1. ASSUME NEW k \in 0..N, k # 0
        PROVE  f[k] = Reading!Put(units, f[k - 1], s[k])
    <3>1. k \in Nat /\ k \in 1..N /\ k - 1 \in 0..N
      BY <1>1, <2>1
    <3>2. f[k] = F[k][f[k - 1]] /\ f[k - 1] \in Seq(Block)
      BY <1>5, <3>1 DEF StepByStep
    <3>3. QED
      BY <3>1, <3>2 DEF F
  <2>2. f[0] = <<>>
    BY <1>5 DEF StepByStep
  <2>3. QED
    BY <2>1, <2>2
<1>7. h = [k \in 0..N |-> IF k = 0 THEN <<>> ELSE Reading!Put(units, h[k - 1], s[k])]
  BY <1>6
<1> HIDE DEF h
<1>8. h[0] = <<>> /\ \A k \in 1..N : Adds(h[k - 1], s[k], h[k])
  <2>1. h[0] = <<>>
    BY <1>1, <1>7
  <2>2. ASSUME NEW k \in 1..N
        PROVE  Adds(h[k - 1], s[k], h[k])
    <3>1. h[k] = Reading!Put(units, h[k - 1], s[k])
      BY <1>1, <1>7
    <3>2. QED
      BY <1>3, <3>1
  <2>3. QED
    BY <2>1, <2>2
<1>9. h[N] \in Seq(Block) /\ \A i \in Nat : In(i, s) => In(i, h[N])
  BY <1>1, <1>8, AddingAll DEF Block, N
<1>10. \A i \in DOMAIN units : i \in Nat /\ (units[i].kind # "na" => In(i, s))
  BY SectionsKeep DEF s
<1>11. QED
  BY <1>2, <1>9, <1>10

LEMMA BatchesKeep ==
  ASSUME NEW units \in Seq(Reading!Units)
  PROVE  /\ Reading!Batches(units) \in Seq(Seq(Block))
         /\ \A b \in DOMAIN Reading!Blocks(units) : In(Reading!Blocks(units)[b], Reading!Batches(units))
<1> DEFINE l == Reading!Blocks(units)
           N == Len(l)
           s == [k \in 1..N |-> <<l[k]>>]
           h == CHOOSE h : h = [k \in 0..N |-> IF k = 0 THEN <<>> ELSE Reading!Pack(units, h[k - 1], l[k])]
           F == [k \in Nat |-> [d \in Seq(Seq(Block)) |-> IF k \in 1..N THEN Reading!Pack(units, d, l[k]) ELSE d]]
<1>1. l \in Seq(Block) /\ N \in Nat /\ DOMAIN l = 1..N
  BY BlocksKeep
<1>2. Reading!Batches(units) = h[N]
  BY DEF Reading!Batches
<1> HIDE DEF l
<1>3. /\ s \in Seq(Seq(Block)) /\ Len(s) = N
      /\ \A k \in 1..N : s[k] = <<l[k]>> /\ s[k] \in Seq(Block) /\ DOMAIN s[k] = {1} /\ s[k][1] = l[k]
  <2> HIDE DEF N
  <2>1. \A k \in 1..N : <<l[k]>> \in Seq(Block)
    BY <1>1
  <2>2. QED
    BY <1>1, <2>1
<1> HIDE DEF N, s
<1>4. ASSUME NEW d \in Seq(Seq(Block)), NEW k \in 1..N
      PROVE  Adds(d, s[k], Reading!Pack(units, d, l[k]))
  <2>1. CASE Reading!Pack(units, d, l[k]) = Append(d, <<l[k]>>)
    BY <1>3, <2>1 DEF Adds
  <2>2. CASE d # <<>> /\ Reading!Pack(units, d, l[k]) = Append(SubSeq(d, 1, Len(d) - 1), Append(d[Len(d)], l[k]))
    <3>1. d[Len(d)] \in Seq(Block) /\ l[k] \in Block
      BY <1>1, <2>2
    <3>2. Append(d[Len(d)], l[k]) = d[Len(d)] \o <<l[k]>>
      BY <3>1
    <3>3. QED
      BY <1>3, <2>2, <3>2 DEF Adds
  <2>3. QED
    BY <2>1, <2>2 DEF Reading!Pack, Reading!Front, Reading!Last
<1>5. F \in [Nat -> [Seq(Seq(Block)) -> Seq(Seq(Block))]]
  <2>1. ASSUME NEW k \in 1..N, NEW d \in Seq(Seq(Block))
        PROVE  Reading!Pack(units, d, l[k]) \in Seq(Seq(Block))
    BY <1>3, <1>4, AddingKeeps
  <2>2. QED
    BY <2>1
<1> HIDE DEF F
<1>6. PICK f \in [0..N -> Seq(Seq(Block))] : StepByStep(f, <<>>, F, N)
  <2>1. <<>> \in Seq(Seq(Block))
    OBVIOUS
  <2>2. QED
    BY <1>1, <1>5, <2>1, Iterates
<1>7. f = [k \in 0..N |-> IF k = 0 THEN <<>> ELSE Reading!Pack(units, f[k - 1], l[k])]
  <2>1. ASSUME NEW k \in 0..N, k # 0
        PROVE  f[k] = Reading!Pack(units, f[k - 1], l[k])
    <3>1. k \in Nat /\ k \in 1..N /\ k - 1 \in 0..N
      BY <1>1, <2>1
    <3>2. f[k] = F[k][f[k - 1]] /\ f[k - 1] \in Seq(Seq(Block))
      BY <1>6, <3>1 DEF StepByStep
    <3>3. QED
      BY <3>1, <3>2 DEF F
  <2>2. f[0] = <<>>
    BY <1>6 DEF StepByStep
  <2>3. QED
    BY <2>1, <2>2
<1>8. h = [k \in 0..N |-> IF k = 0 THEN <<>> ELSE Reading!Pack(units, h[k - 1], l[k])]
  BY <1>7
<1> HIDE DEF h
<1> DEFINE Good(k) == h[k] \in Seq(Seq(Block))
           T == {k \in 0..N : Good(k)}
<1>9. \A k \in 0..N : Good(k)
  <2> TAKE n \in 0..N
  <2>1. 0 \in T
    BY <1>1, <1>8
  <2>2. ASSUME NEW k \in 1..n, k - 1 \in T
        PROVE  k \in T
    <3>1. k \in 1..N /\ k \in 0..N /\ h[k - 1] \in Seq(Seq(Block)) /\ s[k] \in Seq(Block)
      BY <1>1, <1>3, <2>2
    <3>2. h[k] = Reading!Pack(units, h[k - 1], l[k])
      BY <1>1, <1>8, <3>1
    <3>3. QED
      BY <1>4, <3>1, <3>2, AddingKeeps
  <2> HIDE DEF T
  <2>3. n \in T
    BY <1>1, <2>1, <2>2, Throughout
  <2>4. QED
    BY <2>3 DEF T
<1>10. h[0] = <<>> /\ \A k \in 1..Len(s) : Adds(h[k - 1], s[k], h[k])
  <2>1. h[0] = <<>>
    BY <1>1, <1>8
  <2>2. ASSUME NEW k \in 1..N
        PROVE  Adds(h[k - 1], s[k], h[k])
    <3>1. h[k] = Reading!Pack(units, h[k - 1], l[k]) /\ h[k - 1] \in Seq(Seq(Block))
      BY <1>1, <1>8, <1>9
    <3>2. QED
      BY <1>4, <3>1
  <2>3. QED
    BY <1>3, <2>1, <2>2
<1> HIDE DEF Good
<1>11. h[N] \in Seq(Seq(Block)) /\ \A b \in Block : In(b, s) => In(b, h[N])
  <2>1. h[Len(s)] \in Seq(Seq(Block)) /\ \A b \in Block : In(b, s) => In(b, h[Len(s)])
    BY <1>3, <1>10, AddingAll
  <2>2. QED
    BY <1>3, <2>1
<1>12. \A k \in 1..N : l[k] \in Block /\ In(l[k], s)
  <2> SUFFICES ASSUME NEW k \in 1..N
               PROVE  l[k] \in Block /\ In(l[k], s)
    OBVIOUS
  <2>1. DOMAIN s = 1..N
    BY <1>1, <1>3
  <2>2. k \in DOMAIN s /\ 1 \in DOMAIN s[k] /\ s[k][1] = l[k]
    BY <1>3, <2>1
  <2>3. QED
    BY <1>1, <2>2 DEF In
<1>13. QED
  BY <1>1, <1>2, <1>11, <1>12 DEF l

(***************************************************************************)
(* The extraction.  What there is to do in a document has been read, or is *)
(* about to be, or is said not to have been.                               *)
(***************************************************************************)
Subjects == [units : Seq(Reading!Units), parted : BOOLEAN, lacking : BOOLEAN, wants : {"checklist", "values"}]
Extractions == [at : {"start", "calls", "aborted", "completed", "completed_with_gaps"}, batches : Seq(Seq(Block)),
          alone : Seq(Block), read : SUBSET Block, gaps : SUBSET Block, mode : {"schema", "object", "text"}]

\* A block still to be sent, answered for, or a gap.
SeenTo(i, w) == \E b \in Block : /\ \E n \in DOMAIN b : b[n] = i
                                 /\ b \in w.read \/ b \in w.gaps \/ In(b, w.batches) \/ \E n \in DOMAIN w.alone : w.alone[n] = b

TellsGaps(s, w) ==
  /\ s.wants = "checklist" /\ w.at \in {"calls", "completed", "completed_with_gaps"} =>
       /\ \A i \in DOMAIN s.units : s.units[i].kind # "na" => SeenTo(i, w) \/ Reading!Missing \in w.gaps
       /\ s.lacking => Reading!Missing \in w.gaps
  /\ w.at \in {"completed", "completed_with_gaps"} => /\ w.batches = <<>> /\ w.alone = <<>>
                                                      /\ w.gaps = {} <=> w.at = "completed"

ReadInv == subject \in Subjects /\ work \in Extractions /\ TellsGaps(subject, work)

LEMMA ExtractionBegins == Reading!ExtractionInit => ReadInv
<1> SUFFICES ASSUME Reading!ExtractionInit
             PROVE  ReadInv
  OBVIOUS
<1>1. work = Reading!Unstarted
  BY DEF Reading!ExtractionInit
<1>2. work \in Extractions /\ work.at = "start"
  BY <1>1 DEF Reading!Unstarted, Extractions, Block
<1>3. PICK n \in 0..UnitBound : \E units \in [1..n -> Reading!Units], parted, lacking \in BOOLEAN,
        wants \in {"checklist", "values"} :
          subject = [units |-> units, parted |-> parted, lacking |-> lacking, wants |-> wants]
  BY DEF Reading!ExtractionInit
<1>4. n \in Nat
  BY <1>3
<1>5. subject \in Subjects
  BY <1>3, <1>4 DEF Subjects
<1>6. QED
  BY <1>2, <1>5 DEF ReadInv, TellsGaps

\* What a step must show of the work it leaves.
LEMMA WorkGoesOn ==
  ASSUME ReadInv, NEW w \in Extractions, work' = w, UNCHANGED subject, TellsGaps(subject, w)
  PROVE  ReadInv'
BY DEF ReadInv

LEMMA ConvertingIsSound ==
  ASSUME ReadInv, Reading!Convert
  PROVE  ReadInv'
<1> DEFINE B == Reading!Batches(subject.units)
<1>1. PICK failed \in BOOLEAN : work' =
        [work EXCEPT !.at = "calls", !.batches = IF failed THEN <<>> ELSE B,
           !.gaps = IF failed \/ subject.lacking \/ subject.units = <<>> THEN Reading!Gap(@, Reading!Missing) ELSE @]
  BY DEF Reading!Convert
<1>2. subject \in Subjects /\ work \in Extractions /\ UNCHANGED subject
  BY DEF ReadInv, Reading!Convert
<1>3. subject.units \in Seq(Reading!Units)
  BY <1>2 DEF Subjects
<1>4. /\ B \in Seq(Seq(Block))
      /\ \A b \in DOMAIN Reading!Blocks(subject.units) : In(Reading!Blocks(subject.units)[b], B)
      /\ Reading!Blocks(subject.units) \in Seq(Block)
      /\ \A i \in DOMAIN subject.units : subject.units[i].kind # "na" => In(i, Reading!Blocks(subject.units))
  BY <1>3, BatchesKeep, BlocksKeep
<1> DEFINE b == IF failed THEN <<>> ELSE B
           g == IF failed \/ subject.lacking \/ subject.units = <<>> THEN Reading!Gap(work.gaps, Reading!Missing) ELSE work.gaps
           w == [work EXCEPT !.at = "calls", !.batches = b, !.gaps = g]
<1>5. b \in Seq(Seq(Block)) /\ g \in SUBSET Block
  <2>1. Reading!Missing \in Block /\ work.gaps \in SUBSET Block
    BY <1>2 DEF Reading!Missing, Block, Extractions
  <2>2. QED
    BY <1>4, <2>1 DEF Reading!Gap
<1>6. work' = w
  BY <1>1
<1>7. \A i \in DOMAIN subject.units : subject.units[i].kind # "na" =>
        \E c \in Block : (\E n \in DOMAIN c : c[n] = i) /\ In(c, B)
  <2> TAKE i \in DOMAIN subject.units
  <2> HAVE subject.units[i].kind # "na"
  <2> DEFINE l == Reading!Blocks(subject.units)
  <2>1. PICK m \in DOMAIN l : \E n \in DOMAIN l[m] : l[m][n] = i
    BY <1>4 DEF In
  <2>2. l[m] \in Block /\ In(l[m], B)
    BY <1>4, <2>1
  <2>3. QED
    BY <2>1, <2>2
<1>8. /\ (failed \/ subject.lacking) /\ subject.wants = "checklist" => Reading!Missing \in g
      /\ ~failed => b = B
  BY DEF Reading!Gap
<1> HIDE DEF b, g, B
<1>9. w \in Extractions /\ w.at = "calls" /\ w.batches = b /\ w.gaps = g
  BY <1>2, <1>5 DEF Extractions
<1> HIDE DEF w
<1>10. TellsGaps(subject, w)
  <2>1. ~failed => \A i \in DOMAIN subject.units : subject.units[i].kind # "na" => SeenTo(i, w)
    BY <1>7, <1>8, <1>9 DEF SeenTo
  <2>2. QED
    BY <1>8, <1>9, <2>1 DEF TellsGaps
<1>11. QED
  BY <1>2, <1>6, <1>9, <1>10, WorkGoesOn

\* What is seen to stays so when a block leaves what is to be sent only to be answered for or
\* listed, or when a document's gap is listed anyway.
LEMMA SeenToStays ==
  ASSUME NEW s, NEW v, NEW w, TellsGaps(s, v), v.at = "calls", w.at = "calls",
         v.gaps \subseteq w.gaps,
         s.wants = "checklist" => \A b \in Block :
            (b \in v.read \/ b \in v.gaps \/ In(b, v.batches) \/ \E n \in DOMAIN v.alone : v.alone[n] = b) =>
            (b \in w.read \/ b \in w.gaps \/ In(b, w.batches) \/ \E n \in DOMAIN w.alone : w.alone[n] = b)
  PROVE  TellsGaps(s, w)
BY DEF TellsGaps, SeenTo

LEMMA AskingIsSound ==
  ASSUME ReadInv, Reading!AskForLess
  PROVE  ReadInv'
<1> DEFINE m == IF work.mode = "schema" THEN "object" ELSE "text"
           w == [work EXCEPT !.mode = m]
<1>1. work \in Extractions /\ TellsGaps(subject, work) /\ work.at = "calls" /\ UNCHANGED subject /\ work' = w
  BY DEF ReadInv, Reading!AskForLess, Reading!Pending
<1>2. /\ w \in Extractions /\ w.at = "calls" /\ w.read = work.read /\ w.gaps = work.gaps /\ w.batches = work.batches
      /\ w.alone = work.alone
  BY <1>1 DEF Extractions
<1> HIDE DEF w
<1>3. QED
  BY <1>1, <1>2, SeenToStays, WorkGoesOn

\* The first of what is to be sent leaves it.
LEMMA FirstLeaves ==
  ASSUME NEW E, NEW q \in Seq(E), q # <<>>
  PROVE  /\ Head(q) \in E /\ Head(q) = q[1] /\ Tail(q) \in Seq(E) /\ 1 \in DOMAIN q
         /\ \A n \in DOMAIN q : n # 1 => n - 1 \in DOMAIN Tail(q) /\ Tail(q)[n - 1] = q[n]
OBVIOUS

LEMMA BatchLeaves ==
  ASSUME NEW q \in Seq(Seq(Block)), q # <<>>
  PROVE  \A b \in Block : In(b, q) => In(b, Tail(q)) \/ \E n \in DOMAIN Head(q) : Head(q)[n] = b
<1> TAKE b \in Block
<1> HAVE In(b, q)
<1>1. PICK m \in DOMAIN q : \E n \in DOMAIN q[m] : q[m][n] = b
  BY DEF In
<1>2. CASE m = 1
  BY <1>1, <1>2, FirstLeaves
<1>3. CASE m # 1
  <2>1. m - 1 \in DOMAIN Tail(q) /\ Tail(q)[m - 1] = q[m]
    BY <1>1, <1>3, FirstLeaves
  <2>2. QED
    BY <1>1, <2>1 DEF In
<1>4. QED
  BY <1>2, <1>3

LEMMA ReadingBatchIsSound ==
  ASSUME ReadInv, Reading!ReadBatch
  PROVE  ReadInv'
<1> DEFINE h == Head(work.batches)
           r == work.read \union Reading!Range(h)
           q == Tail(work.batches)
           w == [work EXCEPT !.batches = q, !.read = r]
<1>1. /\ work \in Extractions /\ TellsGaps(subject, work) /\ work.at = "calls" /\ UNCHANGED subject /\ work' = w
      /\ work.batches # <<>>
  BY DEF ReadInv, Reading!ReadBatch, Reading!Calling
<1>2. work.batches \in Seq(Seq(Block)) /\ work.read \in SUBSET Block
  BY <1>1 DEF Extractions
<1>3. h \in Seq(Block) /\ q \in Seq(Seq(Block))
  BY <1>1, <1>2, FirstLeaves
<1>4. \A b \in Block : In(b, work.batches) => In(b, q) \/ \E n \in DOMAIN h : h[n] = b
  BY <1>1, <1>2, BatchLeaves
<1> HIDE DEF h, q
<1>5. r \in SUBSET Block /\ work.read \subseteq r /\ \A n \in DOMAIN h : h[n] \in r
  BY <1>2, <1>3 DEF Reading!Range
<1> HIDE DEF r
<1>6. /\ w \in Extractions /\ w.at = "calls" /\ w.read = r /\ w.gaps = work.gaps /\ w.batches = q
      /\ w.alone = work.alone
  BY <1>1, <1>3, <1>5 DEF Extractions
<1> HIDE DEF w
<1>7. TellsGaps(subject, w)
  BY <1>1, <1>4, <1>5, <1>6, SeenToStays
<1>8. QED
  BY <1>1, <1>6, <1>7, WorkGoesOn

LEMMA FailingBatchIsSound ==
  ASSUME ReadInv, Reading!BatchFails
  PROVE  ReadInv'
<1> DEFINE h == Head(work.batches)
           q == Tail(work.batches)
           g == Reading!Gap(work.gaps, h[1])
           v == [work EXCEPT !.batches = q, !.gaps = g]
           w == [work EXCEPT !.batches = q, !.alone = h]
<1>1. /\ work \in Extractions /\ TellsGaps(subject, work) /\ work.at = "calls" /\ UNCHANGED subject
      /\ work.batches # <<>> /\ work.alone = <<>> /\ work' = IF Len(h) = 1 THEN v ELSE w
  BY DEF ReadInv, Reading!BatchFails, Reading!Calling
<1>2. work.batches \in Seq(Seq(Block)) /\ work.gaps \in SUBSET Block
  BY <1>1 DEF Extractions
<1>3. h \in Seq(Block) /\ q \in Seq(Seq(Block))
  BY <1>1, <1>2, FirstLeaves
<1>4. \A b \in Block : In(b, work.batches) => In(b, q) \/ \E n \in DOMAIN h : h[n] = b
  BY <1>1, <1>2, BatchLeaves
<1> HIDE DEF h, q
<1>5. CASE Len(h) = 1
  <2>1. h[1] \in Block /\ DOMAIN h = {1}
    <3>1. DOMAIN h = 1..1
      BY <1>3, <1>5
    <3>2. DOMAIN h = {1}
      BY <3>1
    <3>3. h[1] \in Block
      <4>1. 1 \in 1..Len(h)
        BY <1>5
      <4>2. QED
        BY <1>3, <4>1, ElementOfSeq
    <3>4. QED
      BY <3>2, <3>3
  <2>2. g \in SUBSET Block /\ work.gaps \subseteq g /\ (subject.wants = "checklist" => h[1] \in g)
    BY <1>2, <2>1 DEF Reading!Gap
  <2> HIDE DEF g
  <2>3. /\ v \in Extractions /\ v.at = "calls" /\ v.read = work.read /\ v.gaps = g /\ v.batches = q
        /\ v.alone = work.alone
    BY <1>1, <1>3, <2>2 DEF Extractions
  <2> HIDE DEF v
  <2>4. subject.wants = "checklist" => \A b \in Block : In(b, work.batches) => In(b, q) \/ b \in g
    BY <1>4, <2>1, <2>2
  <2>5. TellsGaps(subject, v)
    BY <1>1, <2>2, <2>3, <2>4, SeenToStays
  <2>6. QED
    BY <1>1, <1>5, <2>3, <2>5, WorkGoesOn
<1>6. CASE Len(h) # 1
  <2>1. /\ w \in Extractions /\ w.at = "calls" /\ w.read = work.read /\ w.gaps = work.gaps /\ w.batches = q
        /\ w.alone = h
    BY <1>1, <1>3 DEF Extractions
  <2> HIDE DEF w
  <2>2. \A b \in Block : ~(\E n \in DOMAIN work.alone : work.alone[n] = b)
    BY <1>1
  <2>3. TellsGaps(subject, w)
    BY <1>1, <1>4, <2>1, <2>2, SeenToStays
  <2>4. QED
    BY <1>1, <1>6, <2>1, <2>3, WorkGoesOn
<1>7. QED
  BY <1>5, <1>6

\* A block sent on its own is answered for, or is a gap.
LEMMA AloneIsSound ==
  ASSUME ReadInv, Reading!ReadAlone \/ Reading!AloneFails
  PROVE  ReadInv'
<1> DEFINE h == Head(work.alone)
           q == Tail(work.alone)
           r == work.read \union {h}
           g == Reading!Gap(work.gaps, h)
           v == [work EXCEPT !.alone = q, !.read = r]
           w == [work EXCEPT !.alone = q, !.gaps = g]
<1>1. /\ work \in Extractions /\ TellsGaps(subject, work) /\ work.at = "calls" /\ UNCHANGED subject
      /\ work.alone # <<>> /\ (work' = v \/ work' = w)
  BY DEF ReadInv, Reading!ReadAlone, Reading!AloneFails, Reading!LeftOut
<1>2. work.alone \in Seq(Block) /\ work.gaps \in SUBSET Block /\ work.read \in SUBSET Block
  BY <1>1 DEF Extractions
<1>3. h \in Block /\ q \in Seq(Block)
  BY <1>1, <1>2, FirstLeaves
<1>4. \A b \in Block : (\E n \in DOMAIN work.alone : work.alone[n] = b) => b = h \/ \E n \in DOMAIN q : q[n] = b
  <2> TAKE b \in Block
  <2> HAVE \E n \in DOMAIN work.alone : work.alone[n] = b
  <2>1. PICK n \in DOMAIN work.alone : work.alone[n] = b
    OBVIOUS
  <2>2. h = work.alone[1] /\ (n # 1 => n - 1 \in DOMAIN q /\ q[n - 1] = work.alone[n])
    BY <1>1, <1>2, <2>1, FirstLeaves
  <2>3. QED
    BY <2>1, <2>2
<1> HIDE DEF h, q
<1>5. r \in SUBSET Block /\ g \in SUBSET Block /\ work.gaps \subseteq g /\ (subject.wants = "checklist" => h \in g)
  BY <1>2, <1>3 DEF Reading!Gap
<1>6. CASE work' = v
  <2>1. h \in r /\ work.read \subseteq r
    OBVIOUS
  <2> HIDE DEF r
  <2>2. /\ v \in Extractions /\ v.at = "calls" /\ v.read = r /\ v.gaps = work.gaps /\ v.batches = work.batches
        /\ v.alone = q
    BY <1>1, <1>3, <1>5 DEF Extractions
  <2> HIDE DEF v
  <2>3. TellsGaps(subject, v)
    BY <1>1, <1>4, <2>1, <2>2, SeenToStays
  <2>4. QED
    BY <1>1, <1>6, <2>2, <2>3, WorkGoesOn
<1>7. CASE work' = w
  <2> HIDE DEF g
  <2>1. /\ w \in Extractions /\ w.at = "calls" /\ w.read = work.read /\ w.gaps = g /\ w.batches = work.batches
        /\ w.alone = q
    BY <1>1, <1>3, <1>5 DEF Extractions
  <2> HIDE DEF w
  <2>2. TellsGaps(subject, w)
    BY <1>1, <1>4, <1>5, <2>1, SeenToStays
  <2>3. QED
    BY <1>1, <1>7, <2>1, <2>2, WorkGoesOn
<1>8. QED
  BY <1>1, <1>6, <1>7

LEMMA EndingIsSound ==
  ASSUME ReadInv, Reading!Abort \/ Reading!Finish
  PROVE  ReadInv'
<1>1. CASE Reading!Abort
  <2> DEFINE u == Reading!Unstarted
             w == [u EXCEPT !.at = "aborted"]
  <2>1. work' = w /\ UNCHANGED subject
    BY <1>1 DEF Reading!Abort
  <2>2. w \in Extractions /\ w.at = "aborted"
    <3>1. u \in Extractions
      BY DEF Reading!Unstarted, Extractions, Block
    <3> HIDE DEF u
    <3>2. QED
      BY <3>1 DEF Extractions
  <2> HIDE DEF w
  <2>3. QED
    BY <2>1, <2>2, WorkGoesOn DEF TellsGaps
<1>2. CASE Reading!Finish
  <2> DEFINE w == [work EXCEPT !.at = Reading!Status]
  <2>1. /\ work \in Extractions /\ TellsGaps(subject, work) /\ work.at = "calls" /\ UNCHANGED subject /\ work' = w
        /\ work.batches = <<>> /\ work.alone = <<>>
    BY <1>2 DEF ReadInv, Reading!Finish
  <2>2. Reading!Status \in {"completed", "completed_with_gaps"} /\ (work.gaps = {} <=> Reading!Status = "completed")
    BY DEF Reading!Status
  <2>3. /\ w \in Extractions /\ w.at = Reading!Status /\ w.read = work.read /\ w.gaps = work.gaps /\ w.batches = work.batches
        /\ w.alone = work.alone
    BY <2>1, <2>2 DEF Extractions
  <2> HIDE DEF w
  <2>4. TellsGaps(subject, w)
    BY <2>1, <2>2, <2>3 DEF TellsGaps, SeenTo
  <2>5. QED
    BY <2>1, <2>3, <2>4, WorkGoesOn
<1>3. QED
  BY <1>1, <1>2

LEMMA ReadStaysSound == ReadInv /\ [Reading!ExtractionNext]_readState => ReadInv'
<1> SUFFICES ASSUME ReadInv, [Reading!ExtractionNext]_readState
             PROVE  ReadInv'
  OBVIOUS
<1>1. CASE UNCHANGED readState
  BY <1>1 DEF ReadInv, readState, TellsGaps, SeenTo
<1>2. CASE Reading!ExtractionNext
  BY <1>2, ConvertingIsSound, AskingIsSound, ReadingBatchIsSound, FailingBatchIsSound, AloneIsSound, EndingIsSound
     DEF Reading!ExtractionNext
<1>3. QED
  BY <1>1, <1>2

LEMMA ReadSays == ReadInv => Reading!ChecklistSaysWhatItLacks
<1> SUFFICES ASSUME ReadInv, subject.wants = "checklist", work.at \in {"completed", "completed_with_gaps"}
             PROVE  /\ \A i \in DOMAIN subject.units : subject.units[i].kind # "na" =>
                         \/ Reading!Within(i, work.read) \/ Reading!Within(i, work.gaps) \/ Reading!Missing \in work.gaps
                    /\ subject.lacking => work.at = "completed_with_gaps"
  BY DEF Reading!ChecklistSaysWhatItLacks
<1>1. /\ \A i \in DOMAIN subject.units : subject.units[i].kind # "na" => SeenTo(i, work) \/ Reading!Missing \in work.gaps
      /\ subject.lacking => Reading!Missing \in work.gaps
      /\ work.batches = <<>> /\ work.alone = <<>> /\ (work.gaps = {} <=> work.at = "completed")
  BY DEF ReadInv, TellsGaps
<1>2. ASSUME NEW i \in DOMAIN subject.units, SeenTo(i, work)
      PROVE  Reading!Within(i, work.read) \/ Reading!Within(i, work.gaps)
  <2>1. PICK b \in Block : /\ \E n \in DOMAIN b : b[n] = i
                           /\ b \in work.read \/ b \in work.gaps \/ In(b, work.batches)
                                \/ \E n \in DOMAIN work.alone : work.alone[n] = b
    BY <1>2 DEF SeenTo
  <2>2. b \in work.read \/ b \in work.gaps
    <3>1. DOMAIN work.batches = {} /\ DOMAIN work.alone = {}
      BY <1>1
    <3>2. ~In(b, work.batches)
      BY <3>1 DEF In
    <3>3. QED
      BY <2>1, <3>1, <3>2
  <2>3. i \in Reading!Range(b)
    BY <2>1 DEF Reading!Range
  <2>4. QED
    BY <2>2, <2>3 DEF Reading!Within
<1>3. QED
  BY <1>1, <1>2

LEMMA ReadHolds ==
  Reading!ExtractionInit /\ [][Reading!ExtractionNext]_readState => []Reading!ChecklistSaysWhatItLacks
BY ExtractionBegins, ReadStaysSound, ReadSays, PTL

=============================================================================

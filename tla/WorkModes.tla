------------------------------ MODULE WorkModes ------------------------------
(***************************************************************************)
(* The selection of work modes for a dispatch: core/work_mode_context.py,  *)
(* its callers in core/dispatch_service.py and the two tools of the PM.    *)
(*                                                                         *)
(* A planning takes a snapshot of the active definitions, ranks those that *)
(* apply (by words, or by embeddings whose calls it awaits), keeps the     *)
(* best, fits them into the prompt, and pulls bodies on demand. Plannings  *)
(* share one cache of vectors, and definitions are edited meanwhile.       *)
(* Words, vectors and sizes are given as numbers per definition and text.  *)
(***************************************************************************)
EXTENDS Integers, FiniteSets, SequencesExt

CONSTANTS
    Profile,        \* of a definition, per text: fits, described, words, alike, priority, size
    OfKind,         \* the kinds a search may ask for: sets of definitions
    Picked,         \* those the user has picked by hand
    Planners,
    Limits,         \* results a search may ask for
    MaxSelected,    \* results of the first search
    MaxTokens,      \* room for the index in the prompt
    MaxPulls,       \* bodies a planning may pull
    MaxEdits        \* a bound on the edits of definitions

Modes == DOMAIN Profile
Texts == 1 .. Len(Profile[1])

RowType == [fits : BOOLEAN, described : BOOLEAN, words : Nat, alike : Int, priority : Int, size : Nat]

ASSUME WorkModesAssumption ==
    /\ Profile \in Seq(Seq(RowType))
    /\ \A m \in Modes : Profile[m] # <<>> /\ DOMAIN Profile[m] = Texts
    /\ OfKind \subseteq SUBSET Modes
    /\ MaxSelected \in Nat /\ MaxTokens \in Nat /\ MaxPulls \in Nat /\ Limits \subseteq Nat

VARIABLES
    text, live,     \* the definitions: the text each has, those that are active
    vectors,        \* _VECTOR_CACHE: the text whose vector is kept, 0 for none, and who made it
    planning,
    skewed          \* history: candidates scored by the vector another planning wrote during
                    \* the wait, or by one that was not made as the query's was

modeVars == <<text, live, vectors, planning, skewed>>

\* Who makes the vectors: the provider, or this program when that fails.
Embedders == {"provider", "local"}
NoVector == [text |-> 0, by |-> "local"]

NoAnswer == [selected |-> <<>>, dropped |-> <<>>, by |-> "nobody"]
NotPlanning == [at |-> "off", snap |-> [m \in Modes |-> 0], semantic |-> FALSE, first |-> TRUE,
                kind |-> {}, limit |-> 0, query |-> "local", need |-> {}, answer |-> NoAnswer,
                index |-> <<>>, pulls |-> 0]

ModesInit ==
    /\ text = [m \in Modes |-> 1] /\ live = Modes
    /\ vectors = [m \in Modes |-> NoVector]
    /\ planning = [p \in Planners |-> NotPlanning]
    /\ skewed = [p \in Planners |-> {}]

At(p, place) == planning[p].at = place

-----------------------------------------------------------------------------
(* The library.                                                            *)

Changed == {m \in Modes : text[m] > 1 \/ m \notin live}

Edit(m) ==
    /\ m \in live /\ text[m] < Len(Profile[m]) /\ Cardinality(Changed) < MaxEdits
    /\ text' = [text EXCEPT ![m] = @ + 1]
    /\ UNCHANGED <<live, vectors, planning, skewed>>

Delete(m) ==
    /\ m \in live /\ Cardinality(Changed) < MaxEdits
    /\ live' = live \ {m}
    /\ UNCHANGED <<text, vectors, planning, skewed>>

-----------------------------------------------------------------------------
(* The funnel.                                                             *)

Snapped(p) == {m \in Modes : planning[p].snap[m] > 0}
Row(p, m) == Profile[m][planning[p].snap[m]]

\* The members of s in an order, which is a set of pairs.
InOrder(s, order) ==
    CHOOSE f \in [1 .. Cardinality(s) -> s] :
        /\ ToSet(f) = s
        /\ \A i, j \in DOMAIN f : i < j => <<f[i], f[j]>> \in order

\* What the user has picked passes whatever its scope, kind or description.
Manual(p) == Snapped(p) \cap Picked
Eligible(p) ==
    {m \in (Snapped(p) \cap planning[p].kind) \ Picked : Row(p, m).fits /\ Row(p, m).described}

ByWords(p, a, b) ==
    LET s == Row(p, a)
        t == Row(p, b) IN
    \/ s.words > t.words
    \/ s.words = t.words /\ s.priority > t.priority
    \/ s.words = t.words /\ s.priority = t.priority /\ a < b

Lexical(p) == InOrder(Eligible(p), {q \in Modes \X Modes : ByWords(p, q[1], q[2])})

\* By the vectors there are: zero for one that is not like the query's; of
\* equals, the one the words put first.
ByVectors(p, cache, query, a, b) ==
    LET score(m) == IF cache[m].text = 0 \/ cache[m].by # query THEN 0
                    ELSE Profile[m][cache[m].text].alike IN
    \/ score(a) > score(b)
    \/ score(a) = score(b) /\ ByWords(p, a, b)

Semantic(p, cache, query) ==
    InOrder(Eligible(p), {q \in Modes \X Modes : ByVectors(p, cache, query, q[1], q[2])})
Unlike(p, cache, query) == {m \in Eligible(p) : cache[m].by # query}

\* The picks lead, then the best; the rest is dropped.
Cut(p, ranked, by) ==
    LET cap == IF planning[p].limit < Len(ranked) THEN planning[p].limit ELSE Len(ranked) IN
    [selected |-> InOrder(Manual(p), {q \in Modes \X Modes : q[1] < q[2]}) \o SubSeq(ranked, 1, cap),
     dropped |-> SubSeq(ranked, cap + 1, Len(ranked)), by |-> by]

TokensOf(p, s) == FoldSeq(LAMBDA m, sum : sum + Row(p, m).size, 0, s)

\* The lowest ranked are left out until it fits; the last one is shortened.
Fitted(p, s) ==
    LET fits == {n \in 1 .. Len(s) : n = 1 \/ TokensOf(p, SubSeq(s, 1, n)) <= MaxTokens} IN
    IF s = <<>> THEN <<>> ELSE SubSeq(s, 1, CHOOSE n \in fits : \A k \in fits : k <= n)

\* The first answer makes the index of the prompt, at once.
Answered(p, answer) ==
    planning' = [planning EXCEPT ![p].answer = answer, ![p].need = {}, ![p].query = "local",
                                 ![p].at = "tools",
                                 ![p].index = IF planning[p].first THEN Fitted(p, answer.selected) ELSE @]

BeginPlanning(p, semantic) ==
    /\ At(p, "off")
    /\ planning' = [planning EXCEPT ![p] =
          [NotPlanning EXCEPT !.at = "query", !.semantic = semantic, !.kind = Modes, !.limit = MaxSelected,
                              !.snap = [m \in Modes |-> IF m \in live THEN text[m] ELSE 0]]]
    /\ skewed' = [skewed EXCEPT ![p] = {}]
    /\ UNCHANGED <<text, live, vectors>>

\* work_mode_search, over the same snapshot.
Search(p, kind, limit) ==
    /\ At(p, "tools")
    /\ planning' = [planning EXCEPT ![p].at = "query", ![p].first = FALSE, ![p].kind = kind,
                                    ![p].limit = limit, ![p].answer = NoAnswer]
    /\ skewed' = [skewed EXCEPT ![p] = {}]
    /\ UNCHANGED <<text, live, vectors>>

RankByWords(p) ==
    /\ At(p, "query") /\ ~planning[p].semantic
    /\ Answered(p, Cut(p, Lexical(p), "words"))
    /\ UNCHANGED <<text, live, vectors, skewed>>

Stale_IfNone(p) == {m \in Eligible(p) : vectors[m].text = 0}
\* Those whose text is not the one a vector is kept of.
Stale(p) == {m \in Eligible(p) : vectors[m].text # planning[p].snap[m]}

\* The query's vector is there; what is stale is embedded in one batch.
QueryEmbedded(p, by) ==
    /\ At(p, "query") /\ planning[p].semantic
    /\ IF Stale(p) = {}
       THEN /\ Answered(p, Cut(p, Semantic(p, vectors, by), "vectors"))
            /\ skewed' = [skewed EXCEPT ![p] = Unlike(p, vectors, by)]
       ELSE /\ planning' = [planning EXCEPT ![p].at = "batch", ![p].need = Stale(p), ![p].query = by]
            /\ skewed' = [skewed EXCEPT ![p] = {}]
    /\ UNCHANGED <<text, live, vectors>>

\* The scores come from the cache as it is now.
BatchEmbedded(p, by) ==
    /\ At(p, "batch")
    /\ vectors' = [m \in Modes |-> IF m \in planning[p].need
                                   THEN [text |-> planning[p].snap[m], by |-> by] ELSE vectors[m]]
    /\ Answered(p, Cut(p, Semantic(p, vectors', planning[p].query), "vectors"))
    /\ skewed' = [q \in Planners |->
          IF q = p THEN (skewed[q] \ planning[p].need) \cup Unlike(p, vectors', planning[p].query)
          ELSE IF At(q, "batch")
          THEN skewed[q] \cup {m \in planning[p].need : planning[p].snap[m] # planning[q].snap[m]}
          ELSE skewed[q]]
    /\ UNCHANGED <<text, live>>

\* No vectors, or fewer than asked for: the words decide.
EmbedFails(p) ==
    /\ At(p, "query") \/ At(p, "batch")
    /\ planning[p].semantic /\ Eligible(p) # {}
    /\ Answered(p, Cut(p, Lexical(p), "words"))
    /\ UNCHANGED <<text, live, vectors, skewed>>

-----------------------------------------------------------------------------
(* The bodies.                                                             *)

\* work_mode_get: any active definition, as the store has it now.
Pull(p, m) ==
    /\ At(p, "tools") /\ planning[p].pulls < MaxPulls /\ m \in live
    /\ planning' = [planning EXCEPT ![p].pulls = @ + 1]
    /\ UNCHANGED <<text, live, vectors, skewed>>

\* What the launch writes into the workspace: the indexed bodies, as the store
\* has them.
Material(p) == ToSet(planning[p].index) \cap live

Launch(p) ==
    /\ At(p, "tools")
    /\ planning' = [planning EXCEPT ![p] = NotPlanning]
    /\ skewed' = [skewed EXCEPT ![p] = {}]
    /\ UNCHANGED <<text, live, vectors>>

ModesNext ==
    \/ \E m \in Modes : Edit(m) \/ Delete(m)
    \/ \E p \in Planners :
          \/ RankByWords(p) \/ EmbedFails(p)
          \/ Launch(p)
          \/ \E semantic \in BOOLEAN : BeginPlanning(p, semantic)
          \/ \E by \in Embedders : QueryEmbedded(p, by) \/ BatchEmbedded(p, by)
          \/ \E kind \in OfKind, limit \in Limits : Search(p, kind, limit)
          \/ \E m \in Modes : Pull(p, m)

ModesSpec == ModesInit /\ [][ModesNext]_modeVars

-----------------------------------------------------------------------------
(* Properties.                                                             *)

\* The scale an answer was ranked by, on the planning's own texts.
Outranks(p, a, b) ==
    IF planning[p].answer.by = "vectors" THEN Row(p, a).alike > Row(p, b).alike
    ELSE \/ Row(p, a).words > Row(p, b).words
         \/ Row(p, a).words = Row(p, b).words /\ Row(p, a).priority > Row(p, b).priority

Faithful(p, excused) ==
    LET chosen == ToSet(planning[p].answer.selected)
        rest == ToSet(planning[p].answer.dropped) IN
    /\ Manual(p) \subseteq chosen
    /\ Cardinality(chosen \ Picked) <= planning[p].limit
    /\ chosen \cap rest = {} /\ chosen \cup rest = Manual(p) \cup Eligible(p)
    /\ \A m \in rest \ excused, n \in chosen \ (Picked \cup excused) : ~Outranks(p, m, n)

\* What the user picked is there, nothing that applies is lost, and nothing that
\* was dropped scores better on its own text than what was kept, whatever was
\* edited or failed while the planning waited, save for skewed vectors
\* (aresolve and EmbeddingScorer.scores).
FunnelKeepsFaith ==
    \A p \in Planners : planning[p].answer # NoAnswer => Faithful(p, skewed[p])

\* A planning ranks by the texts of its own snapshot. It is not so: the vectors
\* another one writes during the wait for a batch are taken as they are, and one
\* that was made by the other embedder counts as zero.
ScoresAreOwn ==
    \A p \in Planners : planning[p].answer # NoAnswer => Faithful(p, {})

\* The bodies are those the index describes. It is not so: they are read from
\* the store as it is by then.
BodyIsIndexed ==
    [][\A p \in Planners :
          /\ Launch(p) => \A m \in Material(p) : planning[p].snap[m] = text[m]
          /\ \A m \in Modes : Pull(p, m) => planning[p].snap[m] = text[m]]_modeVars

\* What applies and is left out of the prompt's index is among the dropped. It
\* is not so: what the index had no room for is in neither.
CutIsTold ==
    \A p \in Planners : At(p, "tools") /\ planning[p].first =>
        Manual(p) \cup Eligible(p) =
            ToSet(planning[p].index) \cup ToSet(planning[p].answer.dropped)
=============================================================================

----------------------------- MODULE Candidates ------------------------------
(***************************************************************************)
(* The competition of a cognitive trace (crates/core/src/recall/           *)
(* cognitive_trace.rs): the candidates that recall and spreading           *)
(* activation have found, ranked by a mixture of both.                     *)
(***************************************************************************)
EXTENDS Activation

CONSTANT SuppressedLimit \* CognitiveTraceConfig: candidates besides the dominant one

ASSUME CandidatesConstants == SuppressedLimit \in Nat

Upto(s, n) == SubSeq(s, 1, Min({n, Len(s)}))
AtLeast1(n) == Max({n, 1})
IdsOf(s) == [i \in DOMAIN s |-> s[i].id]

\* CandidateBuilder: what recall and spread say of each memory they found.
Builders(vis, nodes, latent) ==
  LET rank(m) == CHOOSE i \in DOMAIN vis : vis[i].id = m IN
  {[id    |-> m,
    score |-> IF m \in Range(IdsOf(vis)) THEN vis[rank(m)].score ELSE 0,
    rank  |-> IF m \in Range(IdsOf(vis)) THEN rank(m) ELSE Len(vis) + 1,
    act   |-> IF m \in Range(latent) THEN nodes[m].act ELSE 0] :
   m \in Range(IdsOf(vis)) \cup Range(latent)}

\* competition_score, in tenths of the product of the two maxima.
Competition(b, maxVisible, maxLatent) ==
  7 * b.score * AtLeast1(maxLatent) + 10 * b.act * AtLeast1(maxVisible)

\* merge_candidates and compare_builders: by score, visible rank and id.
MergeCandidates(vis, nodes, latent) ==
  LET bs   == Builders(vis, nodes, latent)
      maxV == Max({0} \cup {b.score : b \in bs})
      maxL == Max({0} \cup {b.act : b \in bs})
      of(b) == Competition(b, maxV, maxL)
      before == {e \in bs \X bs :
                   \/ of(e[1]) > of(e[2])
                   \/ of(e[1]) = of(e[2]) /\ e[1].rank < e[2].rank
                   \/ of(e[1]) = of(e[2]) /\ e[1].rank = e[2].rank /\ e[1].id < e[2].id}
  IN  Upto(Ranked(bs, before), 1 + SuppressedLimit)
=============================================================================

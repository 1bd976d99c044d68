------------------------------- MODULE Packing ------------------------------
(***************************************************************************)
(* The selection of the chunks of an answer: Service.pack                  *)
(* (internal/core/service/pack*.go, intel_tasks*.go).  The segments of the *)
(* page are ranked 1..size, best first; a profile takes the first ones, a  *)
(* model may narrow them, their texts are extracted and compacted, and     *)
(* four policies exchange chunks: evidence of the page structure,          *)
(* duplicates, and two for the chunks that an earlier read has returned.   *)
(* Segments are told apart by their rank, as the code tells them by the    *)
(* fingerprint of heading and text: a page that repeats a heading with its *)
(* text, so that two segments have one fingerprint, is not modelled.       *)
(***************************************************************************)
EXTENDS Naturals, Sequences, FiniteSets, SequencesExt

CONSTANTS MaxSegments, TinyLimit, StandardLimit

ASSUME PackingConstants ==
  /\ MaxSegments \in Nat \ {0}
  /\ TinyLimit \in Nat \ {0} /\ StandardLimit \in Nat \ {0}

VARIABLES
  kstep, profile,
  size,      \* number of ranked segments
  stable,    \* those whose fingerprint an earlier read has returned
  picked,    \* the selection: segments, and what was done to their text
  marks,     \* what the decision of a segment says was done to its text
  reused     \* the segments applyPartialSelectionReuse brought in

packVars == <<kstep, profile, size, stable, picked, marks, reused>>

Ranked == 1..size
Ranks(s) == {s[i].rank : i \in DOMAIN s}
\* A segment as it was ranked, its text unchanged.
Plain(r) == [rank |-> r, done |-> {}]
Limit == CASE profile = "tiny" -> TinyLimit
           [] profile = "standard" -> StandardLimit
           [] OTHER -> size
Upto(s, k) == SubSeq(s, 1, IF Len(s) < k THEN Len(s) ELSE k)
Ascending(S) == CHOOSE s \in SetToSeqs(S) : \A i, j \in DOMAIN s : i < j => s[i] < s[j]
\* The elements of s at the places I, in their order.
Among(s, I) == LET order == Ascending(I) IN [k \in DOMAIN order |-> s[order[k]]]

-----------------------------------------------------------------------------

\* selectProfile; noise - context, navigation, assets - is left out of the
\* short profiles unless it is close to the objective or all there is.
SelectProfile ==
  /\ kstep = "select"
  /\ \E noise \in IF profile = "deep" THEN {{}} ELSE SUBSET Ranked :
       LET eligible == Ranked \ noise
           first == Upto(Ascending(IF eligible = {} THEN Ranked ELSE eligible), Limit) IN
       picked' = [i \in DOMAIN first |-> Plain(first[i])]
  /\ kstep' = "tasks"
  /\ UNCHANGED <<profile, size, stable, marks, reused>>

\* executeIntelTasks: among two or more ambiguous chunks a model names those
\* to keep.  An accepted patch keeps nothing else, the chunks that were not
\* ambiguous included; a skipped, failed or rejected task changes nothing.
ResolveAmbiguity ==
  /\ kstep = "tasks"
  /\ \/ UNCHANGED picked
     \/ \E ambiguous \in SUBSET Ranks(picked) :
          /\ Cardinality(ambiguous) >= 2
          /\ \E keep \in (SUBSET ambiguous) \ {{}} :
               picked' = Among(picked, {i \in DOMAIN picked : picked[i].rank \in keep})
  /\ kstep' = "intel"
  /\ UNCHANGED <<profile, size, stable, marks, reused>>

\* applyIntel: extraction for the chunks in lane 2 or above, which Analyze has
\* marked, and the compaction of profile tiny, which is marked if it changes
\* the text.
ApplyIntel ==
  /\ kstep = "intel"
  /\ \E compacted \in IF profile = "tiny" THEN SUBSET Ranks(picked) ELSE {{}} :
       LET did(r) == (marks[r] \cap {"extract"}) \cup
                     IF r \in compacted THEN {"compact"} ELSE {} IN
       /\ picked' = [i \in DOMAIN picked |->
                       [picked[i] EXCEPT !.done = did(picked[i].rank)]]
       /\ marks' = [r \in Ranked |-> IF r \in compacted THEN marks[r] \cup {"compact"}
                                     ELSE marks[r]]
  /\ kstep' = "evidence"
  /\ UNCHANGED <<profile, size, stable, reused>>

\* replaceWeakestForEvidence: the first ranked segment outside the selection
\* that has the evidence takes the place of the last chunk without it.
Outside(s, S) == S \ Ranks(s)
Least(S) == CHOOSE r \in S : \A q \in S : r <= q
Largest(S) == CHOOSE i \in S : \A j \in S : j <= i
Anchored(s, S) ==
  IF Ranks(s) \cap S # {} \/ Outside(s, S) = {} THEN s
  ELSE [s EXCEPT ![Len(s)] = Plain(Least(Outside(s, S)))]

\* applyIRSelectionPolicy: an embedded chunk, a chunk under a heading, and a
\* stronger one for the last that is short and without support.
WithEvidence(s, embedded, headed, weak, strong) ==
  LET a == Anchored(s, embedded)
      last == {i \in DOMAIN a : a[i].rank \notin headed}
      b == IF Ranks(a) \cap headed # {} \/ Outside(a, headed) = {} THEN a
           ELSE [a EXCEPT ![Largest(last)] = Plain(Least(Outside(a, headed)))]
      poor == {i \in DOMAIN b : b[i].rank \in weak} IN
  IF profile = "deep" \/ poor = {} \/ Outside(b, strong) = {} THEN b
  ELSE [b EXCEPT ![Largest(poor)] = Plain(Least(Outside(b, strong)))]

ApplyEvidence ==
  /\ kstep = "evidence"
  /\ \E embedded, headed, weak \in SUBSET Ranked :
       /\ weak \cap (embedded \cup headed) = {}
       /\ picked' = WithEvidence(picked, embedded, headed, weak, Ranked \ weak)
  /\ kstep' = "distinct"
  /\ UNCHANGED <<profile, size, stable, marks, reused>>

\* deduplicateSelected: of chunks alike the first stays, unless it is stable
\* and a later one is not.  alike gives every segment its group.
Distinct(s, alike) ==
  LET group(i) == {j \in DOMAIN s : alike[s[j].rank] = alike[s[i].rank]}
      novel(i) == {j \in group(i) : s[j].rank \notin stable}
      kept(i) == IF s[i].rank \in stable /\ novel(i) # {} THEN Least(novel(i)) ELSE i
      firsts == {i \in DOMAIN s : i = Least(group(i))} IN
  Among([i \in DOMAIN s |-> s[kept(i)]], firsts)

Deduplicate ==
  /\ kstep = "distinct"
  /\ IF profile = "tiny"
     THEN \E alike \in [Ranks(picked) -> Ranks(picked)] : picked' = Distinct(picked, alike)
     ELSE UNCHANGED picked
  /\ kstep' = "gate"
  /\ UNCHANGED <<profile, size, stable, marks, reused>>

Held == stable \cap Ranked

\* applyStableReadGate: one chunk of the earlier read stays in the answer.
Gate(s) ==
  IF Held = {} \/ Ranks(s) \cap stable # {} THEN s
  ELSE [s EXCEPT ![Len(s)] = Plain(Least(Held))]

StableGate ==
  /\ kstep = "gate"
  /\ picked' = Gate(picked)
  /\ kstep' = "reuse"
  /\ UNCHANGED <<profile, size, stable, marks, reused>>

\* Mutant of ReuseBudget: not bounded by the chunks that are eligible.
ReuseBudgetAll(s) == Len(s)

\* applyPartialSelectionReuse: when two thirds of the chunks are stable, half
\* of the answer is taken from the earlier read, in the order of that read,
\* then from the selection, then from the ranking.
ReuseBudget(s) ==
  LET half == IF Len(s) \div 2 = 0 THEN 1 ELSE Len(s) \div 2 IN
  IF half > Cardinality(Held) THEN Cardinality(Held) ELSE half

Mostly(s) == 3 * Cardinality({i \in DOMAIN s : s[i].rank \in stable}) >= 2 * Len(s)

Refilled(s, first) ==
  LET rest == Among(s, {i \in DOMAIN s : s[i].rank \notin ToSet(first)})
      more == Ascending(Ranked \ (ToSet(first) \cup Ranks(s))) IN
  Upto([i \in DOMAIN first |-> Plain(first[i])] \o rest
         \o [i \in DOMAIN more |-> Plain(more[i])], Len(s))

PartialReuse ==
  /\ kstep = "reuse"
  /\ \/ /\ Held # {} /\ Mostly(picked)
        /\ \E earlier \in SetToSeqs(Held) :
             LET first == Upto(earlier, ReuseBudget(picked)) IN
             /\ picked' = Refilled(picked, first)
             /\ reused' = ToSet(first)
     \/ (Held = {} \/ ~Mostly(picked)) /\ UNCHANGED <<picked, reused>>
  /\ kstep' = "sort"
  /\ UNCHANGED <<profile, size, stable, marks>>

\* sortRankedSegments, then one proof record per chunk, made of the chunk and
\* of the decision of its segment.
Sort ==
  /\ kstep = "sort"
  /\ \E order \in SetToSeqs(DOMAIN picked) :
       /\ \A i, j \in DOMAIN picked : i < j => picked[order[i]].rank <= picked[order[j]].rank
       /\ picked' = [i \in DOMAIN picked |-> picked[order[i]]]
  /\ kstep' = "proofs"
  /\ UNCHANGED <<profile, size, stable, marks, reused>>

PackInit ==
  /\ kstep = "select" /\ profile \in {"tiny", "standard", "deep"}
  /\ size \in 1..MaxSegments /\ stable \in SUBSET Ranked
  /\ picked = <<>> /\ reused = {}
  /\ marks \in [Ranked -> {{}, {"extract"}}]

PackNext ==
  \/ SelectProfile \/ ResolveAmbiguity \/ ApplyIntel \/ ApplyEvidence
  \/ Deduplicate \/ StableGate \/ PartialReuse \/ Sort

PackSpec == PackInit /\ [][PackNext]_packVars

-----------------------------------------------------------------------------
(* Properties. *)

\* Each step hands the next one chunks of the ranking.
PackTypeOK ==
  /\ kstep \in {"select", "tasks", "intel", "evidence", "distinct", "gate", "reuse", "sort", "proofs"}
  /\ profile \in {"tiny", "standard", "deep"} /\ size \in 1..MaxSegments /\ stable \in SUBSET Ranked
  /\ picked \in Seq([rank : Ranked, done : SUBSET {"extract", "compact"}])
  /\ marks \in [Ranked -> SUBSET {"extract", "compact"}]

\* Whatever the policies exchange, on a page whose segments differ in heading
\* or text (rankSegments, pack.go:160): the answer has chunks, no more than the
\* profile allows, none twice, best first; a page that still has a segment of
\* the earlier read answers with one; and no more than half of the answer, or
\* one chunk, is there because it was reused.
PackInv ==
  /\ kstep # "select" => picked # <<>> /\ Len(picked) <= Limit
  /\ \A i, j \in DOMAIN picked : i # j => picked[i].rank # picked[j].rank
  /\ kstep = "proofs" =>
       /\ \A i, j \in DOMAIN picked : i < j => picked[i].rank < picked[j].rank
       /\ Held # {} => Ranks(picked) \cap stable # {}
       /\ reused \subseteq Ranks(picked) \cap stable
       /\ Cardinality(reused) <= 1 \/ 2 * Cardinality(reused) <= Len(picked)

\* The gate leaves a chunk of the earlier read, which the steps after it keep
\* as they keep what was reused.
GateInv ==
  /\ kstep \in {"reuse", "sort", "proofs"} => (Held # {} => Ranks(picked) \cap stable # {})
  /\ IF kstep \in {"sort", "proofs"}
     THEN /\ reused \subseteq Ranks(picked) \cap stable
          /\ Cardinality(reused) <= 1 \/ 2 * Cardinality(reused) <= Len(picked)
     ELSE reused = {}

\* The answer is as promised, and each policy hands the next one what it needs
\* for that, whatever it exchanged (Service.pack).
PackInd == PackTypeOK /\ PackInv /\ GateInv

\* The proof of a chunk lists the transformations applied to its text.
ProofsListRules ==
  kstep = "proofs" => \A i \in DOMAIN picked : marks[picked[i].rank] = picked[i].done
=============================================================================

---------------------------- MODULE SampleSplits ----------------------------
(***************************************************************************)
(* group_split (register_dataset.py): specimens go whole into train,       *)
(* validation or test, so that every label is in each of them.  A specimen *)
(* may carry several labels; the search goes back on its choices.          *)
(*                                                                         *)
(* recorded gives for each specimen how many windows of each label it has; *)
(* shares are tenths.  The shuffle among specimens of one size is an order *)
(* given with their names.                                                 *)
(***************************************************************************)
EXTENDS Integers, Sequences, FiniteSets, TLC, SequencesExt, FiniteSetsExt
CONSTANTS Specimens, SampleLabels, MaxWindows, Shares

ASSUME SplitsAssumption ==
  /\ Specimens \subseteq Nat /\ MaxWindows \in Nat
  /\ \A s \in Shares : s.train + s.validation + s.test = 10

VARIABLES
  recorded,  \* [Specimens -> [SampleLabels -> windows]]
  share,     \* split_ratios
  split      \* <<>>, then the set of the split found, empty when it is refused
splitVars == <<recorded, share, split>>

Named == <<"train", "validation", "test">>
Required(q) == {n \in Range(Named) : q[n] > 0}
Cases == {w \in [Specimens -> [SampleLabels -> 0..MaxWindows]] :
            \A g \in Specimens : \E l \in SampleLabels : w[g][l] > 0}

CarriedBy(w, g) == {l \in SampleLabels : w[g][l] > 0}
Carriers(w, label) == {g \in Specimens : w[g][label] > 0}
Labelled(w) == {l \in SampleLabels : Carriers(w, l) # {}}
Size(w, g) == FoldSet(LAMBDA l, n : n + w[g][l], 0, SampleLabels)

\* What has to be covered, the smallest share first.
Pairs(w, q) ==
  LET labels == SetToSeq(Labelled(w))
      names == SortSeq(SelectSeq(Named, LAMBDA n : q[n] > 0),
                       LAMBDA m, n : q[m] < q[n])
  IN  FoldLeft(LAMBDA pairs, n : pairs \o [i \in DOMAIN labels |-> <<labels[i], n>>], <<>>, names)

\* Specimens of one label first, then small ones.
Order(w, label) ==
  LET Mixed(g) == IF Cardinality(CarriedBy(w, g)) > 1 THEN 1 ELSE 0
      Key(g) == (Mixed(g) * 100 + Size(w, g)) * 100 + g
  IN  SetToSortSeq(Carriers(w, label), LAMBDA g, h : Key(g) < Key(h))

Covered(chosen, w, pair) == \E g \in Carriers(w, pair[1]) \cap DOMAIN chosen : chosen[g] = pair[2]
With(chosen, g, part) == [h \in DOMAIN chosen \cup {g} |-> IF h = g THEN part ELSE chosen[h]]

\* mutant: the first specimen that can take a pair takes it for good.
RECURSIVE Search_Mut(_, _, _), Search(_, _, _)
Search_Mut(w, pairs, chosen) ==
  IF pairs = <<>> THEN {chosen}
  ELSE IF Covered(chosen, w, Head(pairs)) THEN Search_Mut(w, Tail(pairs), chosen)
  ELSE LET free == SelectSeq(Order(w, Head(pairs)[1]), LAMBDA g : g \notin DOMAIN chosen) IN
       IF free = <<>> THEN {}
       ELSE Search_Mut(w, Tail(pairs), With(chosen, Head(free), Head(pairs)[2]))
\* _backtrack: the first choice that lets the rest succeed, or none.
Search(w, pairs, chosen) ==
  IF pairs = <<>> THEN {chosen}
  ELSE IF Covered(chosen, w, Head(pairs)) THEN Search(w, Tail(pairs), chosen)
  ELSE FoldLeft(LAMBDA found, g :
                  IF found # {} \/ g \in DOMAIN chosen THEN found
                  ELSE Search(w, Tail(pairs), With(chosen, g, Head(pairs)[2])),
                {}, Order(w, Head(pairs)[1]))

\* The rest, large ones first, where the labels they carry are most missed.
Missed(w, chosen, q, part, g) ==
  LET Total(l) == FoldSet(LAMBDA h, n : n + w[h][l], 0, Specimens)
      Given(l) == FoldSet(LAMBDA h, n : n + w[h][l], 0, {h \in DOMAIN chosen : chosen[h] = part})
  IN  FoldSet(LAMBDA l, n : n + q[part] * Total(l) - 10 * Given(l), 0, CarriedBy(w, g))
Best(w, chosen, q, g) ==
  CHOOSE s \in Required(q) : \A t \in Required(q) :
    Missed(w, chosen, q, s, g) >= Missed(w, chosen, q, t, g)
Rest(w, chosen) ==
  SetToSortSeq(Specimens \ DOMAIN chosen, LAMBDA g, h : Size(w, g) > Size(w, h) \/
                                                  (Size(w, g) = Size(w, h) /\ g < h))

\* {} when the split is refused.
GroupSplit(w, q) ==
  IF \E l \in Labelled(w) : Cardinality(Carriers(w, l)) < Cardinality(Required(q)) THEN {}
  ELSE {FoldLeft(LAMBDA chosen, g : With(chosen, g, Best(w, chosen, q, g)),
                 found, Rest(w, found)) : found \in Search(w, Pairs(w, q), <<>>)}

SplitInit == recorded \in Cases /\ share \in Shares /\ split = <<>>
Divide ==
  /\ split = <<>> /\ split' = <<GroupSplit(recorded, share)>>
  /\ UNCHANGED <<recorded, share>>

-----------------------------------------------------------------------------
\* Whenever specimens can be kept whole with every label in every split, the search
\* finds such a split, however the labels share specimens; what it returns keeps
\* every specimen whole and leaves no label out of a split.
SplitIsFound ==
  LET Covers(f) == \A l \in Labelled(recorded), n \in Required(share) :
                     \E g \in Carriers(recorded, l) : f[g] = n
      whole == [Specimens -> Required(share)]
  IN  split # <<>> =>
        /\ (split[1] # {}) = (\E f \in whole : Covers(f))
        /\ \A f \in split[1] : f \in whole /\ Covers(f)
=============================================================================

---------------------------- MODULE MCGovernance ----------------------------
(* Each budget lets some of the kinds of operation happen: rules with      *)
(* assets and events, places with events, notes, visits, freezing, and the *)
(* hand-over on a frozen version.                                          *)
EXTENDS ModelHandoff
Kinds == {"rule", "asset", "point", "event", "review", "note", "visit", "forget", "taxonomy",
          "dataset", "baseline", "model", "open", "decide"}
Spent == [k \in Kinds |-> 0]
SomeBudgets ==
  {Spent, [Spent EXCEPT !["rule"] = 2, !["asset"] = 2, !["event"] = 1],
   [Spent EXCEPT !["point"] = 3, !["event"] = 2],
   [Spent EXCEPT !["event"] = 1, !["note"] = 4],
   [Spent EXCEPT !["visit"] = 3],
   [Spent EXCEPT !["point"] = 2, !["event"] = 2, !["review"] = 1,
                 !["dataset"] = 2, !["forget"] = 1],
   [Spent EXCEPT !["point"] = 4, !["dataset"] = 1],
   [Spent EXCEPT !["point"] = 2, !["taxonomy"] = 1, !["dataset"] = 1],
   [Spent EXCEPT !["point"] = 2, !["dataset"] = 1, !["baseline"] = 1,
                 !["model"] = 2, !["open"] = 2, !["decide"] = 2]}
Alone == [assets |-> {"a"}, from |-> 1, to |-> 2, taxonomy |-> 1, mapping |-> [bad |-> "hum"],
          split |-> <<10, 0, 0>>]
SmallDefinitions == {Alone, [Alone EXCEPT !.assets = {"a", "b"}, !.split = <<7, 3, 0>>]}
SomeResults ==
  {[producer |-> "p", job |-> 1, version |-> v[1], content |-> v[2],
    dataset |-> 1, baseline |-> 1] :
     v \in {<<1, "x">>, <<1, "y">>, <<2, "x">>}}
Tenths == {<<a, b, 10 - a - b>> : a \in 0..10, b \in 0..10} \cap [1..3 -> 0..10]
=============================================================================

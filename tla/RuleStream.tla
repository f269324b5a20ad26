----------------------------- MODULE RuleStream -----------------------------
(***************************************************************************)
(* Rules on streams of features (anomaly_rule.py): an event begins with a  *)
(* run of windows above one bound and ends with a run below a lower one,   *)
(* by the baseline and the bounds registered for the machine.              *)
(*                                                                         *)
(* A window has two features: one that varies, given by its distance from  *)
(* the mean in deviations, and one that does not, which is off or not.     *)
(* Undefined is a window that cannot be judged, an event without an end    *)
(* and a distance in deviations of what has none.                          *)
(***************************************************************************)
EXTENDS Integers, Sequences, FiniteSets, SequencesExt, FiniteSetsExt
CONSTANTS
  Features,    \* [sigma, off]: windows that can be judged
  Entries,     \* [baseline, config]: what is registered; a config may be Undefined
  KeySets,     \* what is registered at once: assets, types, "default"
  Machines,    \* <<asset, type>>; the type may be Undefined
  Longest,     \* the longest stream judged after so many registrations
  Undefined

ASSUME StreamAssumption ==
  /\ Undefined \notin Features \cup Nat /\ \A w \in Features : w.sigma \in Nat
  /\ Longest \in Seq(Nat)
  /\ \A e \in Entries : e.baseline.stored % 3 = 0
  /\ \A e \in Entries : e.config # Undefined =>
       /\ e.config.exit < e.config.enter /\ 0 < e.config.exit
       /\ {e.config.enterRun, e.config.exitRun} \subseteq Nat \ {0}

VARIABLES
  catalogue,      \* [asset, type or "default" -> what was registered]
  registrations,  \* how often
  verdict         \* <<>>, then what evaluate_asset_stream was given and returned
streamVars == <<catalogue, registrations, verdict>>

StreamInit == catalogue = [k \in {} |-> Undefined] /\ registrations = 0 /\ verdict = <<>>

-----------------------------------------------------------------------------
(* The registry.                                                           *)

Plain == [enter |-> 3, exit |-> 2, enterRun |-> 2, exitRun |-> 2]

\* A baseline with a context keeps the bound its range was made with.
Overrides(b, config) == b.contextual /\ config # Undefined /\ config.enter # b.stored
ResolveConfig(b, config) ==
  CASE config # Undefined -> config
    [] config = Undefined /\ b.contextual ->
         [Plain EXCEPT !.enter = b.stored, !.exit = (2 * b.stored) \div 3]
    [] OTHER -> Plain

RegisterEntry(keys, e) ==
  /\ registrations + 1 \in DOMAIN Longest
  /\ e.baseline.sound /\ ~Overrides(e.baseline, e.config)
  /\ catalogue' = [k \in DOMAIN catalogue \cup keys |->
       IF k \in keys
         THEN [baseline |-> e.baseline, config |-> ResolveConfig(e.baseline, e.config)]
       ELSE catalogue[k]]
  /\ registrations' = registrations + 1
  /\ UNCHANGED verdict

\* The key under which a machine is found, or none.
KeyOf(m) ==
  LET tried == <<m[1], m[2], "default">>
      found == {k \in DOMAIN tried : tried[k] \in DOMAIN catalogue}
  IN  {tried[k] : k \in {k \in found : \A j \in found : k <= j}}

-----------------------------------------------------------------------------
(* One window.                                                             *)

\* A recorded range is closed, and what does not vary counts only where one is recorded.
Over(b, c, w) ==
  IF b.contextual THEN w.sigma > b.stored \/ (b.flat /\ w.off) ELSE w.sigma >= c.enter
Quiet(b, c, w) == w.sigma < c.exit /\ (b.contextual => ~Over(b, c, w))
Deviation(b, w) == IF b.contextual /\ b.flat THEN Undefined ELSE w.sigma
Peak(p, q) == IF Undefined \in {p, q} THEN Undefined ELSE Max({p, q})

AtRest == [on |-> FALSE, over |-> 0, under |-> 0, pending |-> 0,
           event |-> <<>>, events |-> <<>>]

\* mutant: the run goes on behind a window that cannot be judged.
Unjudged_Mut(s) == s
\* A window that cannot be judged ends a run, never an event.
Unjudged(s) == IF s.on THEN [s EXCEPT !.under = 0] ELSE [s EXCEPT !.over = 0, !.pending = 0]

Entering(b, c, s, i, w) ==
  LET over == IF Over(b, c, w) THEN s.over + 1 ELSE 0
      pending == IF Over(b, c, w) THEN Peak(s.pending, Deviation(b, w)) ELSE 0
  IN  IF over < c.enterRun THEN [s EXCEPT !.over = over, !.pending = pending]
      ELSE [s EXCEPT !.on = TRUE, !.over = over, !.under = 0, !.pending = 0,
                     !.event = [start |-> i - c.enterRun + 1, end |-> Undefined, peak |-> pending]]

Leaving(b, c, s, i, w) ==
  LET under == IF Quiet(b, c, w) THEN s.under + 1 ELSE 0
      event == [s.event EXCEPT !.peak = Peak(@, Deviation(b, w))]
  IN  IF under < c.exitRun THEN [s EXCEPT !.under = under, !.event = event]
      ELSE [s EXCEPT !.on = FALSE, !.over = 0, !.under = 0,
                     !.events = Append(@, [event EXCEPT !.end = i - c.exitRun + 1])]

Judged(b, c, s, i, w) ==
  CASE w = Undefined -> Unjudged(s)
    [] w # Undefined /\ s.on -> Leaving(b, c, s, i, w)
    [] OTHER -> Entering(b, c, s, i, w)

\* evaluate_feature_stream
EventsOf(b, c, ws) ==
  LET after[i \in 0..Len(ws)] == IF i = 0 THEN AtRest ELSE Judged(b, c, after[i - 1], i, ws[i])
      last == after[Len(ws)]
  IN  IF last.on THEN Append(last.events, last.event) ELSE last.events

\* evaluate_asset_stream: nothing happens to an unknown machine.
Evaluate(m, ws) ==
  /\ \E key \in KeyOf(m) :
       LET e == catalogue[key] IN
       /\ \A i \in DOMAIN ws : ws[i] # Undefined /\ ~e.baseline.flat => ~ws[i].off
       /\ verdict' = [windows |-> ws, baseline |-> e.baseline, config |-> e.config,
                      events |-> EventsOf(e.baseline, e.config, ws)]
  /\ UNCHANGED <<catalogue, registrations>>

StreamNext ==
  /\ verdict = <<>>
  /\ \/ \E keys \in KeySets, e \in Entries : RegisterEntry(keys, e)
     \/ /\ registrations > 0
        /\ \E m \in Machines, n \in 1..Longest[registrations] :
             \E ws \in [1..n -> Features \cup {Undefined}] : Evaluate(m, ws)

StreamSpec == StreamInit /\ [][StreamNext]_streamVars

-----------------------------------------------------------------------------
(* Properties.                                                             *)

\* What was returned has the events it should have.
AreRuns(v) ==
  LET b == v.baseline
      c == v.config
      ws == v.windows
      es == v.events
      n == Len(ws)
      over == {k \in 1..n : ws[k] # Undefined /\ Over(b, c, ws[k])}
      quiet == {k \in 1..n : ws[k] # Undefined /\ Quiet(b, c, ws[k])}
      High(i) == i..(i + c.enterRun - 1) \subseteq over
      Low(i) == i..(i + c.exitRun - 1) \subseteq quiet
      Open(e) == e.end = Undefined
      After(k) == IF k = 1 THEN 1 ELSE es[k - 1].end + c.exitRun
      Reach(e) == IF Open(e) THEN n ELSE e.end + c.exitRun - 1
      Judgements(e) == {ws[i].sigma : i \in {i \in e.start..Reach(e) : ws[i] # Undefined}}
  IN  /\ \A k \in DOMAIN es :
           LET e == es[k] IN
           /\ Open(e) => k = Len(es)
           /\ e.start >= After(k) /\ High(e.start)
           /\ \A i \in After(k)..(e.start - 1) : ~High(i)
           /\ \A i \in (e.start + c.enterRun)..(IF Open(e) THEN n ELSE e.end - 1) : ~Low(i)
           /\ ~Open(e) => e.end >= e.start + c.enterRun /\ Low(e.end)
           /\ e.peak = (IF b.contextual /\ b.flat THEN Undefined ELSE Max(Judgements(e)))
      /\ (es = <<>> \/ ~Open(Last(es))) => \A i \in After(Len(es) + 1)..n : ~High(i)

\* The events of a stream are its runs, as anomaly_rule_format.md describes them: each
\* begins with the first unbroken run of judged windows above the upper bound since the
\* one before was over, ends with the first unbroken run below the lower bound after
\* that, never at a window that could not be judged, and has the peak of what was judged
\* in between; only the last may be open, and nothing that should be an event is left out.
EventsAreRuns == verdict # <<>> => AreRuns(verdict)
=============================================================================

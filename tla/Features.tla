------------------------------ MODULE Features ------------------------------
(***************************************************************************)
(* The feature engine (server/internal/features): from the stored daily    *)
(* bars of a universe it computes, per instrument and session, the values  *)
(* of the active definitions, and per session the composite of the         *)
(* universe.  A full run covers everything; an incremental run covers only *)
(* the sessions that the bars of one import run take part in; a definition *)
(* run covers one definition.                                              *)
(*                                                                         *)
(* A value is kept as what it was computed from: the versions of the bars  *)
(* in its window, each with the mark of the split it was adjusted for, and *)
(* the composites it read.  Two computations agree exactly when these do.  *)
(* Two definitions stand for the published ones: "own", a window of the    *)
(* instrument's adjusted bars, and "rel", which also reads the composite.  *)
(***************************************************************************)
EXTENDS Integers, FiniteSets, FiniteSetsExt

CONSTANTS Instruments,      \* the members of the universe
          Sessions,         \* the dates of the model, 1..n
          Calendar,         \* per instrument: the dates its exchange trades
          Backfilled,       \* per instrument: the sessions stored at the start
          OwnWindow,        \* window of "own", in sessions
          UserWindow,       \* window of "rel", in sessions
          MinContributors,  \* below it the composite is undefined
          Passes,           \* the callers of Compute: the night, a command
          MaxImports,       \* bound: import runs
          MaxTouched,       \* bound: bars the import runs store or revise
          Changing,         \* bound, per instrument: the sessions of those bars
          Splitting,        \* bound: instruments that split
          Commands,         \* bound: what is run by command: "full", "signals",
                            \* and the definitions recomputed by name
          MaxCommands,      \* bound: runs by command
          MaxFaults         \* bound: failures and crashes

ASSUME CalendarAssumption ==
    /\ Calendar \in [Instruments -> SUBSET Sessions]
    /\ \A i \in Instruments : Backfilled[i] \subseteq Calendar[i]

\* Dates are numbered; a relative strength reads the session before.
ASSUME SessionAssumption == IsFiniteSet(Sessions) /\ Sessions = 1..Cardinality(Sessions)
ASSUME WindowAssumption == OwnWindow \in Nat \ {0} /\ UserWindow \in Nat \ {0, 1}
ASSUME NameAssumption == "composite" \notin Instruments

Defs == {"own", "rel"}
CompositeUsers == {"rel"}
WindowOf(d) == IF d = "own" THEN OwnWindow ELSE UserWindow
WMax == Max({OwnWindow, UserWindow})

-----------------------------------------------------------------------------
(* The calendar and the windows.  A history is a function from instruments *)
(* to the version stored at each session, 0 where there is no bar.         *)

Position == [i \in Instruments |-> [s \in Sessions |-> Cardinality({t \in Calendar[i] : t <= s})]]

BarsOf(h, i) == {s \in Calendar[i] : h[i][s] > 0}

\* A faulty adjustment: every split known today.
AdjustedEver(h, split, i, t, s) == <<t, h[i][t], split[i] # 0 /\ t < split[i]>>

\* The bar at t as it is seen at session s: bars before an ex-date that has
\* come by s are adjusted, later splits are not known yet.
Adjusted(h, split, i, t, s) ==
    <<t, h[i][t], split[i] # 0 /\ t < split[i] /\ split[i] <= s>>

\* The sessions of the window of n that ends at s, and why there is none.
WindowSessions == [i \in Instruments |-> [s \in Sessions |-> [n \in {2, OwnWindow, UserWindow} |->
    {t \in Calendar[i] : t <= s /\ Position[i][s] - Position[i][t] < n}]]]

WindowReason(h, i, s, n) ==
    LET window == WindowSessions[i][s][n]
    IN  IF Cardinality(window) < n \/ Min(window) < Min(BarsOf(h, i))
        THEN "insufficient_history"
        ELSE IF window \subseteq BarsOf(h, i) THEN "" ELSE "window_gap"

Window(h, split, i, s, n) ==
    {Adjusted(h, split, i, t, s) : t \in WindowSessions[i][s][n]}

\* The composite at one session: the returns of the members with a bar at
\* the session and at their exchange's previous one.
NoComposite == [absent |-> "none", of |-> {}]

Contributors(h, s) ==
    {i \in Instruments : s \in BarsOf(h, i) /\ WindowReason(h, i, s, 2) = ""}

CompositeAt(h, split, s) ==
    IF ~ \E i \in Instruments : s \in BarsOf(h, i) /\ Position[i][s] > 1
    THEN NoComposite
    ELSE IF Cardinality(Contributors(h, s)) < MinContributors
    THEN [absent |-> "insufficient_contributors", of |-> {}]
    ELSE [absent |-> "",
          of |-> {<<i, Window(h, split, i, s, 2)>> : i \in Contributors(h, s)}]

CompositeSeries(h, split) == [s \in Sessions |-> CompositeAt(h, split, s)]

\* A relative strength needs every composite its window reads.
Measured(comps, read) == \A t \in read : comps[t].absent = ""

\* The sessions whose composites a row of d reads.
ReadSessions(i, s, d) ==
    LET window == WindowSessions[i][s][WindowOf(d)] IN window \ {Min(window)}

\* One row: the value or the absence of definition d at a session with a bar.
NoRow == [absent |-> "none", bars |-> {}, comps |-> {}]

RowAt(h, split, comps, i, s, d) ==
    LET n == WindowOf(d)
        reason == WindowReason(h, i, s, n)
        read == ReadSessions(i, s, d)
    IN  CASE s \notin BarsOf(h, i) -> NoRow
          [] s \in BarsOf(h, i) /\ reason # "" ->
                [absent |-> reason, bars |-> {}, comps |-> {}]
          [] s \in BarsOf(h, i) /\ reason = "" /\ d \notin CompositeUsers ->
                [absent |-> "", bars |-> Window(h, split, i, s, n), comps |-> {}]
          [] OTHER ->
                IF Measured(comps, read)
                THEN [absent |-> "", bars |-> Window(h, split, i, s, n),
                      comps |-> {<<t, comps[t].of>> : t \in read}]
                ELSE [absent |-> "composite_undefined", bars |-> {}, comps |-> {}]

\* What a computation over the whole history gives.
FullValues(h, split) ==
    LET comps == CompositeSeries(h, split)
    IN  [i \in Instruments |-> [s \in Sessions |-> [d \in Defs |->
            RowAt(h, split, comps, i, s, d)]]]

-----------------------------------------------------------------------------
(* Which sessions a run writes.                                            *)

\* A faulty reach, one session short.
AffectedToShort(i, at, n) ==
    IF at \notin Calendar[i] THEN at
    ELSE Max({t \in Calendar[i] : t = at \/ (t >= at /\ Position[i][t] - Position[i][at] < n - 1)})

\* The last session whose window of n a bar at the given session takes part
\* in; a session the calendar does not know affects only itself.
AffectedTo(i, at, n) ==
    IF at \notin Calendar[i] THEN at
    ELSE Max({t \in Calendar[i] : t >= at /\ Position[i][t] - Position[i][at] < n})

NoScope == [from |-> 1, to |-> 0, defs |-> {}]

FullScope(h, i, defs) ==
    IF BarsOf(h, i) = {} THEN NoScope
    ELSE [from |-> Min(BarsOf(h, i)), to |-> Max(BarsOf(h, i)), defs |-> defs]

\* incrementalScopes: a touched instrument recomputes every definition over
\* the reach of the longest window, every other member only the definitions
\* that read the composite, over the reach of theirs.
IncrementalScope(h, touched, i) ==
    LET all == UNION {touched[j] : j \in Instruments}
        lastBar == Max(BarsOf(h, i))
    IN  CASE BarsOf(h, i) = {} -> NoScope
          [] BarsOf(h, i) # {} /\ touched[i] # {} ->
                [from |-> Min(touched[i]),
                 to |-> Min({AffectedTo(i, Max(touched[i]), WMax), lastBar}),
                 defs |-> Defs]
          [] OTHER ->
                [from |-> Max({Min(all), Min(BarsOf(h, i))}),
                 to |-> Min({AffectedTo(i, Max(all), UserWindow), lastBar}),
                 defs |-> CompositeUsers]

\* The composite is rewritten over the touched sessions and their reach.
CompositeRange(h, touched) ==
    LET all == UNION {touched[j] : j \in Instruments}
        reaches == {AffectedTo(i, Max(touched[i]), WMax) :
                        i \in {j \in Instruments : touched[j] # {} /\ BarsOf(h, j) # {}}}
    IN  Min(all) .. Max(reaches \cup {Max(all)})

-----------------------------------------------------------------------------
(* What rests on a bar, whatever the run writes: the rows whose window holds *)
(* it, the composites that read it, the rows that read such a composite.     *)

NearComposite(u, j, t) == u \in Calendar[j] /\ t \in WindowSessions[j][u][2]

Near(i, s, d, j, t) ==
    /\ s \in Calendar[i]
    /\ \/ j = i /\ t \in WindowSessions[i][s][WindowOf(d)]
       \/ d \in CompositeUsers /\ \E u \in ReadSessions(i, s, d) : NearComposite(u, j, t)

Moves(touched, i, s, d) == \E j \in Instruments : \E t \in touched[j] : Near(i, s, d, j, t)

MovesComposite(touched, u) == \E j \in Instruments : \E t \in touched[j] : NearComposite(u, j, t)

AllRows == Instruments \X Sessions \X Defs

Everything == [rows |-> AllRows, series |-> Sessions]

\* A session is past a window of n over a date: closed on that date, or later.
Past(i, at, s, n) == s > at /\ at \notin WindowSessions[i][s][n]

\* The sessions incremental runs do not come to.  A touched member is written
\* from its own first touched session, as far as its own last one reaches; any
\* other as far as the last touched date reaches, if its exchange was open then.
OutOfReach(touched, i, s) ==
    IF touched[i] # {}
    THEN s < Min(touched[i]) \/ Past(i, Max(touched[i]), s, WMax)
    ELSE Past(i, Max(UNION {touched[j] : j \in Instruments}), s, UserWindow)

\* The rows that a touched bar moves and its incremental run overlooks: those
\* that read a composite other members' bars moved, out of its reach.
Overlooked(touched) ==
    {x \in AllRows : Moves(touched, x[1], x[2], x[3]) /\ OutOfReach(touched, x[1], x[2])}

-----------------------------------------------------------------------------
VARIABLES bars,      \* daily_price_bars: the version stored per session
          stamp,     \* the import run that stored that version
          revised,   \* price_bar_revisions: <<instrument, session, run>>
          split,     \* corporate_actions: ex-date of the split, 0 for none
          imports,   \* import runs so far
          due,       \* import runs whose feature pass has not begun
          values,    \* feature_values
          composites,\* universe_composites
          pass,      \* the run each caller is in
          missed,    \* history: the rows, and the sessions of the composite, that
                     \* some run should have written and did not
          spent      \* bounds: commands run, faults taken, bars touched

featureVars == <<bars, stamp, revised, split, imports, due, values, composites,
                 pass, missed, spent>>

Idle == [phase |-> "idle", kind |-> "full", since |-> 0, def |-> "own",
         hist |-> [i \in Instruments |-> [s \in Sessions |-> 0]],
         split |-> [i \in Instruments |-> 0],
         touched |-> [i \in Instruments |-> {}],
         series |-> [s \in Sessions |-> NoComposite],
         todo |-> {}, done |-> {}, failed |-> {}, from |-> 1, to |-> 0,
         clean |-> TRUE]

FeatureInit ==
    /\ bars = [i \in Instruments |->
                  [s \in Sessions |-> IF s \in Backfilled[i] THEN 1 ELSE 0]]
    /\ stamp = [i \in Instruments |-> [s \in Sessions |-> 0]]
    /\ revised = {}
    /\ split = [i \in Instruments |-> 0]
    /\ imports = 0
    /\ due = {}
    /\ values = FullValues(bars, split)
    /\ composites = CompositeSeries(bars, split)
    /\ pass = [p \in Passes |-> Idle]
    /\ missed = [rows |-> {}, series |-> {}]
    /\ spent = [commands |-> 0, faults |-> 0, touched |-> 0]

-----------------------------------------------------------------------------
(* The import (modelled in full by MarketImport): one run stores new bars,  *)
(* revises stored ones, may bring a split announced before its ex-date has  *)
(* a bar, and its feature pass is due.                                      *)

\* An instrument's history grows by at most one missing session at a time.
Storable(i) ==
    LET last == IF BarsOf(bars, i) = {} THEN 0 ELSE Max(BarsOf(bars, i))
    IN  {s \in Calendar[i] \cap Changing[i] :
            /\ (BarsOf(bars, i) # {} => s >= Min(BarsOf(bars, i)))
            /\ (s > last => Cardinality({t \in Calendar[i] : last < t /\ t < s}) <= 1)}

TouchedBars(touched) == UNION {{i} \X touched[i] : i \in Instruments}

\* What one import run stores: a few sessions of a few instruments.
Touchable ==
    LET Among(storable) ==
            {touched \in [Instruments -> {t \in SUBSET Sessions : Cardinality(t) <= MaxTouched - spent.touched}] :
                /\ \A i \in Instruments : touched[i] \subseteq storable[i]
                /\ Cardinality(TouchedBars(touched)) <= MaxTouched - spent.touched}
    IN  Among([i \in Instruments |-> Storable(i)])

StoredBar(b, i, s) == b[i][s] + 1

Import ==
    /\ imports < MaxImports
    /\ \E touched \in Touchable :
         /\ bars' = [i \in Instruments |-> [s \in Sessions |->
                        IF s \in touched[i] THEN StoredBar(bars, i, s) ELSE bars[i][s]]]
         /\ stamp' = [i \in Instruments |-> [s \in Sessions |->
                        IF s \in touched[i] THEN imports + 1 ELSE stamp[i][s]]]
         /\ revised' = revised \cup {x \in Instruments \X Sessions \X {imports + 1} :
                        x[2] \in touched[x[1]] /\ bars[x[1]][x[2]] > 0}
         /\ spent' = [spent EXCEPT !.touched = @ + Cardinality(TouchedBars(touched))]
    /\ \/ UNCHANGED split
       \/ \E i \in Splitting : split[i] = 0 /\ \E s \in Calendar[i] :
             s > Max(BarsOf(bars, i) \cup {0}) /\ split' = [split EXCEPT ![i] = s]
    /\ imports' = imports + 1
    /\ due' = due \cup {imports + 1}
    /\ UNCHANGED <<values, composites, pass, missed>>

-----------------------------------------------------------------------------
(* Compute.                                                                *)

SessionsTouchedByRun(r) ==
    [i \in Instruments |-> {s \in Sessions : stamp[i][s] = r}
                              \cup {s \in Sessions : <<i, s, r>> \in revised}]

Overlapping(p) == \E q \in Passes \ {p} : pass[q].phase # "idle"

\* A run that begins while another is in flight may commit what it read
\* before the other's bars: nothing is claimed of either.
Begin(p, run) ==
    /\ pass[p].phase = "idle"
    /\ pass' = [q \in Passes |->
                  IF q = p THEN [run EXCEPT !.clean = ~Overlapping(p)]
                  ELSE [pass[q] EXCEPT !.clean = FALSE]]
    /\ missed' = IF Overlapping(p) THEN Everything
                 ELSE [missed EXCEPT !.rows = @ \cup Overlooked(run.touched)]

\* ComputeSinceRun, after an import: a run that touched nothing is finished.
ComputeSince(p, r) ==
    /\ r \in due
    /\ due' = due \ {r}
    /\ LET touched == SessionsTouchedByRun(r)
           nothing == \A i \in Instruments : touched[i] = {}
       IN  Begin(p, [Idle EXCEPT !.phase = IF nothing THEN "finished" ELSE "loading",
                                 !.kind = "incremental", !.since = r, !.touched = touched,
                                 !.todo = IF nothing THEN {} ELSE Instruments])
    /\ UNCHANGED <<bars, stamp, revised, split, imports, values, composites, spent>>

ComputeAll(p) ==
    /\ spent.commands < MaxCommands
    /\ spent' = [spent EXCEPT !.commands = @ + 1]
    /\ \/ /\ "full" \in Commands
          /\ Begin(p, [Idle EXCEPT !.phase = "loading", !.todo = Instruments])
       \/ \E d \in Commands \cap (Defs \cup {"composite"}) :
             Begin(p, [Idle EXCEPT !.phase = "loading", !.kind = "definition", !.def = d,
                                   !.todo = Instruments])
    /\ UNCHANGED <<bars, stamp, revised, split, imports, due, values, composites>>

\* One instrument's bars and splits are read, without any lock.
Load(p, i) ==
    /\ pass[p].phase = "loading" /\ i \in pass[p].todo
    /\ pass' = [pass EXCEPT ![p] = [pass[p] EXCEPT !.hist[i] = bars[i],
                           !.split[i] = split[i], !.todo = pass[p].todo \ {i}]]
    /\ UNCHANGED <<bars, stamp, revised, split, imports, due, values, composites, missed, spent>>

ScopeOf(run, i) ==
    CASE run.kind = "full" -> FullScope(run.hist, i, Defs)
      [] run.kind = "definition" -> FullScope(run.hist, i,
             IF run.def = "composite" THEN CompositeUsers ELSE {run.def})
      [] OTHER -> IncrementalScope(run.hist, run.touched, i)

\* Instruments with a goroutine of their own: a full run skips the ones
\* without history, an incremental run has no scope for an empty range.
Scoped(run) ==
    {i \in Instruments : run.kind # "incremental" \/ ScopeOf(run, i).from <= ScopeOf(run, i).to}

WritesComposite(run) ==
    CASE run.kind = "full" -> Sessions
      [] run.kind = "definition" -> IF run.def = "composite" THEN Sessions ELSE {}
      [] OTHER -> CompositeRange(run.hist, run.touched) \cap Sessions

\* Stage one: the composite over the whole universe, in one transaction.
ComputeComposite(p) ==
    /\ pass[p].phase = "loading" /\ pass[p].todo = {}
    /\ LET run == pass[p]
           series == CompositeSeries(run.hist, run.split)
           known == {s \in Sessions : series[s] # NoComposite}
           range == IF known = {} THEN {}
                    ELSE (Min(known) .. Max(known)) \cap WritesComposite(run)
       IN  /\ composites' = [s \in Sessions |-> IF s \in range THEN series[s] ELSE composites[s]]
           /\ pass' = [pass EXCEPT ![p].phase = "computing", ![p].todo = Scoped(run),
                                   ![p].series = series]
           /\ missed' = IF run.clean THEN [missed EXCEPT !.series = @ \ range] ELSE missed
    /\ UNCHANGED <<bars, stamp, revised, split, imports, due, values, spent>>

\* Stage two: one instrument's values are replaced over its range, with its
\* item and its event, in one transaction under the instrument's lock.
ComputeInstrument(p, i) ==
    /\ pass[p].phase = "computing" /\ i \in pass[p].todo
    /\ LET run == pass[p]
           sc == ScopeOf(run, i)
           skipped == sc.from > sc.to
       IN  /\ values' = [values EXCEPT ![i] = [s \in Sessions |-> [d \in Defs |->
                  IF s \in sc.from .. sc.to /\ d \in sc.defs
                  THEN RowAt(run.hist, run.split, run.series, i, s, d) ELSE @[s][d]]]]
           /\ pass' = [pass EXCEPT ![p].todo = @ \ {i},
                          ![p].done = IF skipped THEN @ ELSE @ \cup {i},
                          ![p].from = IF skipped THEN @ ELSE IF run.done = {} THEN sc.from ELSE Min({@, sc.from}),
                          ![p].to = IF skipped THEN @ ELSE Max({@, sc.to})]
           /\ missed' = IF run.clean
                        THEN [missed EXCEPT !.rows = @ \ ({i} \X (sc.from .. sc.to) \X sc.defs)]
                        ELSE missed
    /\ UNCHANGED <<bars, stamp, revised, split, imports, due, composites, spent>>

\* What a run was begun for and will not write any more.
OwedRows(run, members) == {x \in members \X Sessions \X Defs : Moves(run.touched, x[1], x[2], x[3])}

OwedSeries(run) == {u \in Sessions : MovesComposite(run.touched, u)}

\* The history after a run has ended before its time.
Abandoned(run) ==
    IF run.phase = "loading"
    THEN [rows |-> missed.rows \cup OwedRows(run, Instruments), series |-> missed.series \cup OwedSeries(run)]
    ELSE [missed EXCEPT !.rows = @ \cup OwedRows(run, run.todo)]

\* A failure or a panic is contained: the scope rolls back, the item says so.
FailInstrument(p, i) ==
    /\ spent.faults < MaxFaults
    /\ pass[p].phase = "computing" /\ i \in pass[p].todo
    /\ pass' = [pass EXCEPT ![p].todo = @ \ {i}, ![p].failed = @ \cup {i}]
    /\ missed' = [missed EXCEPT !.rows = @ \cup OwedRows(pass[p], {i})]
    /\ spent' = [spent EXCEPT !.faults = @ + 1]
    /\ UNCHANGED <<bars, stamp, revised, split, imports, due, values, composites>>

FeatureStatus(run) ==
    IF run.failed = {} THEN "succeeded"
    ELSE IF run.todo = {} /\ Scoped(run) \subseteq run.failed THEN "failed" ELSE "partial"

\* finish: signals are asked for unless the run failed.
Finish(p) ==
    /\ pass[p].phase = "computing" /\ pass[p].todo = {}
    /\ pass' = [pass EXCEPT ![p] =
                  IF FeatureStatus(pass[p]) = "failed" THEN Idle
                  ELSE [pass[p] EXCEPT !.phase = "finished", !.hist = Idle.hist, !.split = Idle.split,
                                       !.series = Idle.series]]
    /\ UNCHANGED <<bars, stamp, revised, split, imports, due, values, composites, missed, spent>>

\* fail: a history or the composite could not be read or written.
Fail(p) ==
    /\ spent.faults < MaxFaults
    /\ pass[p].phase = "loading"
    /\ pass' = [pass EXCEPT ![p] = Idle]
    /\ missed' = Abandoned(pass[p])
    /\ spent' = [spent EXCEPT !.faults = @ + 1]
    /\ UNCHANGED <<bars, stamp, revised, split, imports, due, values, composites>>

-----------------------------------------------------------------------------
(* Read: one instrument's features as of a session its exchange traded.    *)

Refused == [session |-> 0, rows |-> [d \in Defs |-> NoRow], compared |-> NoComposite]

Read(i, asOf) ==
    LET stored == {s \in BarsOf(bars, i) : s <= asOf}
    IN  IF asOf \notin Calendar[i] \/ stored = {} THEN Refused
        ELSE [session |-> Max(stored), rows |-> values[i][Max(stored)],
              compared |-> composites[Max(stored)]]

FeatureNext ==
    \/ Import
    \/ \E p \in Passes :
          \/ \E r \in due : ComputeSince(p, r)
          \/ ComputeAll(p)
          \/ \E i \in Instruments : Load(p, i) \/ ComputeInstrument(p, i) \/ FailInstrument(p, i)
          \/ ComputeComposite(p)
          \/ Finish(p)
          \/ Fail(p)
=============================================================================

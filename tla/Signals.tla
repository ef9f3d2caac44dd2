------------------------------- MODULE Signals -------------------------------
(***************************************************************************)
(* The strategy engine (server/internal/strategies) behind the feature     *)
(* engine: after a feature run, and on command, every session in a range   *)
(* is scored for every member that has feature values there.  A first walk *)
(* over the sessions only learns which instruments cannot be scored, a     *)
(* second one writes, block by block, one transaction per instrument.      *)
(*                                                                         *)
(* A signal is kept as what it was scored from: the instrument's own rows  *)
(* and, because one factor ranks the universe, every member's "rel" row.   *)
(***************************************************************************)
EXTENDS Features

CONSTANTS MinSessions,    \* the history gate
          BlockSessions,  \* sessions scored per read of the values
          Unscorable      \* bars <<instrument, session, version>> whose label no
                          \* transform knows

VARIABLES signals,   \* the stored signal per instrument and session
          score,     \* the strategy run each caller is in
          unscored   \* history: instruments whose signals may be out of date

signalVars == <<signals, score, unscored>>
vars == <<featureVars, signalVars>>

NoSignal == [kind |-> "none", rows |-> [d \in Defs |-> NoRow], ranked |-> {}]

Resting == [phase |-> "idle", sessions |-> {}, counts |-> [i \in Instruments |-> 0],
            failures |-> {}, at |-> 0, todo |-> {}, seen |-> [i \in Instruments |->
                [s \in Sessions |-> [d \in Defs |-> NoRow]]], error |-> FALSE, all |-> FALSE, steady |-> TRUE]

-----------------------------------------------------------------------------
(* Scoring one instrument at one session.                                  *)

HasValues(v, i, s) == \E d \in Defs : v[i][s][d] # NoRow

Ranked(v, s) == {<<i, v[i][s]["rel"]>> :
                    i \in {j \in Instruments : v[j][s]["rel"].absent = ""}}

\* How many sessions with values an instrument has before a session.
StoredBefore(v, i, s) == Cardinality({t \in Sessions : t < s /\ HasValues(v, i, t)})

SignalAt(v, count, i, s) ==
    LET rows == v[i][s]
    IN  CASE count < MinSessions ->
                [NoSignal EXCEPT !.kind = "insufficient_history"]
          [] count >= MinSessions /\ \A d \in Defs : rows[d].absent # "" ->
                [NoSignal EXCEPT !.kind = "feature_unavailable", !.rows = rows]
          [] OTHER -> [NoSignal EXCEPT !.kind = "view", !.rows = rows, !.ranked = Ranked(v, s)]

\* scoreInstrument fails on a value whose label the transform does not know.
Fails(v, count, i, s) ==
    /\ count >= MinSessions
    /\ \E b \in v[i][s]["own"].bars : b[1] = s /\ <<i, s, b[2]>> \in Unscorable

\* What scoring every session with values gives.
FullSignals(v) ==
    [i \in Instruments |-> [s \in Sessions |->
        IF HasValues(v, i, s) THEN SignalAt(v, StoredBefore(v, i, s), i, s) ELSE NoSignal]]

-----------------------------------------------------------------------------
Init ==
    /\ FeatureInit
    /\ signals = FullSignals(values)
    /\ score = [p \in Passes |-> Resting]
    /\ unscored = {}

ScoringNow == \E p \in Passes : score[p].phase # "idle"

\* While a strategy run reads the values, a feature run that writes them
\* makes what it scores a mixture: nothing is claimed of it.
Disturbed(sc) == IF sc.phase = "idle" THEN sc ELSE [sc EXCEPT !.steady = FALSE]

FeatureStep ==
    /\ FeatureNext
    /\ IF values' # values /\ ScoringNow
       THEN unscored' = Instruments /\ score' = [p \in Passes |-> Disturbed(score[p])]
       ELSE UNCHANGED <<unscored, score>>
    /\ UNCHANGED signals

\* The sessions of a range that any member has values for.
StoredSessions(range) == {s \in range : \E i \in Instruments : HasValues(values, i, s)}

\* Compute: the range is the span of the feature run's succeeded items, or
\* every session with values; the counts before it are read once.
StartScoring(p, range, all) ==
    LET sessions == StoredSessions(range)
        from == Min(range)
    IN  /\ score[p].phase = "idle"
        /\ unscored' = IF ScoringNow THEN Instruments ELSE unscored
        /\ score' = IF sessions = {} THEN score
             ELSE [[q \in Passes |-> Disturbed(score[q])] EXCEPT ![p] =
                 [Resting EXCEPT !.phase = "validating", !.sessions = sessions,
                     !.counts = [i \in Instruments |-> StoredBefore(values, i, from)],
                     !.all = all, !.steady = ~ScoringNow]]
        /\ UNCHANGED signals

\* A faulty range: only the sessions of the bars the import touched.
SignalRangeTouched(run) ==
    IF run.kind = "incremental" THEN UNION {run.touched[i] : i \in Instruments}
    ELSE run.from .. run.to

\* The span of the run's succeeded items, for the whole universe.
SignalRange(run) == run.from .. run.to

ScoreSinceFeatureRun(p) ==
    /\ pass[p].phase = "finished"
    /\ StartScoring(p, SignalRange(pass[p]), FALSE)
    /\ pass' = [pass EXCEPT ![p].phase = "scoring"]
    /\ UNCHANGED <<bars, stamp, revised, split, imports, due, values, composites, missed, spent>>

\* A full pass on command, in a process of its own.
ScoreAll(p) ==
    /\ "signals" \in Commands /\ spent.commands < MaxCommands
    /\ pass[p].phase = "idle"
    /\ LET known == StoredSessions(Sessions)
       IN  StartScoring(p, IF known = {} THEN {} ELSE Min(known) .. Max(known), TRUE)
    /\ pass' = [pass EXCEPT ![p] = [Idle EXCEPT !.phase = "scoring"]]
    /\ spent' = [spent EXCEPT !.commands = @ + 1]
    /\ UNCHANGED <<bars, stamp, revised, split, imports, due, values, composites, missed>>

\* The history gate counts sessions as the walk advances.
CountAt(sc, v, i, s) ==
    sc.counts[i] + Cardinality({t \in sc.sessions : t < s /\ HasValues(v, i, t)})

\* The walk that writes nothing.
Unscorables(sc) ==
    {i \in Instruments : \E s \in sc.sessions :
        HasValues(values, i, s) /\ Fails(values, CountAt(sc, values, i, s), i, s)}

Validate(p) ==
    /\ score[p].phase = "validating"
    /\ score' = [score EXCEPT ![p].phase = "reading", ![p].failures = Unscorables(score[p])]
    /\ UNCHANGED <<featureVars, signals, unscored>>

\* The sessions of the next block, and the read that scores it.
Block(sc) ==
    {s \in sc.sessions : s > sc.at /\ Cardinality({t \in sc.sessions : sc.at < t /\ t <= s}) <= BlockSessions}

ReadBlock(p) ==
    /\ score[p].phase = "reading" /\ Block(score[p]) # {}
    /\ LET sc == score[p]
           failing == {i \in Instruments : \E s \in Block(sc) :
                          HasValues(values, i, s) /\ Fails(values, CountAt(sc, values, i, s), i, s)}
           failures == sc.failures \cup failing
       IN  score' = [score EXCEPT ![p].phase = "writing", ![p].failures = failures,
                        ![p].seen = values,
                        ![p].todo = {i \in Instruments \ failures :
                                        \E s \in Block(sc) : HasValues(values, i, s)}]
    /\ UNCHANGED <<featureVars, signals, unscored>>

\* WriteSignals: the instrument's signals over the block are replaced, with
\* the item and the event, in one transaction under the instrument's lock.
WriteSignals(p, i) ==
    /\ score[p].phase = "writing" /\ i \in score[p].todo
    /\ LET sc == score[p]
       IN  signals' = [signals EXCEPT ![i] = [s \in Sessions |->
              IF s \in Min(Block(sc)) .. Max(Block(sc))
              THEN IF s \in Block(sc) /\ HasValues(sc.seen, i, s)
                   THEN SignalAt(sc.seen, CountAt(sc, sc.seen, i, s), i, s)
                   ELSE NoSignal
              ELSE @[s]]]
    /\ score' = [score EXCEPT ![p].todo = @ \ {i}]
    /\ UNCHANGED <<featureVars, unscored>>

\* A write that fails: the other writes of the block still happen.
WriteFails(p, i) ==
    /\ spent.faults < MaxFaults
    /\ score[p].phase = "writing" /\ i \in score[p].todo
    /\ score' = [score EXCEPT ![p].todo = @ \ {i}, ![p].error = TRUE]
    /\ spent' = [spent EXCEPT !.faults = @ + 1]
    /\ unscored' = Instruments
    /\ UNCHANGED <<bars, stamp, revised, split, imports, due, values, composites, pass, missed,
                   signals>>

NextBlock(p) ==
    /\ score[p].phase = "writing" /\ score[p].todo = {}
    /\ score' = [score EXCEPT ![p].phase = IF score[p].error THEN "ending" ELSE "reading",
                              ![p].at = Max(Block(score[p])), ![p].seen = Resting.seen]
    /\ UNCHANGED <<featureVars, signals, unscored>>

\* recordFailures and FinishRun.  What a clean run over everything left out is
\* what its failures name.
EndScoring(p) ==
    /\ pass[p].phase = "scoring"
    /\ \/ score[p].phase = "idle"
       \/ score[p].phase = "reading" /\ Block(score[p]) = {}
       \/ score[p].phase = "ending"
    /\ unscored' = IF score[p].phase = "reading" /\ score[p].all /\ score[p].steady
                   THEN score[p].failures ELSE unscored \cup score[p].failures
    /\ score' = [score EXCEPT ![p] = Resting]
    /\ pass' = [pass EXCEPT ![p] = Idle]
    /\ UNCHANGED <<bars, stamp, revised, split, imports, due, values, composites, missed, spent,
                   signals>>

\* The process ends in the middle of a run: what is committed stays, the run
\* stays 'running', and nobody asks for it again.
Crash(p) ==
    /\ spent.faults < MaxFaults
    /\ pass[p].phase # "idle"
    /\ pass' = [pass EXCEPT ![p] = Idle]
    /\ score' = [score EXCEPT ![p] = Resting]
    /\ missed' = Abandoned(pass[p])
    /\ unscored' = Instruments
    /\ spent' = [spent EXCEPT !.faults = @ + 1]
    /\ UNCHANGED <<bars, stamp, revised, split, imports, due, values, composites,
                   signals>>

Next ==
    \/ FeatureStep
    \/ \E p \in Passes :
          \/ ScoreSinceFeatureRun(p)
          \/ ScoreAll(p)
          \/ Validate(p)
          \/ ReadBlock(p)
          \/ \E i \in Instruments : WriteSignals(p, i) \/ WriteFails(p, i)
          \/ NextBlock(p)
          \/ EndScoring(p)
          \/ Crash(p)

Spec == Init /\ [][Next]_vars

-----------------------------------------------------------------------------
\* SignalAsOf: the latest stored signal on or before a date, whatever the
\* exchange did on that date.
SignalAsOf(i, asOf) ==
    LET stored == {s \in Sessions : s <= asOf /\ signals[i][s].kind # "none"}
    IN  IF stored = {} THEN NoSignal ELSE signals[i][Max(stored)]

-----------------------------------------------------------------------------
(* Properties.                                                             *)

Quiet == due = {} /\ \A p \in Passes : pass[p].phase = "idle"

\* Every stored thing has its shape: versions, stamps, the range of a run.
TypeOK ==
    /\ bars \in [Instruments -> [Sessions -> 0..MaxImports + 1]]
    /\ stamp \in [Instruments -> [Sessions -> 0..imports]]
    /\ split \in [Instruments -> Sessions \cup {0}]
    /\ due \subseteq 1..imports
    /\ missed.rows \subseteq AllRows /\ missed.series \subseteq Sessions
    /\ unscored \subseteq Instruments
    /\ \A p \in Passes : (pass[p].todo \cup score[p].todo) \subseteq Instruments

\* Recomputing only what an import touches (features.incrementalScopes,
\* AffectedRange) leaves nothing out of date but what the history names: when
\* no run is under way, every row and every composite that no run failed on,
\* died before or overlooked is exactly what the stored bars give, on however
\* many exchanges.
OnlyMissedRowsAreStale ==
    Quiet =>
        LET comps == CompositeSeries(bars, split)
        IN  /\ \A s \in Sessions \ missed.series : composites[s] = comps[s]
            /\ \A i \in Instruments, s \in Sessions, d \in Defs :
                   <<i, s, d>> \notin missed.rows =>
                       values[i][s][d] = RowAt(bars, split, comps, i, s, d)

\* A read as of a session (Repository.Read) is what would have been computed
\* on that day: no later bar and no later split shows in it, nothing that
\* could be computed is missing, and a relative strength is reported next to
\* the composite it was measured against.
ReadsArePointInTime ==
    Quiet => \A i \in Instruments : \A asOf \in Calendar[i] :
        LET then == [j \in Instruments |-> [s \in Sessions |-> IF s <= asOf THEN bars[j][s] ELSE 0]]
            known == [j \in Instruments |-> IF split[j] <= asOf THEN split[j] ELSE 0]
            answer == Read(i, asOf)
            last == Max(BarsOf(then, i))
        IN  IF BarsOf(then, i) = {} THEN answer = Refused
            ELSE /\ answer.session = last
                 /\ \A d \in Defs : <<i, last, d>> \notin missed.rows =>
                        answer.rows[d] = FullValues(then, known)[i][last][d]
                 /\ (/\ <<i, last, "rel">> \notin missed.rows /\ last \notin missed.series
                     /\ answer.rows["rel"].absent = "") =>
                        <<last, answer.compared.of>> \in answer.rows["rel"].comps

\* The signals follow the values (strategies.Compute, SignalAsOf): when no
\* run is under way, an instrument no strategy run failed on answers on every
\* date with the signal that scoring the stored values of the whole universe
\* gives at its last session with values, or still says that its history is
\* too short.  The latter may last: a bar filled in adds to the history of
\* every later session, and only those of its own run are scored again.
SignalsFollowValues ==
    Quiet => \A i \in Instruments \ unscored : \A asOf \in Sessions :
        LET stored == {s \in Sessions : s <= asOf /\ HasValues(values, i, s)}
        IN  IF stored = {} THEN SignalAsOf(i, asOf) = NoSignal
            ELSE \/ SignalAsOf(i, asOf) = FullSignals(values)[i][Max(stored)]
                 \/ SignalAsOf(i, asOf).kind = "insufficient_history"
=============================================================================

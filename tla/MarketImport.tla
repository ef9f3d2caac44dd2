---------------------------- MODULE MarketImport ----------------------------
(***************************************************************************)
(* Daily-bar imports: runs of per-instrument items, worked on by a pool,   *)
(* that fetch from a provider, take the instrument's advisory lock, and    *)
(* write bars and quality findings on one transaction                      *)
(* (internal/marketdata, the nightly pass of internal/scheduler, and the   *)
(* import commands of cmd/market-lens).                                    *)
(*                                                                         *)
(* Several runs are alive at once: the server's nightly one and those an   *)
(* operator starts from the command line.  A bar is fetched before the     *)
(* lock is taken and written after it.                                     *)
(***************************************************************************)
EXTENDS Integers, FiniteSets, Sequences

CONSTANTS
    Instruments,
    LastSession,   \* the session of the day; every earlier one is expected
    Values,        \* source hashes of valid bars
    Jumps,         \* pairs of values that make a suspicious jump
    FirstAnswers,  \* what a provider may say at the start
    Stored,        \* sessions an earlier run has already stored
    Refused,       \* instruments the primary refused to authenticate last night
    Reobserve,     \* sessions the nightly pass asks about again
    MaxReach,      \* sessions the nightly pass never reaches behind
    Workers,       \* import workers of a run
    MaxRuns,       \* runs ever created (bound)
    MaxChanges,    \* changes of mind of the source (bound)
    MaxStops       \* processes cancelled or killed (bound)

ASSUME ImportAssumption ==
    /\ LastSession \in Nat \ {0}
    /\ {"none", "bad"} \cap Values = {}
    /\ Jumps \subseteq Values \X Values
    /\ FirstAnswers \subseteq Values \cup {"none", "bad"}
    /\ Stored \subseteq 1..LastSession
    /\ Refused \in {{}, Instruments}
    /\ Reobserve \in 1..LastSession
    /\ MaxReach \in 1..LastSession
    /\ Workers \in Nat \ {0}
    /\ MaxRuns \in Nat
    /\ MaxChanges \in Nat
    /\ MaxStops \in Nat

VARIABLES
    source,     \* what the primary provider would answer now
    bars,       \* daily_price_bars
    revisions,  \* price_bar_revisions: what each stored bar replaced, oldest first
    findings,   \* data_quality_findings
    run,        \* import_runs
    item,       \* import_items, with what each item's worker holds
    changes,    \* times the source changed its mind
    stops

vars == <<source, bars, revisions, findings, run, item, changes, stops>>

Sessions == 1..LastSession
Answers  == Values \cup {"none", "bad"}
Rules    == {"invalid_bar", "missing_session", "suspicious_jump"}
RunIds   == 1..MaxRuns
Terminal == {"succeeded", "partial", "failed", "cancelled"}
Failures == {"provider_authentication", "provider_unavailable", "import_conflict", "storage_error"}

NoBar  == [value |-> "none", provider |-> "none", run |-> 0]
NoRun  == [status |-> "none", kind |-> "none", provider |-> "none", process |-> "none"]
Silent == [s \in Sessions |-> "none"]
NoItem == [status |-> "none", error |-> "none", from |-> 1, to |-> 1, got |-> Silent,
           asked |-> 0, committed |-> FALSE, at |-> "none"]

Findings == [instrument: Instruments, session: Sessions, rule: Rules, run: RunIds,
             status: {"open", "resolved", "accepted"}, examined: 0..MaxRuns]

TypeOK ==
    /\ source \in [Instruments -> [Sessions -> Answers]]
    /\ bars \in [Instruments -> [Sessions -> [value: Values \cup {"none"}, run: 0..MaxRuns,
                                              provider: {"none", "primary", "fallback"}]]]
    /\ revisions \in [Instruments -> [Sessions -> Seq([value: Values, run: 0..MaxRuns,
                                                       provider: {"primary", "fallback"}])]]
    /\ findings \subseteq Findings
    /\ run \in [RunIds -> [status: {"none", "running"} \cup Terminal,
                           kind: {"none", "daily_update", "backfill", "retry", "fallback"},
                           provider: {"none", "primary", "fallback"},
                           process: {"none", "up", "stopping", "gone", "returned"}]]
    /\ item \in [RunIds -> [Instruments ->
                    [status: {"none", "queued", "running"} \cup Terminal,
                     error: Failures \cup {"none", "cancelled"},
                     from: Sessions, to: Sessions, got: [Sessions -> Answers],
                     asked: 0..MaxChanges, committed: BOOLEAN,
                     at: {"none", "asking", "fetched", "locked", "left"}]]]
    /\ changes \in 0..MaxChanges
    /\ stops \in 0..MaxStops

\* Last night's run, when the provider turned down its key: every item failed.
LastNight == [status |-> "failed", kind |-> "daily_update", provider |-> "primary", process |-> "returned"]
TurnedDown == [NoItem EXCEPT !.status = "failed", !.error = "provider_authentication", !.to = LastSession]

Init ==
    /\ source \in [Instruments -> [Sessions -> FirstAnswers]]
    /\ bars = [k \in Instruments |-> [s \in Sessions |->
                  IF s \in Stored /\ source[k][s] \in Values
                  THEN [value |-> source[k][s], provider |-> "primary", run |-> 0] ELSE NoBar]]
    /\ revisions = [k \in Instruments |-> [s \in Sessions |-> <<>>]]
    /\ findings = {}
    /\ run = [r \in RunIds |-> IF r = 1 /\ Refused # {} THEN LastNight ELSE NoRun]
    /\ item = [r \in RunIds |-> [k \in Instruments |->
                  IF r = 1 /\ k \in Refused THEN TurnedDown ELSE NoItem]]
    /\ changes = 0
    /\ stops = 0

\* A run whose workers are still there.
Live(r) == run[r].process \in {"up", "stopping"}

\* The source restates, fills or withdraws a session.
SourceSays(k, s, answer) ==
    /\ changes < MaxChanges
    /\ answer # source[k][s]
    /\ source' = [source EXCEPT ![k][s] = answer]
    /\ changes' = changes + 1
    /\ UNCHANGED <<bars, revisions, findings, run, item, stops>>

-----------------------------------------------------------------------------
(***************************************************************************)
(* Starting a run: createRun, with the items' windows.                     *)
(***************************************************************************)

\* The oldest open finding of an instrument that nothing has looked at again,
\* LastSession if there is none: WidenToUnsettled takes it only when older.
EarliestUnsettled(k) ==
    LET unsettled == {f.session : f \in {g \in findings : /\ g.instrument = k
                                                          /\ g.status = "open"
                                                          /\ g.examined = 0}}
    IN  IF unsettled = {} THEN LastSession
        ELSE CHOOSE s \in unsettled : \A t \in unsettled : s <= t

WidenToUnsettled(requested, unsettled) == IF unsettled < requested THEN unsettled ELSE requested

CreateRun(r, kind, provider, from, to, targets) ==
    /\ run[r] = NoRun
    /\ \A q \in RunIds : q < r => run[q] # NoRun
    /\ targets # {}
    /\ run' = [run EXCEPT ![r] = [status |-> "running", kind |-> kind,
                                  provider |-> provider, process |-> "up"]]
    /\ item' = [item EXCEPT ![r] = [k \in Instruments |->
                   IF k \in targets THEN [NoItem EXCEPT !.status = "queued", !.from = from[k], !.to = to[k]]
                   ELSE NoItem]]
    /\ UNCHANGED <<source, bars, revisions, findings, changes, stops>>

\* RunDue: one night at a time, over the re-observation window widened to the
\* oldest unsettled finding, never behind the floor.
StartNightly(r) ==
    LET floor == LastSession - MaxReach + 1
        from  == [k \in Instruments |->
                     LET wide == WidenToUnsettled(LastSession - Reobserve + 1, EarliestUnsettled(k))
                     IN  IF wide < floor THEN floor ELSE wide]
    IN  /\ \A q \in RunIds : run[q].kind \in {"daily_update", "fallback"} => ~Live(q)
        /\ CreateRun(r, "daily_update", "primary", from, [k \in Instruments |-> LastSession], Instruments)

\* marketdata backfill, from the command line.
StartBackfill(r, requested) ==
    CreateRun(r, "backfill", "primary",
              [k \in Instruments |-> WidenToUnsettled(requested, EarliestUnsettled(k))],
              [k \in Instruments |-> LastSession], Instruments)

\* marketdata retry: the failed and cancelled scopes of a finished run.  A
\* fallback run cannot be retried: validate refuses its provider.
StartRetry(r, parent) ==
    LET targets == {k \in Instruments : item[parent][k].status \in {"failed", "cancelled"}}
    IN  /\ run[parent].status \in {"partial", "failed", "cancelled"}
        /\ run[parent].provider = "primary"
        /\ CreateRun(r, "retry", "primary", [k \in Instruments |-> item[parent][k].from],
                     [k \in Instruments |-> item[parent][k].to], targets)

PrimarySessions(k) == {s \in Sessions : bars[k][s].provider = "primary"}

\* Fallback.Cover, at the end of the night: what the primary refused to
\* authenticate, from the session after the instrument's newest primary bar.  A
\* night with a conflict returned an error and got no further.
StartCover(r, night) ==
    LET after(k) == CHOOSE s \in PrimarySessions(k) : \A t \in PrimarySessions(k) : t <= s
        targets  == {k \in Instruments :
                        /\ item[night][k].error = "provider_authentication"
                        /\ PrimarySessions(k) # {}
                        /\ after(k) + 1 <= item[night][k].to}
    IN  /\ run[night].kind = "daily_update"
        /\ run[night].process = "returned"
        /\ \A k \in Instruments : item[night][k].error # "import_conflict"
        /\ \A q \in RunIds : q > night => run[q].kind \notin {"daily_update", "fallback"}
        /\ CreateRun(r, "fallback", "fallback",
                     [k \in Instruments |-> IF k \in targets THEN after(k) + 1 ELSE 1],
                     [k \in Instruments |-> item[night][k].to], targets)

\* fallback reconcile: the primary over the span each instrument's fallback bars cover.
StartReconcile(r) ==
    LET covered(k) == {s \in Sessions : bars[k][s].provider = "fallback"}
        targets    == {k \in Instruments : covered(k) # {}}
    IN  CreateRun(r, "backfill", "primary",
                  [k \in Instruments |-> IF k \in targets
                      THEN CHOOSE s \in covered(k) : \A t \in covered(k) : s <= t ELSE 1],
                  [k \in Instruments |-> IF k \in targets
                      THEN CHOOSE s \in covered(k) : \A t \in covered(k) : t <= s ELSE 1],
                  targets)
-----------------------------------------------------------------------------
(***************************************************************************)
(* importTarget, step by step.                                             *)
(***************************************************************************)
SetItem(r, k, new) ==
    /\ item' = [item EXCEPT ![r][k] = new]
    /\ UNCHANGED <<source, run, changes, stops>>

Fail(r, k, code) ==
    /\ SetItem(r, k, [item[r][k] EXCEPT !.status = "failed", !.error = code, !.at = "none"])
    /\ UNCHANGED <<bars, revisions, findings>>

\* An item no worker has met.
Waiting(r, k) == item[r][k].status = "queued" /\ item[r][k].at = "none"

\* Fault: only items not yet started are cancelled.
CancelItemQueued(r, k) ==
    /\ run[r].process = "stopping"
    /\ Waiting(r, k)
    /\ SetItem(r, k, [item[r][k] EXCEPT !.status = "cancelled", !.error = "cancelled", !.at = "none"])
    /\ UNCHANGED <<bars, revisions, findings>>

\* cancelItem, for an item not started or still asking when the context ended.
CancelItem(r, k) ==
    /\ run[r].process = "stopping"
    /\ Waiting(r, k) \/ item[r][k].at = "asking"
    /\ SetItem(r, k, [item[r][k] EXCEPT !.status = "cancelled", !.error = "cancelled", !.at = "none"])
    /\ UNCHANGED <<bars, revisions, findings>>

\* markItemRunning, by a free worker of the pool.
StartItem(r, k) ==
    /\ run[r].process = "up"
    /\ Waiting(r, k)
    /\ Cardinality({j \in Instruments : item[r][j].status = "running"}) < Workers
    /\ SetItem(r, k, [item[r][k] EXCEPT !.status = "running", !.at = "asking"])
    /\ UNCHANGED <<bars, revisions, findings>>

\* markItemRunning fails, or the context ends under it: the worker leaves the
\* item 'queued' and nothing ever takes it up again.
StartFails(r, k) ==
    /\ Live(r)
    /\ Waiting(r, k)
    /\ Cardinality({j \in Instruments : item[r][j].status = "running"}) < Workers
    /\ SetItem(r, k, [item[r][k] EXCEPT !.at = "left"])
    /\ UNCHANGED <<bars, revisions, findings>>

\* CollectDaily: the provider's answers over the item's window.
Fetch(r, k) ==
    /\ run[r].process = "up"
    /\ item[r][k].at = "asking"
    /\ \E got \in [Sessions -> Answers] :
          /\ \A s \in Sessions :
                IF s \notin item[r][k].from..item[r][k].to THEN got[s] = "none"
                ELSE IF run[r].provider = "primary" THEN got[s] = source[k][s]
                ELSE got[s] \in FirstAnswers
          /\ SetItem(r, k, [item[r][k] EXCEPT !.at = "fetched", !.got = got, !.asked = changes])
    /\ UNCHANGED <<bars, revisions, findings>>

FetchFails(r, k) ==
    /\ run[r].process = "up"
    /\ item[r][k].at = "asking"
    /\ \E code \in {"provider_authentication", "provider_unavailable"} : Fail(r, k, code)

\* expectedSessions and BeginImportScope fail once the context has ended.
LateStop(r, k) ==
    /\ run[r].process = "stopping"
    /\ item[r][k].at = "fetched"
    /\ \E code \in {"storage_error", "import_conflict"} : Fail(r, k, code)

\* BeginImportScope: try the instrument's advisory lock; whoever holds it, the
\* loser's item fails.
Lock(r, k) ==
    /\ run[r].process = "up"
    /\ item[r][k].at = "fetched"
    /\ IF \E q \in RunIds : Live(q) /\ item[q][k].at = "locked"
       THEN Fail(r, k, "import_conflict")
       ELSE /\ SetItem(r, k, [item[r][k] EXCEPT !.at = "locked"])
            /\ UNCHANGED <<bars, revisions, findings>>

-----------------------------------------------------------------------------
(***************************************************************************)
(* ValidateDailyPage over what an item fetched.                            *)
(***************************************************************************)
Accepted(got) == {s \in Sessions : got[s] \in Values}
Rejected(got) == {s \in Sessions : got[s] = "bad"}

\* A gap is a hole inside what was returned; with nothing usable returned,
\* every session of the window is one.
Missing(it) ==
    {s \in it.from..it.to :
        /\ s \notin Accepted(it.got)
        /\ Accepted(it.got) \cup Rejected(it.got) # {}
        /\ \/ Accepted(it.got) = {}
           \/ \E t, u \in Accepted(it.got) : t < s /\ s < u}

Jumped(got) ==
    {s \in Accepted(got) : \E t \in Accepted(got) :
        /\ t < s
        /\ \A u \in Accepted(got) : u <= t \/ s <= u
        /\ <<got[t], got[s]>> \in Jumps}

Rejections(it) == Rejected(it.got) \X {"invalid_bar"}

Issues(it) ==
    Rejections(it) \cup Missing(it) \X {"missing_session"} \cup Jumped(it.got) \X {"suspicious_jump"}

\* Fault: any changed bar is written.
WritesAny(old, value, provider) == old.value # value

\* upsertBar: a fallback bar never replaces a primary one, and a bar whose hash
\* is unchanged is not written.
Writes(old, value, provider) ==
    /\ ~(provider = "fallback" /\ old.provider = "primary")
    /\ old.value # value

Condition(f) == <<f.session, f.rule>>

\* Fault: every finding of the window counts as raised again.
RevisitAll(f, r, k, it) ==
    LET covered == f.instrument = k /\ f.status = "open" /\ f.session \in it.from..it.to
    IN  IF covered /\ f.examined = 0 /\ f.run # r THEN [f EXCEPT !.examined = r] ELSE f

Revisit(f, r, k, it) ==
    LET covered == f.instrument = k /\ f.status = "open" /\ f.session \in it.from..it.to
        raised  == Condition(f) \in Issues(it)
    IN  IF covered /\ ~raised THEN [f EXCEPT !.status = "resolved"]
        ELSE IF covered /\ raised /\ f.examined = 0 /\ f.run # r THEN [f EXCEPT !.examined = r]
        ELSE f

NewFindings(r, k, it) ==
    {[instrument |-> k, session |-> i[1], rule |-> i[2], run |-> r,
      status |-> "open", examined |-> 0] :
        i \in {j \in Issues(it) : \A f \in findings :
                  ~(f.instrument = k /\ f.status = "open" /\ Condition(f) = j)}}

\* insertFinding for the issues not already open, resolveSettledFindings for
\* the open ones in the window not raised again, recordReexaminations for the
\* open ones another run raised and this one raised again.
FindingsAfter(r, k, it) ==
    IF run[r].provider = "fallback" THEN findings
    ELSE {Revisit(f, r, k, it) : f \in findings} \cup NewFindings(r, k, it)

\* unknownRejections: those nobody is already asked to decide about.
UnknownRejections(k, it, after) ==
    {i \in Rejections(it) : \A f \in after :
        ~(f.instrument = k /\ f.status = "open" /\ f.examined # 0 /\ Condition(f) = i)}

\* persist and Commit, on the transaction that holds the lock.
Persist(r, k) ==
    LET it        == item[r][k]
        provider  == run[r].provider
        after     == FindingsAfter(r, k, it)
        written   == {s \in Accepted(it.got) : Writes(bars[k][s], it.got[s], provider)}
    IN  /\ run[r].process = "up"
        /\ it.at = "locked"
        /\ bars' = [bars EXCEPT ![k] = [s \in Sessions |->
                       IF s \in written THEN [value |-> it.got[s], provider |-> provider, run |-> r]
                       ELSE @[s]]]
        /\ revisions' = [revisions EXCEPT ![k] = [s \in Sessions |->
                       IF s \in written /\ bars[k][s] # NoBar THEN Append(@[s], bars[k][s])
                       ELSE @[s]]]
        /\ findings' = after
        /\ SetItem(r, k, [it EXCEPT !.at = "none", !.committed = TRUE,
                             !.status = IF UnknownRejections(k, it, after) = {} THEN "succeeded"
                                        ELSE "partial"])

\* A storage error, or the context's end, rolls the whole scope back.
PersistFails(r, k) ==
    /\ Live(r)
    /\ item[r][k].at = "locked"
    /\ Fail(r, k, "storage_error")

\* finishRun, once every worker has reported.
RunStatus(r) ==
    LET targets == {k \in Instruments : item[r][k].status # "none"}
        All(status) == \A k \in targets : item[r][k].status = status
    IN  IF All("cancelled") THEN "cancelled"
        ELSE IF All("failed") THEN "failed"
        ELSE IF All("succeeded") THEN "succeeded"
        ELSE "partial"

FinishRun(r) ==
    /\ Live(r)
    /\ \A k \in Instruments : ~Waiting(r, k) /\ item[r][k].status # "running"
    /\ run' = [run EXCEPT ![r].status = RunStatus(r),
                            ![r].process = IF @ = "up" THEN "returned" ELSE "gone"]
    /\ UNCHANGED <<source, bars, revisions, findings, item, changes, stops>>

-----------------------------------------------------------------------------
\* A signal ends the run's context; a kill ends its process, and the database
\* ends its transactions: the run and its items stay as they were.
Stop(r) ==
    /\ stops < MaxStops
    /\ stops' = stops + 1
    /\ \/ run[r].process = "up" /\ run' = [run EXCEPT ![r].process = "stopping"]
       \/ Live(r) /\ run' = [run EXCEPT ![r].process = "gone"]
    /\ UNCHANGED <<source, bars, revisions, findings, item, changes>>

\* AcceptFinding: the owner accepts a condition that was looked at again.
AcceptFinding(f) ==
    /\ f.status = "open"
    /\ f.examined # 0
    /\ findings' = (findings \ {f}) \cup {[f EXCEPT !.status = "accepted"]}
    /\ UNCHANGED <<source, bars, revisions, run, item, changes, stops>>

-----------------------------------------------------------------------------
Begin ==
    \E r \in RunIds :
        \/ StartNightly(r)
        \/ \E requested \in Sessions : StartBackfill(r, requested)
        \/ \E other \in RunIds : StartRetry(r, other) \/ StartCover(r, other)
        \/ StartReconcile(r)

Work(r, k) ==
    \/ StartItem(r, k) \/ StartFails(r, k) \/ CancelItem(r, k)
    \/ Fetch(r, k) \/ FetchFails(r, k)
    \/ Lock(r, k) \/ LateStop(r, k)
    \/ Persist(r, k) \/ PersistFails(r, k)

Next ==
    \/ Begin
    \/ \E r \in RunIds, k \in Instruments : Work(r, k)
    \/ \E r \in RunIds : FinishRun(r) \/ Stop(r)
    \/ \E f \in findings : AcceptFinding(f)
    \/ \E k \in Instruments, s \in Sessions, answer \in Answers : SourceSays(k, s, answer)

Spec == Init /\ [][Next]_vars

(***************************************************************************)
(* Fairness: a worker goes on while its process lives (requests time out,  *)
(* the lock is tried and never waited for), and Import returns.            *)
(***************************************************************************)
FairSpec ==
    /\ Spec
    /\ \A r \in RunIds : WF_vars(FinishRun(r)) /\ \A k \in Instruments : WF_vars(Work(r, k))
-----------------------------------------------------------------------------
(***************************************************************************)
(* Properties.                                                             *)
(***************************************************************************)

\* Everything that was ever the stored bar of a session, oldest first.
HistoryOf(k, s) ==
    IF bars[k][s] = NoBar THEN revisions[k][s] ELSE Append(revisions[k][s], bars[k][s])

\* "A fallback value written over a primary one would be a silent splice": once
\* the primary has spoken for a session no fallback bar follows, whichever runs
\* overlap, retry or reconcile.
FallbackNeverSplices ==
    \A k \in Instruments, s \in Sessions :
        \A m, n \in DOMAIN HistoryOf(k, s) :
            m < n /\ HistoryOf(k, s)[m].provider = "primary" => HistoryOf(k, s)[n].provider = "primary"

\* The owner is asked to decide only about what the primary reported to two
\* different runs.
DecisionsRestOnTwoRuns ==
    \A f \in findings : f.status = "accepted" =>
        LET raisedBy(r) == /\ run[r].provider = "primary"
                           /\ item[r][f.instrument].committed
                           /\ Condition(f) \in Issues(item[r][f.instrument])
        IN  raisedBy(f.run) /\ \E r \in RunIds \ {f.run} : raisedBy(r)

\* Every run ends while its process lives: a conflict, a failure or a
\* cancellation leaves no worker waiting.
RunsEnd == \A r \in RunIds : Live(r) ~> ~Live(r)

\* "Concurrent or overlapping imports MUST produce the same valid final data as
\* equivalent non-overlapping imports": the stored primary bar is the answer of
\* the committed import that asked last.  It does not hold when two runs overlap,
\* and no run checks it: see the README.
OverlapsAreSerial ==
    \A k \in Instruments, s \in Sessions, r \in RunIds :
        LET spoke(q) == /\ run[q].provider = "primary"
                        /\ item[q][k].committed
                        /\ s \in Accepted(item[q][k].got)
        IN  spoke(r) /\ (\A q \in RunIds : spoke(q) => item[q][k].asked <= item[r][k].asked)
                => bars[k][s].value = item[r][k].got[s]
=============================================================================

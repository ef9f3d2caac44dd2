---------------------------- MODULE ImportProofs ----------------------------
(***************************************************************************)
(* What imports guarantee for every number of instruments, sessions and    *)
(* overlapping runs, and whatever the providers answer.                    *)
(***************************************************************************)
EXTENDS MarketImport, WellFoundedInduction, TLAPS

BarRows == [value: Values \cup {"none"}, run: 0..MaxRuns, provider: {"none", "primary", "fallback"}]
OldRows == [value: Values, run: 0..MaxRuns, provider: {"primary", "fallback"}]
RunRows == [status: {"none", "running"} \cup Terminal,
            kind: {"none", "daily_update", "backfill", "retry", "fallback"},
            provider: {"none", "primary", "fallback"},
            process: {"none", "up", "stopping", "gone", "returned"}]
ItemRows == [status: {"none", "queued", "running"} \cup Terminal, error: Failures \cup {"none", "cancelled"},
             from: Sessions, to: Sessions, got: [Sessions -> Answers], asked: 0..MaxChanges,
             committed: BOOLEAN, at: {"none", "asking", "fetched", "locked", "left"}]

(***************************************************************************)
(* The invariant.                                                          *)
(***************************************************************************)

\* A bar has a value and a provider, or is none and replaced nothing.
BarsHold ==
    \A k \in Instruments, s \in Sessions :
        \/ bars[k][s] = NoBar /\ revisions[k][s] = <<>>
        \/ bars[k][s] \in OldRows

\* A run that was created has a provider.
RunsHold == \A r \in RunIds : run[r] = NoRun \/ (run[r].process # "none" /\ run[r].provider # "none")

\* An item that committed is done.
ItemsHold ==
    \A r \in RunIds, k \in Instruments : item[r][k].committed =>
        /\ run[r] # NoRun
        /\ item[r][k].status \in {"succeeded", "partial"} /\ item[r][k].at = "none"

\* The run whose item for the finding's instrument committed with its condition.
RaisedBy(f, r) ==
    /\ run[r].provider = "primary"
    /\ item[r][f.instrument].committed
    /\ Condition(f) \in Issues(item[r][f.instrument])

\* A finding is of the run that raised it, and says which other one raised it again.
FindingsHold ==
    \A f \in findings :
        /\ RaisedBy(f, f.run)
        /\ f.examined # 0 => f.examined # f.run /\ RaisedBy(f, f.examined)
        /\ f.status = "accepted" => f.examined # 0

IInv == TypeOK /\ BarsHold /\ FallbackNeverSplices /\ RunsHold /\ ItemsHold /\ FindingsHold

-----------------------------------------------------------------------------
(***************************************************************************)
(* Facts about the constants, and about the least and the greatest of some *)
(* sessions.                                                               *)
(***************************************************************************)
LEMMA ImportTypes ==
    /\ LastSession \in Nat \ {0} /\ MaxRuns \in Nat /\ MaxChanges \in Nat /\ MaxStops \in Nat
    /\ Reobserve \in Sessions /\ MaxReach \in Sessions
    /\ "none" \notin Values /\ "bad" \notin Values
    /\ 1 \in Sessions /\ LastSession \in Sessions /\ Sessions \subseteq Nat
    /\ FirstAnswers \subseteq Answers /\ Values \subseteq Answers /\ "none" \in Answers
  BY ImportAssumption DEF Sessions, Answers

LEMMA SmallestSession ==
    ASSUME NEW S \in SUBSET Nat, S # {}
    PROVE  \E s \in S : \A t \in S : s <= t
  <1> DEFINE R == OpToRel(<, Nat)
  <1>1. IsWellFoundedOn(R, Nat)
    BY NatLessThanWellFounded
  <1>2. \A y, x \in Nat : y < x => <<y, x>> \in R
    BY DEF OpToRel
  <1>. HIDE DEF R
  <1>3. PICK s \in S : \A t \in S : ~(<<t, s>> \in R)
    BY <1>1, WFMin
  <1>4. ASSUME NEW t \in S PROVE s <= t
    <2>1. ~(t < s)
      BY <1>2, <1>3, Zenon
    <2>. QED
      BY <2>1
  <1>. QED
    BY <1>4

LEMMA FirstOf ==
    ASSUME NEW S \in SUBSET Sessions, S # {}
    PROVE  (CHOOSE s \in S : \A t \in S : s <= t) \in S
  <1>1. S \in SUBSET Nat
    BY ImportTypes
  <1>2. \E s \in S : \A t \in S : s <= t
    BY <1>1, SmallestSession
  <1>. QED
    BY <1>2

LEMMA LastOf ==
    ASSUME NEW S \in SUBSET Sessions, S # {}
    PROVE  (CHOOSE s \in S : \A t \in S : t <= s) \in S
  <1> DEFINE left == {LastSession - s : s \in S}
  <1>1. left \in SUBSET Nat /\ left # {}
    <2>1. \A s \in S : LastSession - s \in Nat
      BY ImportTypes DEF Sessions
    <2>. QED
      BY <2>1
  <1>2. PICK d \in left : \A e \in left : d <= e
    BY <1>1, SmallestSession
  <1>3. PICK s \in S : d = LastSession - s
    BY <1>2
  <1>4. \A t \in S : t <= s
    <2>1. ASSUME NEW t \in S PROVE t <= s
      <3>1. LastSession - s <= LastSession - t
        BY <1>2, <1>3
      <3>. QED
        BY <3>1, ImportTypes DEF Sessions
    <2>. QED
      BY <2>1
  <1>. QED
    BY <1>4

-----------------------------------------------------------------------------
(***************************************************************************)
(* What an item's issues rest on, and what keeps a finding's grounds.      *)
(***************************************************************************)
\* ValidateDailyPage looks at an item's window and at what was fetched.
LEMMA IssuesOf ==
    ASSUME NEW a, NEW b, a.got = b.got, a.from = b.from, a.to = b.to
    PROVE  Issues(a) = Issues(b)
  <1>1. Missing(a) = Missing(b)
    BY DEF Missing
  <1>. QED
    BY <1>1 DEF Issues, Rejections

LEMMA IssuesTyped ==
    ASSUME NEW it \in ItemRows
    PROVE  \A i \in Issues(it) : i = <<i[1], i[2]>> /\ i[1] \in Sessions /\ i[2] \in Rules
  <1>1. Accepted(it.got) \subseteq Sessions /\ Rejected(it.got) \subseteq Sessions
    BY DEF Accepted, Rejected
  <1>2. Missing(it) \subseteq Sessions
    <2>1. it.from \in Sessions /\ it.to \in Sessions
      BY DEF ItemRows
    <2>2. it.from..it.to \subseteq Sessions
      BY <2>1, ImportTypes DEF Sessions
    <2>. QED
      BY <2>2 DEF Missing
  <1>3. Jumped(it.got) \subseteq Sessions
    BY <1>1 DEF Jumped
  <1>. QED
    BY <1>1, <1>2, <1>3 DEF Issues, Rejections, Rules

\* Committed items and the providers of runs stay as they are.
KeepsCommitted ==
    /\ \A r \in RunIds, k \in Instruments : item[r][k].committed => item'[r][k] = item[r][k]
    /\ \A r \in RunIds : run[r] # NoRun => run'[r].provider = run[r].provider

LEMMA RaisedByStays ==
    ASSUME IInv, KeepsCommitted, NEW f \in Findings, NEW r \in RunIds, RaisedBy(f, r)
    PROVE  RaisedBy(f, r)'
  <1>1. f.instrument \in Instruments
    BY DEF Findings
  <1>2. item[r][f.instrument].committed
    BY DEF RaisedBy
  <1>3. item'[r][f.instrument] = item[r][f.instrument] /\ run'[r].provider = run[r].provider
    BY <1>1, <1>2 DEF IInv, ItemsHold, KeepsCommitted
  <1>. QED
    BY <1>3, IssuesOf DEF RaisedBy

LEMMA FindingsStay ==
    ASSUME IInv, KeepsCommitted, UNCHANGED findings
    PROVE  FindingsHold'
  <1>1. ASSUME NEW f \in findings
        PROVE  /\ RaisedBy(f, f.run)'
               /\ f.examined # 0 => f.examined # f.run /\ RaisedBy(f, f.examined)'
               /\ f.status = "accepted" => f.examined # 0
    <2>1. f \in Findings /\ f.run \in RunIds /\ (f.examined # 0 => f.examined \in RunIds)
      BY DEF IInv, TypeOK, Findings, RunIds
    <2>2. /\ RaisedBy(f, f.run)
          /\ f.examined # 0 => f.examined # f.run /\ RaisedBy(f, f.examined)
          /\ f.status = "accepted" => f.examined # 0
      BY DEF IInv, FindingsHold
    <2>. QED
      BY <2>1, <2>2, RaisedByStays
  <1>. QED
    BY <1>1 DEF FindingsHold

-----------------------------------------------------------------------------
(***************************************************************************)
(* The beginning, and the steps that leave bars and findings.              *)
(***************************************************************************)
LEMMA TypesOf ==
    ASSUME IInv
    PROVE  /\ item \in [RunIds -> [Instruments -> ItemRows]] /\ run \in [RunIds -> RunRows]
           /\ bars \in [Instruments -> [Sessions -> BarRows]]
           /\ revisions \in [Instruments -> [Sessions -> Seq(OldRows)]]
  BY DEF IInv, TypeOK, ItemRows, RunRows, BarRows, OldRows

LEMMA FixedRows ==
    /\ NoItem \in ItemRows /\ TurnedDown \in ItemRows /\ ~NoItem.committed /\ ~TurnedDown.committed
    /\ NoRun \in RunRows /\ LastNight \in RunRows
    /\ LastNight.process # "none" /\ LastNight.provider # "none"
    /\ NoBar \in BarRows /\ NoBar \notin OldRows
  <1>1. Silent \in [Sessions -> Answers]
    BY ImportTypes DEF Silent
  <1>2. NoItem \in ItemRows
    BY <1>1, ImportTypes DEF NoItem, ItemRows
  <1>3. TurnedDown \in ItemRows
    <2>1. TurnedDown = [NoItem EXCEPT !.status = "failed", !.error = "provider_authentication", !.to = LastSession]
      BY DEF TurnedDown
    <2>2. "failed" \in Terminal /\ "provider_authentication" \in Failures
      BY DEF Terminal, Failures
    <2>. QED
      BY <1>2, <2>1, <2>2, ImportTypes, Zenon DEF ItemRows
  <1>. QED
    BY <1>2, <1>3, ImportTypes DEF TurnedDown, NoItem, NoRun, RunRows, LastNight, NoBar, BarRows, OldRows, Terminal

LEMMA InvInit == Init => IInv
  <1> SUFFICES ASSUME Init PROVE IInv
    OBVIOUS
  <1>1. source \in [Instruments -> [Sessions -> Answers]]
    <2>1. source \in [Instruments -> [Sessions -> FirstAnswers]] /\ FirstAnswers \subseteq Answers
      BY ImportTypes DEF Init
    <2>. QED
      BY <2>1
  <1>2. ASSUME NEW k \in Instruments, NEW s \in Sessions
        PROVE  bars[k][s] \in BarRows /\ (bars[k][s] = NoBar \/ bars[k][s] \in OldRows)
    <2>1. CASE s \in Stored /\ source[k][s] \in Values
      <3>1. bars[k][s] = [value |-> source[k][s], provider |-> "primary", run |-> 0]
        BY <2>1 DEF Init
      <3>. QED
        BY <2>1, <3>1, ImportTypes DEF BarRows, OldRows
    <2>2. CASE ~(s \in Stored /\ source[k][s] \in Values)
      BY <2>2, FixedRows DEF Init
    <2>. QED
      BY <2>1, <2>2
  <1>3. bars \in [Instruments -> [Sessions -> BarRows]]
    <2>1. bars = [k \in Instruments |-> [s \in Sessions |-> bars[k][s]]]
      BY DEF Init
    <2>. QED
      BY <1>2, <2>1
  <1>4. revisions \in [Instruments -> [Sessions -> Seq(OldRows)]]
    BY DEF Init
  <1>5. run \in [RunIds -> RunRows] /\ item \in [RunIds -> [Instruments -> ItemRows]]
    BY FixedRows DEF Init
  <1>6. findings = {} /\ changes \in 0..MaxChanges /\ stops \in 0..MaxStops
    BY ImportTypes DEF Init
  <1>7. TypeOK
    BY <1>1, <1>3, <1>4, <1>5, <1>6 DEF TypeOK, ItemRows, RunRows, BarRows, OldRows
  <1>8. BarsHold
    BY <1>2 DEF BarsHold, Init
  <1>9. FallbackNeverSplices
    <2>1. ASSUME NEW k \in Instruments, NEW s \in Sessions, NEW m \in DOMAIN HistoryOf(k, s),
                 NEW n \in DOMAIN HistoryOf(k, s), m < n
          PROVE  FALSE
      <3>1. revisions[k][s] = <<>>
        BY DEF Init
      <3>2. DOMAIN HistoryOf(k, s) \subseteq {1}
        BY <3>1 DEF HistoryOf
      <3>. QED
        BY <2>1, <3>2
    <2>. QED
      BY <2>1 DEF FallbackNeverSplices
  <1>10. RunsHold
    BY FixedRows DEF RunsHold, Init
  <1>11. ItemsHold
    BY FixedRows DEF ItemsHold, Init
  <1>. QED
    BY <1>6, <1>7, <1>8, <1>9, <1>10, <1>11 DEF IInv, FindingsHold

LEMMA HistoriesStay ==
    ASSUME IInv, UNCHANGED <<bars, revisions>>
    PROVE  BarsHold' /\ FallbackNeverSplices'
  <1>1. BarsHold'
    BY DEF IInv, BarsHold
  <1>2. \A k, s : HistoryOf(k, s)' = HistoryOf(k, s)
    BY DEF HistoryOf
  <1>3. FallbackNeverSplices'
    BY <1>2, Zenon DEF IInv, FallbackNeverSplices
  <1>. QED
    BY <1>1, <1>3

\* What a worker does with an item that has not committed.
LEMMA ItemStep ==
    ASSUME IInv, NEW r \in RunIds, NEW k \in Instruments, NEW new \in ItemRows,
           ~item[r][k].committed, ~new.committed, SetItem(r, k, new),
           UNCHANGED <<bars, revisions, findings>>
    PROVE  IInv'
  <1>1. item \in [RunIds -> [Instruments -> ItemRows]]
    BY TypesOf
  <1>2. /\ item' \in [RunIds -> [Instruments -> ItemRows]] /\ item'[r][k] = new
        /\ \A q \in RunIds, j \in Instruments : q # r \/ j # k => item'[q][j] = item[q][j]
    <2>1. item' = [item EXCEPT ![r] = [item[r] EXCEPT ![k] = new]]
      BY DEF SetItem
    <2>. QED
      BY <1>1, <2>1
  <1>3. UNCHANGED <<source, run, changes, stops>>
    BY DEF SetItem
  <1>4. TypeOK'
    BY <1>2, <1>3 DEF IInv, TypeOK, ItemRows
  <1>5. KeepsCommitted
    BY <1>2, <1>3 DEF KeepsCommitted
  <1>6. RunsHold'
    BY <1>3 DEF IInv, RunsHold
  <1>7. ItemsHold'
    BY <1>2, <1>3 DEF IInv, ItemsHold
  <1>. QED
    BY <1>4, <1>5, <1>6, <1>7, FindingsStay, HistoriesStay DEF IInv

\* An item that is under way has not committed.
LEMMA UnderWay ==
    ASSUME IInv, NEW r \in RunIds, NEW k \in Instruments,
           item[r][k].status \in {"queued", "running"} \/ item[r][k].at # "none"
    PROVE  item[r][k] \in ItemRows /\ ~item[r][k].committed
  <1>1. item[r][k] \in ItemRows
    BY TypesOf
  <1>. QED
    BY <1>1 DEF IInv, ItemsHold

\* Every way an item ends without a commit.
LEMMA EndedStep ==
    ASSUME IInv, NEW r \in RunIds, NEW k \in Instruments,
           item[r][k].status \in {"queued", "running"} \/ item[r][k].at # "none",
           NEW status \in Terminal, NEW error \in Failures \cup {"none", "cancelled"},
           SetItem(r, k, [item[r][k] EXCEPT !.status = status, !.error = error, !.at = "none"]),
           UNCHANGED <<bars, revisions, findings>>
    PROVE  IInv'
  <1> DEFINE it  == item[r][k]
             new == [it EXCEPT !.status = status, !.error = error, !.at = "none"]
  <1>1. it \in ItemRows /\ ~it.committed
    BY UnderWay
  <1>2. new \in ItemRows
    BY <1>1, Zenon DEF ItemRows
  <1>3. ~new.committed
    BY <1>1 DEF ItemRows
  <1>. QED
    BY <1>1, <1>2, <1>3, ItemStep

LEMMA FailStep ==
    ASSUME IInv, NEW r \in RunIds, NEW k \in Instruments, NEW code \in Failures,
           item[r][k].at # "none", Fail(r, k, code)
    PROVE  IInv'
  BY EndedStep, Zenon DEF Fail, Terminal

LEMMA WorkStep ==
    ASSUME IInv, NEW r \in RunIds, NEW k \in Instruments, Work(r, k), ~Persist(r, k)
    PROVE  IInv'
  <1> DEFINE it == item[r][k]
  <1>1. CASE StartItem(r, k)
    <2> DEFINE new == [it EXCEPT !.status = "running", !.at = "asking"]
    <2>1. it \in ItemRows /\ ~it.committed
      BY <1>1, UnderWay DEF StartItem, Waiting
    <2>2. new \in ItemRows
      BY <2>1, Zenon DEF ItemRows
    <2>3. ~new.committed
      BY <2>1 DEF ItemRows
    <2>. QED
      BY <1>1, <2>1, <2>2, <2>3, ItemStep DEF StartItem
  <1>2. CASE CancelItem(r, k)
    <2>1. "cancelled" \in Terminal
      BY DEF Terminal
    <2>2. it.status \in {"queued", "running"} \/ it.at # "none"
      BY <1>2 DEF CancelItem, Waiting
    <2>. QED
      BY <1>2, <2>1, <2>2, EndedStep DEF CancelItem
  <1>3. CASE Fetch(r, k)
    <2>1. PICK got \in [Sessions -> Answers] :
             SetItem(r, k, [it EXCEPT !.at = "fetched", !.got = got, !.asked = changes])
      BY <1>3 DEF Fetch
    <2> DEFINE new == [it EXCEPT !.at = "fetched", !.got = got, !.asked = changes]
    <2>2. it \in ItemRows /\ ~it.committed
      BY <1>3, UnderWay DEF Fetch
    <2>3. changes \in 0..MaxChanges
      BY DEF IInv, TypeOK
    <2>4. new \in ItemRows
      BY <2>2, <2>3, Zenon DEF ItemRows
    <2>5. ~new.committed
      BY <2>2 DEF ItemRows
    <2>. QED
      BY <1>3, <2>1, <2>2, <2>4, <2>5, ItemStep DEF Fetch
  <1>4. CASE FetchFails(r, k)
    BY <1>4, FailStep DEF FetchFails, Failures
  <1>5. CASE LateStop(r, k)
    BY <1>5, FailStep DEF LateStop, Failures
  <1>6. CASE PersistFails(r, k)
    BY <1>6, FailStep DEF PersistFails, Failures
  <1>7. CASE Lock(r, k)
    <2> DEFINE new == [it EXCEPT !.at = "locked"]
    <2>1. it.at = "fetched"
      BY <1>7 DEF Lock
    <2>2. it \in ItemRows /\ ~it.committed
      BY <2>1, UnderWay
    <2>3. new \in ItemRows
      BY <2>2, Zenon DEF ItemRows
    <2>4. ~new.committed
      BY <2>2 DEF ItemRows
    <2>5. Fail(r, k, "import_conflict") \/ (SetItem(r, k, new) /\ UNCHANGED <<bars, revisions, findings>>)
      BY <1>7 DEF Lock
    <2>. QED
      BY <2>1, <2>2, <2>3, <2>4, <2>5, FailStep, ItemStep DEF Failures
  <1>8. CASE StartFails(r, k)
    <2> DEFINE new == [it EXCEPT !.at = "left"]
    <2>1. it \in ItemRows /\ ~it.committed
      BY <1>8, UnderWay DEF StartFails, Waiting
    <2>2. new \in ItemRows
      BY <2>1, Zenon DEF ItemRows
    <2>3. ~new.committed
      BY <2>1 DEF ItemRows
    <2>. QED
      BY <1>8, <2>1, <2>2, <2>3, ItemStep DEF StartFails
  <1>. QED
    BY <1>1, <1>2, <1>3, <1>4, <1>5, <1>6, <1>7, <1>8 DEF Work

-----------------------------------------------------------------------------
(***************************************************************************)
(* Runs begin and end.                                                     *)
(***************************************************************************)
LEMMA RunStep ==
    ASSUME IInv, NEW r \in RunIds, run[r] # NoRun, NEW new \in RunRows,
           new.provider = run[r].provider, new.process # "none",
           run' = [run EXCEPT ![r] = new], stops' \in 0..MaxStops,
           UNCHANGED <<source, bars, revisions, findings, item, changes>>
    PROVE  IInv'
  <1>1. /\ run' \in [RunIds -> RunRows] /\ run'[r] = new /\ new # NoRun
        /\ \A q \in RunIds : q # r => run'[q] = run[q]
    BY TypesOf DEF NoRun
  <1>2. TypeOK'
    BY <1>1 DEF IInv, TypeOK, RunRows
  <1>3. KeepsCommitted
    BY <1>1 DEF KeepsCommitted
  <1>4. RunsHold'
    BY <1>1 DEF IInv, RunsHold
  <1>5. ItemsHold'
    BY <1>1 DEF IInv, ItemsHold
  <1>. QED
    BY <1>2, <1>3, <1>4, <1>5, FindingsStay, HistoriesStay DEF IInv

LEMMA FinishRunStep ==
    ASSUME IInv, NEW r \in RunIds, FinishRun(r)
    PROVE  IInv'
  <1> DEFINE process == IF run[r].process = "up" THEN "returned" ELSE "gone"
             new     == [run[r] EXCEPT !.status = RunStatus(r), !.process = process]
  <1>1. run[r] \in RunRows /\ run[r] # NoRun
    BY TypesOf DEF FinishRun, Live, NoRun
  <1>2. RunStatus(r) \in Terminal
    BY DEF RunStatus, Terminal
  <1>3. new \in RunRows /\ new.provider = run[r].provider /\ new.process # "none"
    BY <1>1, <1>2 DEF RunRows
  <1>4. run' = [run EXCEPT ![r] = new]
    BY <1>1, TypesOf DEF FinishRun
  <1>5. stops' \in 0..MaxStops /\ UNCHANGED <<source, bars, revisions, findings, item, changes>>
    BY DEF FinishRun, IInv, TypeOK
  <1>. QED
    BY <1>1, <1>3, <1>4, <1>5, RunStep

LEMMA StopStep ==
    ASSUME IInv, NEW r \in RunIds, Stop(r)
    PROVE  IInv'
  <1>1. PICK process \in {"stopping", "gone"} : run' = [run EXCEPT ![r].process = process]
    BY DEF Stop
  <1> DEFINE new == [run[r] EXCEPT !.process = process]
  <1>2. run[r] \in RunRows /\ run[r] # NoRun
    BY TypesOf DEF Stop, Live, NoRun
  <1>3. new \in RunRows /\ new.provider = run[r].provider /\ new.process # "none"
    BY <1>2 DEF RunRows
  <1>4. run' = [run EXCEPT ![r] = new]
    BY <1>1, <1>2
  <1>5. stops' \in 0..MaxStops
    <2>1. stops \in 0..MaxStops /\ stops < MaxStops /\ stops' = stops + 1
      BY DEF Stop, IInv, TypeOK
    <2>. QED
      BY <2>1, ImportTypes
  <1>6. UNCHANGED <<source, bars, revisions, findings, item, changes>>
    BY DEF Stop
  <1>. QED
    BY <1>2, <1>3, <1>4, <1>5, <1>6, RunStep

LEMMA CreateRunStep ==
    ASSUME IInv, NEW r \in RunIds, NEW kind \in {"daily_update", "backfill", "retry", "fallback"},
           NEW provider \in {"primary", "fallback"}, NEW from, NEW to, NEW targets,
           \A k \in Instruments : k \in targets => from[k] \in Sessions /\ to[k] \in Sessions,
           CreateRun(r, kind, provider, from, to, targets)
    PROVE  IInv'
  <1> DEFINE new == [status |-> "running", kind |-> kind, provider |-> provider, process |-> "up"]
             row(k) == IF k \in targets THEN [NoItem EXCEPT !.status = "queued", !.from = from[k], !.to = to[k]]
                       ELSE NoItem
  <1>1. /\ run[r] = NoRun /\ run' = [run EXCEPT ![r] = new]
        /\ item' = [item EXCEPT ![r] = [k \in Instruments |-> row(k)]]
        /\ UNCHANGED <<source, bars, revisions, findings, changes, stops>>
    BY DEF CreateRun
  <1>2. ASSUME NEW k \in Instruments PROVE row(k) \in ItemRows /\ ~row(k).committed
    <2>1. CASE k \in targets
      <3>1. row(k) = [NoItem EXCEPT !.status = "queued", !.from = from[k], !.to = to[k]]
        BY <2>1
      <3>2. from[k] \in Sessions /\ to[k] \in Sessions
        BY <2>1
      <3>3. row(k) \in ItemRows
        BY <3>1, <3>2, FixedRows, Zenon DEF ItemRows
      <3>4. ~row(k).committed
        BY <3>1, FixedRows DEF ItemRows
      <3>. QED
        BY <3>3, <3>4
    <2>2. CASE k \notin targets
      BY <2>2, FixedRows
    <2>. QED
      BY <2>1, <2>2
  <1>. HIDE DEF row
  <1>3. /\ item' \in [RunIds -> [Instruments -> ItemRows]]
        /\ \A k \in Instruments : item'[r][k] = row(k)
        /\ \A q \in RunIds : q # r => item'[q] = item[q]
    BY <1>1, <1>2, TypesOf
  <1>4. /\ run' \in [RunIds -> RunRows] /\ run'[r] = new /\ new # NoRun
        /\ \A q \in RunIds : q # r => run'[q] = run[q]
    BY <1>1, TypesOf DEF RunRows, NoRun
  <1>5. TypeOK'
    BY <1>1, <1>3, <1>4 DEF IInv, TypeOK, RunRows, ItemRows
  <1>6. \A k \in Instruments : ~item[r][k].committed
    BY <1>1 DEF IInv, ItemsHold
  <1>7. KeepsCommitted
    BY <1>1, <1>3, <1>4, <1>6 DEF KeepsCommitted
  <1>8. RunsHold'
    BY <1>4 DEF IInv, RunsHold
  <1>9. ItemsHold'
    BY <1>2, <1>3, <1>4 DEF IInv, ItemsHold
  <1>. QED
    BY <1>1, <1>5, <1>7, <1>8, <1>9, FindingsStay, HistoriesStay DEF IInv

\* The windows of RunDue and of a backfill are widened to an unsettled finding's session.
LEMMA WidenedTyped ==
    ASSUME IInv, NEW k \in Instruments, NEW requested \in Sessions
    PROVE  WidenToUnsettled(requested, EarliestUnsettled(k)) \in Sessions
  <1> DEFINE unsettled == {f.session : f \in {g \in findings : /\ g.instrument = k
                                                               /\ g.status = "open"
                                                               /\ g.examined = 0}}
  <1>1. unsettled \in SUBSET Sessions
    <2>1. findings \subseteq Findings
      BY DEF IInv, TypeOK
    <2>2. \A f \in findings : f.session \in Sessions
      BY <2>1 DEF Findings
    <2>. QED
      BY <2>2
  <1>2. EarliestUnsettled(k) \in Sessions
    <2>1. CASE unsettled = {}
      BY <2>1, ImportTypes DEF EarliestUnsettled
    <2>2. CASE unsettled # {}
      <3>1. EarliestUnsettled(k) = CHOOSE s \in unsettled : \A t \in unsettled : s <= t
        BY <2>2 DEF EarliestUnsettled
      <3>. HIDE DEF unsettled
      <3>. QED
        BY <1>1, <2>2, <3>1, FirstOf
    <2>. QED
      BY <2>1, <2>2
  <1>. QED
    BY <1>2 DEF WidenToUnsettled

LEMMA BeginStep ==
    ASSUME IInv, Begin
    PROVE  IInv'
  <1>1. ASSUME NEW r \in RunIds, StartNightly(r) PROVE IInv'
    <2> DEFINE floor == LastSession - MaxReach + 1
               wide(k) == WidenToUnsettled(LastSession - Reobserve + 1, EarliestUnsettled(k))
               from == [k \in Instruments |-> IF wide(k) < floor THEN floor ELSE wide(k)]
               to   == [k \in Instruments |-> LastSession]
    <2>1. floor \in Sessions /\ LastSession - Reobserve + 1 \in Sessions
      BY ImportTypes DEF Sessions
    <2>2. \A k \in Instruments : wide(k) \in Sessions
      BY <2>1, WidenedTyped
    <2>3. \A k \in Instruments : from[k] \in Sessions /\ to[k] \in Sessions
      BY <2>1, <2>2, ImportTypes
    <2>4. CreateRun(r, "daily_update", "primary", from, to, Instruments)
      BY <1>1 DEF StartNightly
    <2>. HIDE DEF from, to
    <2>. QED
      BY <2>3, <2>4, CreateRunStep
  <1>2. ASSUME NEW r \in RunIds, NEW requested \in Sessions, StartBackfill(r, requested) PROVE IInv'
    <2> DEFINE from == [k \in Instruments |-> WidenToUnsettled(requested, EarliestUnsettled(k))]
               to   == [k \in Instruments |-> LastSession]
    <2>1. \A k \in Instruments : from[k] \in Sessions /\ to[k] \in Sessions
      BY WidenedTyped, ImportTypes
    <2>2. CreateRun(r, "backfill", "primary", from, to, Instruments)
      BY <1>2 DEF StartBackfill
    <2>. HIDE DEF from, to
    <2>. QED
      BY <2>1, <2>2, CreateRunStep
  <1>3. ASSUME NEW r \in RunIds, NEW parent \in RunIds, StartRetry(r, parent) PROVE IInv'
    <2> DEFINE from == [k \in Instruments |-> item[parent][k].from]
               to   == [k \in Instruments |-> item[parent][k].to]
               targets == {k \in Instruments : item[parent][k].status \in {"failed", "cancelled"}}
    <2>1. \A k \in Instruments : from[k] \in Sessions /\ to[k] \in Sessions
      BY TypesOf DEF ItemRows
    <2>2. CreateRun(r, "retry", "primary", from, to, targets)
      BY <1>3 DEF StartRetry
    <2>. HIDE DEF from, to, targets
    <2>. QED
      BY <2>1, <2>2, CreateRunStep
  <1>4. ASSUME NEW r \in RunIds, NEW night \in RunIds, StartCover(r, night) PROVE IInv'
    <2> DEFINE after(k) == CHOOSE s \in PrimarySessions(k) : \A t \in PrimarySessions(k) : t <= s
               targets  == {k \in Instruments :
                               /\ item[night][k].error = "provider_authentication"
                               /\ PrimarySessions(k) # {}
                               /\ after(k) + 1 <= item[night][k].to}
               from == [k \in Instruments |-> IF k \in targets THEN after(k) + 1 ELSE 1]
               to   == [k \in Instruments |-> item[night][k].to]
    <2>1. CreateRun(r, "fallback", "fallback", from, to, targets)
      BY <1>4 DEF StartCover
    <2>2. \A k \in Instruments : to[k] \in Sessions
      BY TypesOf DEF ItemRows
    <2>3. ASSUME NEW k \in targets PROVE from[k] \in Sessions
      <3>1. PrimarySessions(k) \in SUBSET Sessions /\ PrimarySessions(k) # {}
        BY DEF PrimarySessions
      <3>2. after(k) \in Sessions
        BY <3>1, LastOf
      <3>3. from[k] = after(k) + 1 /\ after(k) + 1 <= to[k] /\ k \in Instruments
        OBVIOUS
      <3>. HIDE DEF after, from, to, targets
      <3>. QED
        BY <2>2, <3>2, <3>3, ImportTypes DEF Sessions
    <2>. HIDE DEF from, to, targets
    <2>. QED
      BY <2>1, <2>2, <2>3, CreateRunStep
  <1>5. ASSUME NEW r \in RunIds, StartReconcile(r) PROVE IInv'
    <2> DEFINE covered(k) == {s \in Sessions : bars[k][s].provider = "fallback"}
               targets    == {k \in Instruments : covered(k) # {}}
               from == [k \in Instruments |-> IF k \in targets
                           THEN CHOOSE s \in covered(k) : \A t \in covered(k) : s <= t ELSE 1]
               to   == [k \in Instruments |-> IF k \in targets
                           THEN CHOOSE s \in covered(k) : \A t \in covered(k) : t <= s ELSE 1]
    <2>1. CreateRun(r, "backfill", "primary", from, to, targets)
      BY <1>5 DEF StartReconcile
    <2>2. ASSUME NEW k \in targets PROVE from[k] \in Sessions /\ to[k] \in Sessions
      <3>1. covered(k) \in SUBSET Sessions /\ covered(k) # {}
        OBVIOUS
      <3>2. /\ from[k] = CHOOSE s \in covered(k) : \A t \in covered(k) : s <= t
            /\ to[k] = CHOOSE s \in covered(k) : \A t \in covered(k) : t <= s
        OBVIOUS
      <3>. HIDE DEF covered, from, to
      <3>. QED
        BY <3>1, <3>2, FirstOf, LastOf
    <2>. HIDE DEF from, to, targets
    <2>. QED
      BY <2>1, <2>2, CreateRunStep
  <1>. QED
    BY <1>1, <1>2, <1>3, <1>4, <1>5 DEF Begin

-----------------------------------------------------------------------------
(***************************************************************************)
(* A commit.                                                               *)
(***************************************************************************)
\* No fallback bar follows a primary one.
Unspliced(h) == \A m, n \in DOMAIN h : m < n /\ h[m].provider = "primary" => h[n].provider = "primary"

LEMMA HistoryExtended ==
    ASSUME NEW h \in Seq(OldRows), Unspliced(h), NEW bar \in OldRows,
           bar.provider = "fallback" => h = <<>> \/ h[Len(h)].provider # "primary"
    PROVE  Unspliced(Append(h, bar))
  <1> DEFINE new == Append(h, bar)
  <1>1. /\ Len(h) \in Nat /\ DOMAIN h = 1..Len(h) /\ DOMAIN new = 1..(Len(h) + 1)
        /\ new[Len(h) + 1] = bar /\ \A n \in 1..Len(h) : new[n] = h[n]
    OBVIOUS
  <1>2. bar.provider \in {"primary", "fallback"}
    BY DEF OldRows
  <1>3. ASSUME NEW m \in 1..Len(h), h[m].provider = "primary" PROVE bar.provider = "primary"
    <2>1. h # <<>> /\ Len(h) \in 1..Len(h) /\ (m < Len(h) \/ m = Len(h))
      <3>1. Len(h) \in Nat /\ 1 <= m /\ m <= Len(h)
        BY <1>1
      <3>2. h = <<>> => Len(h) = 0
        OBVIOUS
      <3>. QED
        BY <3>1, <3>2
    <2>2. h[Len(h)].provider = "primary"
      BY <1>1, <1>3, <2>1 DEF Unspliced
    <2>. QED
      BY <1>2, <2>1, <2>2
  <1>. HIDE DEF new
  <1>4. ASSUME NEW m \in DOMAIN new, NEW n \in DOMAIN new, m < n, new[m].provider = "primary"
        PROVE  new[n].provider = "primary"
    <2>1. m \in 1..Len(h) /\ h[m].provider = "primary"
      BY <1>1, <1>4
    <2>2. CASE n = Len(h) + 1
      BY <1>1, <1>3, <2>1, <2>2
    <2>3. CASE n # Len(h) + 1
      <3>1. n \in 1..Len(h)
        BY <1>1, <2>3
      <3>. QED
        BY <1>1, <1>4, <2>1, <3>1 DEF Unspliced
    <2>. QED
      BY <2>2, <2>3
  <1>. QED
    BY <1>4 DEF Unspliced, new

LEMMA HistoryOfHolds ==
    ASSUME IInv, NEW k \in Instruments, NEW s \in Sessions
    PROVE  /\ HistoryOf(k, s) \in Seq(OldRows) /\ Unspliced(HistoryOf(k, s))
           /\ bars[k][s] = NoBar => HistoryOf(k, s) = <<>> /\ revisions[k][s] = <<>>
           /\ bars[k][s] # NoBar => /\ bars[k][s] \in OldRows
                                    /\ HistoryOf(k, s) = Append(revisions[k][s], bars[k][s])
                                    /\ HistoryOf(k, s)[Len(HistoryOf(k, s))] = bars[k][s]
  <1>1. revisions[k][s] \in Seq(OldRows)
    BY TypesOf
  <1>2. Unspliced(HistoryOf(k, s))
    BY DEF IInv, FallbackNeverSplices, Unspliced
  <1>3. \/ bars[k][s] = NoBar /\ revisions[k][s] = <<>>
        \/ bars[k][s] \in OldRows
    BY DEF IInv, BarsHold
  <1>. QED
    BY <1>1, <1>2, <1>3, FixedRows DEF HistoryOf

\* upsertBar for one session, and the revision it leaves.
LEMMA BarWritten ==
    ASSUME IInv, NEW k \in Instruments, NEW s \in Sessions, NEW bar \in OldRows,
           Writes(bars[k][s], bar.value, bar.provider),
           bars'[k][s] = bar,
           revisions'[k][s] = IF bars[k][s] # NoBar THEN Append(revisions[k][s], bars[k][s]) ELSE revisions[k][s]
    PROVE  /\ revisions'[k][s] \in Seq(OldRows)
           /\ Unspliced(HistoryOf(k, s)')
  <1> DEFINE h == HistoryOf(k, s)
  <1>1. h \in Seq(OldRows) /\ Unspliced(h) /\ revisions[k][s] \in Seq(OldRows)
    BY HistoryOfHolds, TypesOf
  <1>2. HistoryOf(k, s)' = Append(revisions'[k][s], bar)
    BY FixedRows DEF HistoryOf
  <1>3. CASE bars[k][s] = NoBar
    <2>1. revisions'[k][s] = revisions[k][s] /\ h = revisions[k][s] /\ h = <<>>
      BY <1>3, HistoryOfHolds
    <2>. HIDE DEF h
    <2>. QED
      BY <1>1, <1>2, <2>1, HistoryExtended
  <1>4. CASE bars[k][s] # NoBar
    <2>1. /\ revisions'[k][s] = Append(revisions[k][s], bars[k][s]) /\ bars[k][s] \in OldRows
          /\ h = Append(revisions[k][s], bars[k][s]) /\ h[Len(h)] = bars[k][s]
      BY <1>4, HistoryOfHolds
    <2>2. bar.provider = "fallback" => bars[k][s].provider # "primary"
      BY DEF Writes
    <2>. HIDE DEF h
    <2>3. Unspliced(Append(h, bar))
      BY <1>1, <2>1, <2>2, HistoryExtended
    <2>. QED
      BY <1>1, <1>2, <2>1, <2>3
  <1>. QED
    BY <1>3, <1>4

\* insertFinding, resolveSettledFindings and recordReexaminations by a run that commits.
LEMMA FindingsAfterHold ==
    ASSUME IInv, NEW r \in RunIds, NEW k \in Instruments, NEW it \in ItemRows, run[r] # NoRun,
           KeepsCommitted, item'[r][k] = it, it.committed, run' = run,
           ~item[r][k].committed, it.got = item[r][k].got, it.from = item[r][k].from, it.to = item[r][k].to,
           findings' = FindingsAfter(r, k, item[r][k])
    PROVE  findings' \subseteq Findings /\ FindingsHold'
  <1> DEFINE old == item[r][k]
  <1>0. findings \subseteq Findings /\ r \in Nat \ {0} /\ r \in 0..MaxRuns
    BY DEF IInv, TypeOK, RunIds
  <1>1. old \in ItemRows /\ Issues(it) = Issues(old)
    BY IssuesOf, TypesOf
  <1>2. CASE run[r].provider = "fallback"
    <2>1. UNCHANGED findings
      BY <1>2 DEF FindingsAfter
    <2>. QED
      BY <1>0, <2>1, FindingsStay
  <1>3. CASE run[r].provider # "fallback"
    <2>1. run[r].provider = "primary" /\ run'[r].provider = "primary"
      BY <1>3, TypesOf DEF IInv, RunsHold, RunRows
    <2>2. findings' = {Revisit(f, r, k, old) : f \in findings} \cup NewFindings(r, k, old)
      BY <1>3 DEF FindingsAfter
    <2>3. ASSUME NEW f \in Findings, f.instrument = k, Condition(f) \in Issues(old)
          PROVE  RaisedBy(f, r)'
      BY <1>1, <2>1, <2>3 DEF RaisedBy
    <2>4. ASSUME NEW f \in NewFindings(r, k, old)
          PROVE  /\ f \in Findings /\ RaisedBy(f, f.run)' /\ f.examined = 0 /\ f.status = "open"
      <3>1. PICK i \in Issues(old) : f = [instrument |-> k, session |-> i[1], rule |-> i[2], run |-> r,
                                          status |-> "open", examined |-> 0]
        BY DEF NewFindings
      <3>2. i = <<i[1], i[2]>> /\ i[1] \in Sessions /\ i[2] \in Rules
        BY <1>1, IssuesTyped
      <3>3. f \in Findings /\ f.run = r /\ f.instrument = k /\ f.examined = 0 /\ f.status = "open"
        BY <3>1, <3>2, ImportTypes DEF Findings
      <3>4. Condition(f) = i
        BY <3>1, <3>2 DEF Condition
      <3>. QED
        BY <2>3, <3>3, <3>4
    <2>5. ASSUME NEW g \in findings, NEW f, f = Revisit(g, r, k, old)
          PROVE  /\ f \in Findings /\ RaisedBy(f, f.run)'
                 /\ f.examined # 0 => f.examined # f.run /\ RaisedBy(f, f.examined)'
                 /\ f.status = "accepted" => f.examined # 0
      <3>1. g \in Findings /\ g.run \in RunIds /\ (g.examined # 0 => g.examined \in RunIds)
        BY <1>0 DEF Findings, RunIds
      <3>2. /\ RaisedBy(g, g.run)
            /\ g.examined # 0 => g.examined # g.run /\ RaisedBy(g, g.examined)
            /\ g.status = "accepted" => g.examined # 0
        BY DEF IInv, FindingsHold
      <3>3. RaisedBy(g, g.run)' /\ (g.examined # 0 => RaisedBy(g, g.examined)')
        BY <3>1, <3>2, RaisedByStays
      <3>4. CASE f = g
        BY <3>1, <3>2, <3>3, <3>4
      <3>5. CASE f = [g EXCEPT !.status = "resolved"]
        <4>1. /\ f \in Findings /\ f.instrument = g.instrument /\ f.run = g.run /\ f.examined = g.examined
              /\ f.status = "resolved" /\ f.session = g.session /\ f.rule = g.rule
          BY <3>1, <3>5 DEF Findings
        <4>2. Condition(f) = Condition(g)
          BY <4>1 DEF Condition
        <4>. QED
          BY <3>2, <3>3, <4>1, <4>2 DEF RaisedBy
      <3>6. CASE /\ f = [g EXCEPT !.examined = r] /\ g.run # r
                 /\ g.instrument = k /\ Condition(g) \in Issues(old)
        <4>1. /\ f \in Findings /\ f.instrument = g.instrument /\ f.run = g.run /\ f.examined = r
              /\ f.session = g.session /\ f.rule = g.rule
          BY <1>0, <3>1, <3>6 DEF Findings
        <4>2. Condition(f) = Condition(g)
          BY <4>1 DEF Condition
        <4>3. RaisedBy(f, f.run)'
          BY <3>3, <4>1, <4>2 DEF RaisedBy
        <4>4. RaisedBy(f, r)'
          BY <2>3, <3>6, <4>1, <4>2
        <4>. QED
          BY <1>0, <3>6, <4>1, <4>3, <4>4
      <3>7. f = g \/ f = [g EXCEPT !.status = "resolved"]
            \/ (f = [g EXCEPT !.examined = r] /\ g.run # r /\ g.instrument = k /\ Condition(g) \in Issues(old))
        BY <2>5 DEF Revisit
      <3>. QED
        BY <3>4, <3>5, <3>6, <3>7
    <2>. HIDE DEF old
    <2>6. \A f \in findings' : f \in NewFindings(r, k, old) \/ \E g \in findings : f = Revisit(g, r, k, old)
      BY <2>2
    <2>7. ASSUME NEW f \in findings'
          PROVE  /\ f \in Findings /\ RaisedBy(f, f.run)'
                 /\ f.examined # 0 => f.examined # f.run /\ RaisedBy(f, f.examined)'
                 /\ f.status = "accepted" => f.examined # 0
      <3>1. CASE f \in NewFindings(r, k, old)
        BY <2>4, <3>1
      <3>2. CASE \E g \in findings : f = Revisit(g, r, k, old)
        BY <2>5, <3>2
      <3>. QED
        BY <2>6, <3>1, <3>2
    <2>. QED
      BY <2>7 DEF FindingsHold
  <1>. QED
    BY <1>2, <1>3

LEMMA PersistStep ==
    ASSUME IInv, NEW r \in RunIds, NEW k \in Instruments, Persist(r, k)
    PROVE  IInv'
  <1> DEFINE it       == item[r][k]
             provider == run[r].provider
             after    == FindingsAfter(r, k, it)
             written  == {s \in Accepted(it.got) : Writes(bars[k][s], it.got[s], provider)}
             status   == IF UnknownRejections(k, it, after) = {} THEN "succeeded" ELSE "partial"
             new      == [it EXCEPT !.at = "none", !.committed = TRUE, !.status = status]
             bar(s)   == [value |-> it.got[s], provider |-> provider, run |-> r]
  <1>1. /\ run[r].process = "up" /\ it.at = "locked"
        /\ bars' = [bars EXCEPT ![k] = [s \in Sessions |-> IF s \in written THEN bar(s) ELSE bars[k][s]]]
        /\ revisions' = [revisions EXCEPT ![k] = [s \in Sessions |->
                IF s \in written /\ bars[k][s] # NoBar THEN Append(revisions[k][s], bars[k][s])
                ELSE revisions[k][s]]]
        /\ findings' = after
        /\ SetItem(r, k, new)
    BY TypesOf DEF Persist
  <1>2. it \in ItemRows /\ ~it.committed
    BY <1>1, UnderWay
  <1>3. run[r] # NoRun /\ provider \in {"primary", "fallback"}
    BY <1>1, TypesOf DEF IInv, RunsHold, RunRows, NoRun
  <1>4. /\ new \in ItemRows /\ new.committed /\ new.at = "none" /\ new.status \in {"succeeded", "partial"}
        /\ new.got = it.got /\ new.from = it.from /\ new.to = it.to
    <2>. HIDE DEF it
    <2>1. status \in {"succeeded", "partial"} /\ status \in Terminal
      BY DEF Terminal
    <2>. HIDE DEF status
    <2>2. new \in ItemRows
      BY <1>2, <2>1, Zenon DEF ItemRows
    <2>. QED
      BY <1>2, <2>1, <2>2 DEF ItemRows
  <1>5. ASSUME NEW s \in written
        PROVE  s \in Sessions /\ it.got[s] \in Values /\ bar(s) \in OldRows /\ Writes(bars[k][s], it.got[s], provider)
    <2>1. s \in Sessions /\ it.got[s] \in Values /\ Writes(bars[k][s], it.got[s], provider)
      BY DEF Accepted
    <2>2. r \in 0..MaxRuns
      BY ImportTypes DEF RunIds
    <2>. QED
      BY <1>3, <2>1, <2>2 DEF OldRows
  <1>. HIDE DEF written, bar, status, after
  <1>6. /\ \A s \in Sessions : bars'[k][s] = IF s \in written THEN bar(s) ELSE bars[k][s]
        /\ \A j \in Instruments : j # k => bars'[j] = bars[j] /\ revisions'[j] = revisions[j]
        /\ \A s \in Sessions : revisions'[k][s] =
              IF s \in written /\ bars[k][s] # NoBar THEN Append(revisions[k][s], bars[k][s]) ELSE revisions[k][s]
        /\ bars' = [j \in Instruments |-> bars'[j]] /\ bars'[k] = [s \in Sessions |-> bars'[k][s]]
        /\ revisions' = [j \in Instruments |-> revisions'[j]] /\ revisions'[k] = [s \in Sessions |-> revisions'[k][s]]
    BY <1>1, TypesOf
  <1>7. ASSUME NEW s \in Sessions
        PROVE  /\ bars'[k][s] \in BarRows /\ revisions'[k][s] \in Seq(OldRows)
               /\ (bars'[k][s] = NoBar /\ revisions'[k][s] = <<>>) \/ bars'[k][s] \in OldRows
               /\ Unspliced(HistoryOf(k, s)')
    <2>1. CASE s \in written
      <3>1. /\ bars'[k][s] = bar(s) /\ bar(s) \in OldRows
            /\ revisions'[k][s] = IF bars[k][s] # NoBar THEN Append(revisions[k][s], bars[k][s]) ELSE revisions[k][s]
            /\ Writes(bars[k][s], bar(s).value, bar(s).provider)
        BY <1>5, <1>6, <2>1 DEF bar
      <3>2. bar(s) \in BarRows
        BY <3>1 DEF OldRows, BarRows
      <3>3. revisions'[k][s] \in Seq(OldRows) /\ Unspliced(HistoryOf(k, s)')
        BY <3>1, BarWritten
      <3>. QED
        BY <3>1, <3>2, <3>3
    <2>2. CASE s \notin written
      <3>1. bars'[k][s] = bars[k][s] /\ revisions'[k][s] = revisions[k][s]
        BY <1>6, <2>2
      <3>2. HistoryOf(k, s)' = HistoryOf(k, s)
        BY <3>1 DEF HistoryOf
      <3>. QED
        BY <3>1, <3>2, HistoryOfHolds, TypesOf
    <2>. QED
      BY <2>1, <2>2
  <1>8. BarsHold'
    <2>1. ASSUME NEW j \in Instruments, NEW s \in Sessions
          PROVE  (bars'[j][s] = NoBar /\ revisions'[j][s] = <<>>) \/ bars'[j][s] \in OldRows
      <3>1. CASE j = k
        BY <1>7, <3>1
      <3>2. CASE j # k
        BY <1>6, <3>2 DEF IInv, BarsHold
      <3>. QED
        BY <3>1, <3>2
    <2>. QED
      BY <2>1 DEF BarsHold
  <1>9. FallbackNeverSplices'
    <2>1. ASSUME NEW j \in Instruments, NEW s \in Sessions
          PROVE  Unspliced(HistoryOf(j, s)')
      <3>1. CASE j = k
        BY <1>7, <3>1
      <3>2. CASE j # k
        <4>1. HistoryOf(j, s)' = HistoryOf(j, s)
          BY <1>6, <3>2 DEF HistoryOf
        <4>. QED
          BY <4>1, HistoryOfHolds
      <3>. QED
        BY <3>1, <3>2
    <2>. QED
      BY <2>1, Zenon DEF Unspliced, FallbackNeverSplices
  <1>10. /\ item' \in [RunIds -> [Instruments -> ItemRows]] /\ item'[r][k] = new
         /\ \A q \in RunIds, j \in Instruments : q # r \/ j # k => item'[q][j] = item[q][j]
    <2>1. item' = [item EXCEPT ![r] = [item[r] EXCEPT ![k] = new]]
      BY <1>1 DEF SetItem
    <2>. HIDE DEF new
    <2>. QED
      BY <1>4, <2>1, TypesOf
  <1>11. UNCHANGED <<source, run, changes, stops>>
    BY <1>1 DEF SetItem
  <1>12. KeepsCommitted
    BY <1>2, <1>10, <1>11 DEF KeepsCommitted
  <1>13. findings' \subseteq Findings /\ FindingsHold'
    <2>1. findings' = FindingsAfter(r, k, item[r][k])
      BY <1>1 DEF after
    <2>2. run' = run
      BY <1>11
    <2>. HIDE DEF new
    <2>. QED
      BY <1>2, <1>3, <1>4, <1>10, <1>12, <2>1, <2>2, FindingsAfterHold
  <1>14. TypeOK'
    <2>1. bars' \in [Instruments -> [Sessions -> BarRows]] /\ revisions' \in [Instruments -> [Sessions -> Seq(OldRows)]]
      <3>1. ASSUME NEW j \in Instruments
            PROVE  bars'[j] \in [Sessions -> BarRows] /\ revisions'[j] \in [Sessions -> Seq(OldRows)]
        <4>1. CASE j = k
          BY <1>6, <1>7, <4>1
        <4>2. CASE j # k
          BY <1>6, <4>2, TypesOf
        <4>. QED
          BY <4>1, <4>2
      <3>. QED
        BY <1>6, <3>1
    <2>. QED
      BY <1>10, <1>11, <1>13, <2>1 DEF IInv, TypeOK, ItemRows, BarRows, OldRows
  <1>15. RunsHold'
    BY <1>11 DEF IInv, RunsHold
  <1>16. ItemsHold'
    <2>. HIDE DEF new
    <2>. QED
      BY <1>3, <1>4, <1>10, <1>11 DEF IInv, ItemsHold
  <1>. QED
    BY <1>8, <1>9, <1>13, <1>14, <1>15, <1>16 DEF IInv

\* The owner accepts a finding that a second run raised again.
LEMMA AcceptFindingStep ==
    ASSUME IInv, NEW g \in findings, AcceptFinding(g)
    PROVE  IInv'
  <1> DEFINE new == [g EXCEPT !.status = "accepted"]
  <1>1. /\ g.examined # 0 /\ findings' = (findings \ {g}) \cup {new}
        /\ UNCHANGED <<source, bars, revisions, run, item, changes, stops>>
    BY DEF AcceptFinding
  <1>2. g \in Findings
    BY DEF IInv, TypeOK
  <1>3. /\ new \in Findings /\ new.run = g.run /\ new.examined = g.examined /\ new.instrument = g.instrument
        /\ new.session = g.session /\ new.rule = g.rule
    BY <1>2 DEF Findings
  <1>4. KeepsCommitted
    BY <1>1 DEF KeepsCommitted
  <1>5. ASSUME NEW f \in findings'
        PROVE  /\ RaisedBy(f, f.run)'
               /\ f.examined # 0 => f.examined # f.run /\ RaisedBy(f, f.examined)'
               /\ f.status = "accepted" => f.examined # 0
    <2>1. PICK e \in findings : /\ e.run = f.run /\ e.examined = f.examined /\ e.instrument = f.instrument
                                /\ e.session = f.session /\ e.rule = f.rule
                                /\ e.status = f.status \/ f.examined # 0
      <3>1. CASE f = new
        BY <1>1, <1>3, <3>1
      <3>2. CASE f # new
        BY <1>1, <3>2
      <3>. QED
        BY <3>1, <3>2
    <2>2. e \in Findings /\ e.run \in RunIds /\ (e.examined # 0 => e.examined \in RunIds)
      <3>1. e \in Findings
        BY DEF IInv, TypeOK
      <3>. QED
        BY <3>1 DEF Findings, RunIds
    <2>3. /\ RaisedBy(e, e.run)
          /\ e.examined # 0 => e.examined # e.run /\ RaisedBy(e, e.examined)
          /\ e.status = "accepted" => e.examined # 0
      BY DEF IInv, FindingsHold
    <2>4. RaisedBy(e, e.run)' /\ (e.examined # 0 => RaisedBy(e, e.examined)')
      BY <1>4, <2>2, <2>3, RaisedByStays
    <2>5. Condition(e) = Condition(f)
      BY <2>1 DEF Condition
    <2>. QED
      BY <2>1, <2>3, <2>4, <2>5 DEF RaisedBy
  <1>6. FindingsHold'
    BY <1>5 DEF FindingsHold
  <1>7. findings' \subseteq Findings
    BY <1>1, <1>3 DEF IInv, TypeOK
  <1>8. TypeOK'
    BY <1>1, <1>7 DEF IInv, TypeOK
  <1>9. RunsHold' /\ ItemsHold'
    BY <1>1 DEF IInv, RunsHold, ItemsHold
  <1>. QED
    BY <1>1, <1>6, <1>8, <1>9, HistoriesStay DEF IInv

LEMMA SourceSaysStep ==
    ASSUME IInv, NEW k \in Instruments, NEW s \in Sessions, NEW answer \in Answers, SourceSays(k, s, answer)
    PROVE  IInv'
  <1>1. UNCHANGED <<bars, revisions, findings, run, item, stops>>
    BY DEF SourceSays
  <1>2. source' \in [Instruments -> [Sessions -> Answers]]
    BY DEF SourceSays, IInv, TypeOK
  <1>3. changes' \in 0..MaxChanges
    <2>1. changes \in 0..MaxChanges /\ changes < MaxChanges /\ changes' = changes + 1
      BY DEF SourceSays, IInv, TypeOK
    <2>. QED
      BY <2>1, ImportTypes
  <1>4. TypeOK'
    BY <1>1, <1>2, <1>3 DEF IInv, TypeOK
  <1>5. KeepsCommitted
    BY <1>1 DEF KeepsCommitted
  <1>6. RunsHold' /\ ItemsHold'
    BY <1>1 DEF IInv, RunsHold, ItemsHold
  <1>. QED
    BY <1>1, <1>4, <1>5, <1>6, FindingsStay, HistoriesStay DEF IInv

-----------------------------------------------------------------------------
(***************************************************************************)
(* The theorems.                                                           *)
(***************************************************************************)
LEMMA InvStep == IInv /\ [Next]_vars => IInv'
  <1> SUFFICES ASSUME IInv, [Next]_vars PROVE IInv'
    OBVIOUS
  <1>1. CASE Begin
    BY <1>1, BeginStep
  <1>2. ASSUME NEW r \in RunIds, NEW k \in Instruments, Work(r, k) PROVE IInv'
    BY <1>2, WorkStep, PersistStep
  <1>3. ASSUME NEW r \in RunIds, FinishRun(r) \/ Stop(r) PROVE IInv'
    BY <1>3, FinishRunStep, StopStep
  <1>4. ASSUME NEW f \in findings, AcceptFinding(f) PROVE IInv'
    BY <1>4, AcceptFindingStep
  <1>5. ASSUME NEW k \in Instruments, NEW s \in Sessions, NEW answer \in Answers, SourceSays(k, s, answer)
        PROVE  IInv'
    BY <1>5, SourceSaysStep
  <1>6. CASE UNCHANGED vars
    <2>1. UNCHANGED <<source, bars, revisions, findings, run, item, changes, stops>>
      BY <1>6 DEF vars
    <2>2. TypeOK' /\ RunsHold' /\ ItemsHold'
      BY <2>1 DEF IInv, TypeOK, RunsHold, ItemsHold
    <2>3. KeepsCommitted
      BY <2>1 DEF KeepsCommitted
    <2>. QED
      BY <2>1, <2>2, <2>3, FindingsStay, HistoriesStay DEF IInv
  <1>. QED
    BY <1>1, <1>2, <1>3, <1>4, <1>5, <1>6 DEF Next

\* Whichever runs overlap, are stopped, retried or reconciled, the conjuncts of the
\* invariant hold: bars and what they replaced, runs, items and findings agree.
THEOREM Invariance == Spec => []IInv
  BY InvInit, InvStep, PTL DEF Spec

\* upsertBar never writes a fallback bar where the primary has spoken, in any order of
\* the nightly pass, its cover, a backfill, a retry and a reconciliation.
THEOREM NeverSpliced == Spec => []FallbackNeverSplices
  <1>1. IInv => FallbackNeverSplices
    BY DEF IInv
  <1>. QED
    BY Invariance, <1>1, PTL

\* recordReexaminations and AcceptFinding: an accepted finding was raised by two
\* committed imports of different runs, both from the primary.
THEOREM RaisedTwice == Spec => []DecisionsRestOnTwoRuns
  <1>1. ASSUME IInv PROVE DecisionsRestOnTwoRuns
    <2>1. ASSUME NEW f \in findings, f.status = "accepted"
          PROVE  RaisedBy(f, f.run) /\ \E r \in RunIds \ {f.run} : RaisedBy(f, r)
      <3>1. RaisedBy(f, f.run) /\ f.examined # f.run /\ RaisedBy(f, f.examined) /\ f.examined # 0
        BY <1>1, <2>1 DEF IInv, FindingsHold
      <3>2. f.examined \in 0..MaxRuns
        BY <1>1 DEF IInv, TypeOK, Findings
      <3>3. f.examined \in RunIds
        BY <3>1, <3>2 DEF RunIds
      <3>. QED
        BY <3>1, <3>3
    <2>. QED
      BY <2>1, Zenon DEF RaisedBy, DecisionsRestOnTwoRuns
  <1>. QED
    BY Invariance, <1>1, PTL
=============================================================================

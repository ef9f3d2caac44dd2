---------------------------- MODULE SignalsProofs ----------------------------
(***************************************************************************)
(* What the feature store holds, for every universe, history and schedule  *)
(* of imports, passes and failures.                                        *)
(***************************************************************************)
EXTENDS Signals, FiniteSetTheorems, WellFoundedInduction, TLAPS

-----------------------------------------------------------------------------
(***************************************************************************)
(* The inductive invariant.  A bar "touches" a row when the row's window,  *)
(* or a composite the row reads, may contain it; a row may be out of date  *)
(* only while a run that a touching bar's import asked for has not         *)
(* written it.                                                             *)
(***************************************************************************)
\* The bar of j at t was stored or revised by an import whose pass is due.
Open(j, t) == \E r \in due : t \in SessionsTouchedByRun(r)[j]

Row(i, s, d) == RowAt(bars, split, CompositeSeries(bars, split), i, s, d)

Moved(i, s, d) == \E j \in Instruments, t \in Sessions : Open(j, t) /\ Near(i, s, d, j, t)

Fresh(i, s, d) == values[i][s][d] = Row(i, s, d) \/ Moved(i, s, d)

CompositeMoved(s) == \E j \in Instruments, t \in Sessions : Open(j, t) /\ NearComposite(s, j, t)

CompositeFresh(s) == composites[s] = CompositeAt(bars, split, s) \/ CompositeMoved(s)

Working(run) == run.phase \in {"loading", "computing"}

\* What a run has still to write because of the bars it was begun for.
Owes(run, i, s, d) ==
    /\ Working(run) /\ (run.phase = "computing" => i \in run.todo)
    /\ Moves(run.touched, i, s, d)

OwesComposite(run, s) == run.phase = "loading" /\ MovesComposite(run.touched, s)

\* A history is an earlier one that has grown: bars only come, none before the
\* first; a split came after every bar there was.
GrewAt(h, sp, h2, sp2, i) ==
    /\ \A s \in Sessions : h[i][s] > 0 => h2[i][s] > 0
    /\ \A s, u \in Sessions : h2[i][s] > 0 /\ h[i][u] > 0 =>
          \E v \in Sessions : v <= s /\ h[i][v] > 0
    /\ sp2[i] = sp[i] \/ (sp[i] = 0 /\ \A s \in Sessions : h[i][s] > 0 => s < sp2[i])

Loaded(run, i) == run.phase = "computing" \/ i \notin run.todo

\* What a run has loaded is what is stored, but for what an import has changed
\* since; that import's pass is due.
LoadHolds(run) ==
    \A i \in Instruments : Loaded(run, i) =>
        /\ GrewAt(run.hist, run.split, bars, split, i)
        /\ \A s \in Sessions : run.hist[i][s] = bars[i][s] \/ Open(i, s)
        /\ \A s \in run.touched[i] : run.hist[i][s] > 0

\* Where another run was beside it, nothing is claimed.
Lost == AllRows \subseteq missed.rows /\ Sessions \subseteq missed.series

\* What an incremental run overlooks stays missed until it writes that member.
OverlookedHolds(run) ==
    \A i \in Instruments, s \in Sessions, d \in Defs :
        (/\ <<i, s, d>> \in Overlooked(run.touched)
         /\ run.phase = "computing" => i \in run.todo) => <<i, s, d>> \in missed.rows

\* A run with no other beside it, or nothing is claimed.
RunHolds(p) ==
    LET run == pass[p]
    IN  Working(run) =>
          /\ run.clean \/ Lost
          /\ run.clean => (\A q \in Passes \ {p} : ~ Working(pass[q])) /\ LoadHolds(run)
          /\ run.phase = "computing" => run.series = CompositeSeries(run.hist, run.split)
          /\ (run.clean /\ run.kind = "incremental") => OverlookedHolds(run)
          /\ run.kind # "incremental" => \A i \in Instruments : run.touched[i] = {}

Histories ==
    {h \in [Instruments -> [Sessions -> Nat]] :
        \A i \in Instruments, s \in Sessions : h[i][s] > 0 => s \in Calendar[i]}

Splits == [Instruments -> Sessions \cup {0}]

RunShape(run) ==
    /\ run = [f \in DOMAIN Idle |-> run[f]]
    /\ run.clean \in BOOLEAN
    /\ run.todo \subseteq Instruments /\ run.failed \subseteq Instruments
    /\ run.touched \in [Instruments -> SUBSET Sessions]
    /\ run.hist \in Histories /\ run.split \in Splits

Shapes ==
    /\ bars \in Histories /\ split \in Splits
    /\ stamp \in [Instruments -> [Sessions -> Nat]]
    /\ imports \in Nat /\ due \subseteq 1..imports
    /\ revised \subseteq Instruments \X Sessions \X Nat
    /\ values = [i \in Instruments |-> [s \in Sessions |-> [d \in Defs |-> values[i][s][d]]]]
    /\ composites = [s \in Sessions |-> composites[s]]
    /\ missed = [rows |-> missed.rows, series |-> missed.series]
    /\ pass = [p \in Passes |-> pass[p]]
    /\ \A p \in Passes : RunShape(pass[p])

\* What an import or a run names as touched has a bar.
TouchedHaveBars ==
    /\ \A i \in Instruments, s \in Sessions : stamp[i][s] > 0 => bars[i][s] > 0
    /\ \A x \in revised : bars[x[1]][x[2]] > 0
    /\ \A p \in Passes, i \in Instruments : \A s \in pass[p].touched[i] : bars[i][s] > 0

\* Nothing is stored at a session without a bar.
NoRowsAhead ==
    /\ \A i \in Instruments, s \in Sessions, d \in Defs : bars[i][s] = 0 => values[i][s][d] = NoRow
    /\ \A s \in Sessions : CompositeAt(bars, split, s) = NoComposite => composites[s] = NoComposite
    /\ \A p \in Passes : Working(pass[p]) =>
          \A i \in Instruments, s \in Sessions : pass[p].hist[i][s] > 0 => bars[i][s] > 0

ValuesHold ==
    \A i \in Instruments, s \in Sessions, d \in Defs :
        \/ <<i, s, d>> \in missed.rows
        \/ Fresh(i, s, d)
        \/ \E p \in Passes : Owes(pass[p], i, s, d)

CompositesHold ==
    \A s \in Sessions :
        \/ s \in missed.series
        \/ CompositeFresh(s)
        \/ \E p \in Passes : OwesComposite(pass[p], s)

IInv == Shapes /\ TouchedHaveBars /\ NoRowsAhead /\ (\A p \in Passes : RunHolds(p)) /\ ValuesHold /\ CompositesHold

-----------------------------------------------------------------------------
(***************************************************************************)
(* Sessions are an interval: sets of them have a first and a last element. *)
(***************************************************************************)
\* A set of numbers has a least one.
LEMMA LeastNumber ==
    ASSUME NEW S \in SUBSET Nat, S # {}
    PROVE  \E s \in S : \A t \in S : s <= t
  <1> DEFINE R == OpToRel(<, Nat)
  <1>1. IsWellFoundedOn(R, Nat)
    BY NatLessThanWellFounded
  <1>2. \A y, x \in Nat : y < x => <<y, x>> \in R
    BY DEF OpToRel
  <1>. HIDE DEF R
  <1>3. PICK s \in S : \A t \in S : ~(<<t, s>> \in R)
    BY <1>1, WFMin
  <1>4. ASSUME NEW t \in S PROVE s <= t
    <2>1. ~(t < s)
      BY <1>2, <1>3, Zenon
    <2>. QED
      BY <2>1
  <1>. QED
    BY <1>4

\* Sessions are 1..n for some n.
LEMMA SessionsAreAnInterval == \E n \in Nat : Sessions = 1..n
  BY SessionAssumption, FS_CardinalityType

\* Every session is a positive number.
LEMMA SessionsAreNumbers == Sessions \subseteq Nat \ {0}
  BY SessionsAreAnInterval

\* A set of sessions has a first one.
LEMMA FirstOf ==
    ASSUME NEW S \in SUBSET Sessions, S # {}
    PROVE  Min(S) \in S /\ \A x \in S : Min(S) <= x
  <1>1. \E s \in S : \A t \in S : s <= t
    BY LeastNumber, SessionsAreNumbers
  <1>. QED
    BY <1>1 DEF Min

\* A set of sessions, or of sessions and 0, has a last element.
LEMMA LastOf ==
    ASSUME NEW S \in SUBSET (Sessions \cup {0}), S # {}
    PROVE  Max(S) \in S /\ \A x \in S : x <= Max(S)
  <1>1. PICK n \in Nat : Sessions = 1..n
    BY SessionsAreAnInterval
  <1> DEFINE D == {n - x : x \in S}
  <1>0. \A x \in S : x \in Nat /\ x <= n /\ n - x \in Nat
    BY <1>1
  <1>2. D \in SUBSET Nat /\ D # {}
    BY <1>0
  <1>3. PICK d \in D : \A e \in D : d <= e
    BY <1>2, LeastNumber
  <1>4. PICK s \in S : d = n - s
    BY <1>3
  <1>5. ASSUME NEW x \in S PROVE s >= x
    <2>1. d <= n - x
      BY <1>3
    <2>. QED
      BY <1>0, <1>4, <2>1
  <1>6. \E x \in S : \A y \in S : x >= y
    BY <1>5
  <1>7. Max(S) \in S /\ \A x \in S : Max(S) >= x
    BY <1>6 DEF Max
  <1>. QED
    BY <1>1, <1>7

\* Positions are numbers and grow with the sessions.
LEMMA Positions ==
    ASSUME NEW i \in Instruments, NEW s \in Sessions
    PROVE  /\ Position[i][s] \in Nat
           /\ \A u \in Sessions : s <= u => Position[i][s] <= Position[i][u]
  <1> DEFINE Until(u) == {t \in Calendar[i] : t <= u}
  <1>1. Calendar[i] \subseteq Sessions /\ Sessions \subseteq Nat
    BY CalendarAssumption, SessionsAreNumbers
  <1>2. ASSUME NEW u \in Sessions
        PROVE  IsFiniteSet(Until(u)) /\ Position[i][u] = Cardinality(Until(u))
    <2>1. Until(u) \subseteq Sessions
      BY <1>1
    <2>. QED
      BY <2>1, SessionAssumption, FS_Subset DEF Position
  <1>3. ASSUME NEW u \in Sessions, s <= u PROVE Until(s) \subseteq Until(u)
    <2>1. ASSUME NEW t \in Calendar[i], t <= s PROVE t <= u
      <3>1. t \in Nat /\ s \in Nat /\ u \in Nat
        BY <1>1
      <3>. QED
        BY <1>3, <2>1, <3>1
    <2>. QED
      BY <2>1
  <1>. HIDE DEF Until
  <1>4. \A u \in Sessions : s <= u => Cardinality(Until(s)) <= Cardinality(Until(u))
    BY <1>2, <1>3, FS_Subset
  <1>. QED
    BY <1>2, <1>4, FS_CardinalityType

\* A window reaches back from its session, over sessions of its exchange.
LEMMA WindowsReachBack ==
    ASSUME NEW i \in Instruments, NEW s \in Sessions, NEW n \in {2, OwnWindow, UserWindow}
    PROVE  /\ WindowSessions[i][s][n] \subseteq Calendar[i] /\ Calendar[i] \subseteq Sessions
           /\ \A t \in WindowSessions[i][s][n] : t <= s /\ Position[i][s] - Position[i][t] < n
           /\ s \in Calendar[i] => s \in WindowSessions[i][s][n]
  <1>1. WindowSessions[i][s][n] = {t \in Calendar[i] : t <= s /\ Position[i][s] - Position[i][t] < n}
    BY DEF WindowSessions
  <1>2. n \in Nat \ {0} /\ s \in Nat /\ Position[i][s] \in Nat
    BY WindowAssumption, SessionsAreNumbers, Positions
  <1>3. Calendar[i] \subseteq Sessions
    BY CalendarAssumption
  <1>4. s <= s /\ Position[i][s] - Position[i][s] < n
    BY <1>2
  <1>. QED
    BY <1>1, <1>3, <1>4

\* What a row or a composite rests on is not after it.
LEMMA NearIsPast ==
    ASSUME NEW i \in Instruments, NEW s \in Sessions, NEW d \in Defs,
           NEW j \in Instruments, NEW t \in Sessions
    PROVE  /\ NearComposite(s, j, t) => t <= s
           /\ Near(i, s, d, j, t) => t <= s
  <1>1. ASSUME NEW u \in Sessions PROVE NearComposite(u, j, t) => t <= u
    BY WindowsReachBack DEF NearComposite
  <1>2. WindowOf(d) \in {2, OwnWindow, UserWindow}
    BY DEF WindowOf
  <1>3. /\ WindowSessions[i][s][WindowOf(d)] \subseteq Sessions
        /\ \A u \in WindowSessions[i][s][WindowOf(d)] : u <= s
    BY <1>2, WindowsReachBack
  <1>4. ASSUME NEW u \in ReadSessions(i, s, d), NearComposite(u, j, t) PROVE t <= s
    <2>1. u \in Sessions /\ u <= s
      BY <1>3 DEF ReadSessions
    <2>2. t <= u
      BY <1>1, <1>4, <2>1
    <2>. QED
      BY <2>1, <2>2, SessionsAreNumbers
  <1>. QED
    BY <1>1, <1>3, <1>4 DEF Near

-----------------------------------------------------------------------------
(***************************************************************************)
(* What a row rests on.  Two histories, one grown from the other, that     *)
(* agree on the bars near a row give the same row.                         *)
(***************************************************************************)
LEMMA BarsAreSessions ==
    ASSUME NEW h \in Histories, NEW i \in Instruments
    PROVE  /\ BarsOf(h, i) = {s \in Sessions : h[i][s] > 0}
           /\ BarsOf(h, i) \subseteq Calendar[i] /\ BarsOf(h, i) \subseteq Sessions
  BY CalendarAssumption DEF BarsOf, Histories

\* A history that has grown begins where it began.
LEMMA FirstBarStays ==
    ASSUME NEW i \in Instruments, NEW h \in Histories, NEW h2 \in Histories,
           NEW sp, NEW sp2, GrewAt(h, sp, h2, sp2, i), NEW s \in Sessions, h[i][s] > 0
    PROVE  Min(BarsOf(h, i)) = Min(BarsOf(h2, i))
  <1> DEFINE B == BarsOf(h, i)
             C == BarsOf(h2, i)
  <1>1. B = {t \in Sessions : h[i][t] > 0} /\ C = {t \in Sessions : h2[i][t] > 0}
    BY BarsAreSessions
  <1>2. s \in B /\ s \in C
    BY <1>1 DEF GrewAt
  <1>3. Min(B) \in B /\ \A x \in B : Min(B) <= x
    BY <1>1, <1>2, FirstOf
  <1>4. Min(C) \in C /\ \A x \in C : Min(C) <= x
    BY <1>1, <1>2, FirstOf
  <1>5. Min(C) <= Min(B)
    BY <1>1, <1>3, <1>4 DEF GrewAt
  <1>6. PICK v \in Sessions : v <= Min(C) /\ h[i][v] > 0
    BY <1>1, <1>2, <1>4 DEF GrewAt
  <1>7. Min(B) <= v
    BY <1>1, <1>3, <1>6
  <1>8. Min(B) \in Nat /\ Min(C) \in Nat /\ v \in Nat
    BY <1>1, <1>3, <1>4, SessionsAreNumbers
  <1>. HIDE DEF B, C
  <1>9. Min(B) = Min(C)
    BY <1>5, <1>6, <1>7, <1>8
  <1>. QED
    BY <1>9 DEF B, C

\* Why a window is refused rests on the bars of that window alone.
LEMMA ReasonAgrees ==
    ASSUME NEW i \in Instruments, NEW h \in Histories, NEW h2 \in Histories,
           NEW sp, NEW sp2, GrewAt(h, sp, h2, sp2, i), NEW s \in Sessions, h[i][s] > 0,
           NEW n \in {2, OwnWindow, UserWindow},
           \A t \in WindowSessions[i][s][n] : h[i][t] = h2[i][t]
    PROVE  WindowReason(h, i, s, n) = WindowReason(h2, i, s, n)
  <1>1. Min(BarsOf(h, i)) = Min(BarsOf(h2, i))
    BY FirstBarStays
  <1>2. WindowSessions[i][s][n] \subseteq Sessions
    BY WindowsReachBack
  <1>3. WindowSessions[i][s][n] \subseteq BarsOf(h, i) <=> WindowSessions[i][s][n] \subseteq BarsOf(h2, i)
    BY <1>2, BarsAreSessions
  <1>. QED
    BY <1>1, <1>3 DEF WindowReason

\* A window reads the same of a grown history whose bars in it are the same:
\* a split that came later lies beyond it.
LEMMA WindowAgrees ==
    ASSUME NEW i \in Instruments, NEW h \in Histories, NEW h2 \in Histories,
           NEW sp \in Splits, NEW sp2 \in Splits,
           GrewAt(h, sp, h2, sp2, i), NEW s \in Sessions, h[i][s] > 0,
           NEW n \in {2, OwnWindow, UserWindow},
           \A t \in WindowSessions[i][s][n] : h[i][t] = h2[i][t]
    PROVE  Window(h, sp, i, s, n) = Window(h2, sp2, i, s, n)
  <1>0. sp[i] \in Sessions \cup {0} /\ sp2[i] \in Sessions \cup {0}
    BY DEF Splits
  <1>1. sp[i] \in Nat /\ sp2[i] \in Nat /\ s \in Nat
    <2>1. Sessions \cup {0} \subseteq Nat
      BY SessionsAreNumbers
    <2>2. s \in Sessions \cup {0}
      OBVIOUS
    <2>. QED
      BY <1>0, <2>1, <2>2, Zenon
  <1>2. sp2[i] = sp[i] \/ (sp[i] = 0 /\ s < sp2[i])
    BY DEF GrewAt
  <1>3. ASSUME NEW t \in WindowSessions[i][s][n]
        PROVE  Adjusted(h, sp, i, t, s) = Adjusted(h2, sp2, i, t, s)
    <2>1. (sp[i] # 0 /\ t < sp[i] /\ sp[i] <= s) <=> (sp2[i] # 0 /\ t < sp2[i] /\ sp2[i] <= s)
      BY <1>1, <1>2
    <2>2. (sp[i] # 0 /\ t < sp[i] /\ sp[i] <= s) = (sp2[i] # 0 /\ t < sp2[i] /\ sp2[i] <= s)
      BY <2>1
    <2>. QED
      BY <2>2 DEF Adjusted
  <1>. QED
    BY <1>3 DEF Window

\* A composite rests on the bars of its session and of each exchange's one
\* before it.
LEMMA CompositeAgrees ==
    ASSUME NEW h \in Histories, NEW h2 \in Histories,
           NEW sp \in Splits, NEW sp2 \in Splits,
           \A i \in Instruments : GrewAt(h, sp, h2, sp2, i), NEW s \in Sessions,
           \A j \in Instruments, t \in Sessions : NearComposite(s, j, t) => h[j][t] = h2[j][t]
    PROVE  CompositeAt(h, sp, s) = CompositeAt(h2, sp2, s)
  <1>1. ASSUME NEW i \in Instruments PROVE s \in BarsOf(h, i) <=> s \in BarsOf(h2, i)
    <2>1. CASE s \in Calendar[i]
      <3>1. NearComposite(s, i, s)
        BY <2>1, WindowsReachBack DEF NearComposite
      <3>. QED
        BY <3>1, BarsAreSessions
    <2>2. CASE s \notin Calendar[i]
      BY <2>2, BarsAreSessions
    <2>. QED
      BY <2>1, <2>2
  <1>3. ASSUME NEW i \in Instruments, s \in BarsOf(h, i)
        PROVE  /\ WindowReason(h, i, s, 2) = WindowReason(h2, i, s, 2)
               /\ Window(h, sp, i, s, 2) = Window(h2, sp2, i, s, 2)
    <2>1. h[i][s] > 0 /\ s \in Calendar[i]
      BY <1>3, BarsAreSessions
    <2>2. \A t \in WindowSessions[i][s][2] : h[i][t] = h2[i][t]
      BY <2>1, WindowsReachBack DEF NearComposite
    <2>. QED
      BY <2>1, <2>2, ReasonAgrees, WindowAgrees
  <1>4. Contributors(h, s) = Contributors(h2, s)
    BY <1>1, <1>3 DEF Contributors
  <1>5. {<<i, Window(h, sp, i, s, 2)>> : i \in Contributors(h, s)}
            = {<<i, Window(h2, sp2, i, s, 2)>> : i \in Contributors(h2, s)}
    BY <1>3, <1>4 DEF Contributors
  <1>6. (\E i \in Instruments : s \in BarsOf(h, i) /\ Position[i][s] > 1)
            <=> (\E i \in Instruments : s \in BarsOf(h2, i) /\ Position[i][s] > 1)
    BY <1>1
  <1>. QED
    BY <1>4, <1>5, <1>6 DEF CompositeAt

\* A row rests on the bars near it.
LEMMA RowAgrees ==
    ASSUME NEW h \in Histories, NEW h2 \in Histories,
           NEW sp \in Splits, NEW sp2 \in Splits,
           \A i \in Instruments : GrewAt(h, sp, h2, sp2, i),
           NEW i \in Instruments, NEW s \in Sessions, NEW d \in Defs,
           \A j \in Instruments, t \in Sessions : Near(i, s, d, j, t) => h[j][t] = h2[j][t]
    PROVE  RowAt(h, sp, CompositeSeries(h, sp), i, s, d)
               = RowAt(h2, sp2, CompositeSeries(h2, sp2), i, s, d)
  <1> DEFINE n == WindowOf(d)
             W == WindowSessions[i][s][n]
             read == ReadSessions(i, s, d)
             c == CompositeSeries(h, sp)
             c2 == CompositeSeries(h2, sp2)
  <1>1. n \in {2, OwnWindow, UserWindow}
    BY DEF WindowOf
  <1>2. W \subseteq Sessions /\ (s \in Calendar[i] => s \in W)
    BY <1>1, WindowsReachBack
  <1>3. CASE s \notin Calendar[i]
    <2>1. s \notin BarsOf(h, i) /\ s \notin BarsOf(h2, i)
      BY <1>3, BarsAreSessions
    <2>. QED
      BY <2>1 DEF RowAt
  <1>4. CASE s \in Calendar[i]
    <2>0. \A t \in W : h[i][t] = h2[i][t]
      BY <1>2, <1>4 DEF Near
    <2>1. s \in BarsOf(h, i) <=> s \in BarsOf(h2, i)
      BY <1>2, <1>4, <2>0, BarsAreSessions
    <2>2. CASE s \notin BarsOf(h, i)
      BY <2>1, <2>2 DEF RowAt
    <2>3. CASE s \in BarsOf(h, i)
      <3>1. h[i][s] > 0
        BY <2>3, BarsAreSessions
      <3>2. WindowReason(h, i, s, n) = WindowReason(h2, i, s, n)
        BY <1>1, <2>0, <3>1, ReasonAgrees
      <3>3. Window(h, sp, i, s, n) = Window(h2, sp2, i, s, n)
        BY <1>1, <2>0, <3>1, WindowAgrees
      <3>4. CASE d \in CompositeUsers
        <4>1. ASSUME NEW u \in read PROVE c[u] = c2[u]
          <5>1. u \in Sessions
            BY <1>2, <4>1 DEF ReadSessions
          <5>2. \A j \in Instruments, t \in Sessions : NearComposite(u, j, t) => h[j][t] = h2[j][t]
            BY <1>4, <3>4, <4>1 DEF Near
          <5>3. CompositeAt(h, sp, u) = CompositeAt(h2, sp2, u)
            BY <5>1, <5>2, CompositeAgrees
          <5>. QED
            BY <5>1, <5>3 DEF CompositeSeries
        <4>2. Measured(c, read) <=> Measured(c2, read)
          BY <4>1 DEF Measured
        <4>3. {<<t, c[t].of>> : t \in read} = {<<t, c2[t].of>> : t \in read}
          BY <4>1
        <4>. HIDE DEF c, c2, read
        <4>4. CASE WindowReason(h, i, s, n) # ""
          <5>1. RowAt(h, sp, c, i, s, d) = RowAt(h2, sp2, c2, i, s, d)
            BY <2>1, <2>3, <3>2, <4>4 DEF RowAt
          <5>. QED
            BY <5>1 DEF c, c2
        <4>5. CASE WindowReason(h, i, s, n) = "" /\ Measured(c, read)
          <5>1. RowAt(h, sp, c, i, s, d) = [absent |-> "", bars |-> Window(h, sp, i, s, n),
                                            comps |-> {<<t, c[t].of>> : t \in read}]
            BY <2>3, <3>4, <4>5 DEF RowAt, read
          <5>2. RowAt(h2, sp2, c2, i, s, d) = [absent |-> "", bars |-> Window(h2, sp2, i, s, n),
                                               comps |-> {<<t, c2[t].of>> : t \in read}]
            BY <2>1, <2>3, <3>2, <3>4, <4>2, <4>5 DEF RowAt, read
          <5>. QED
            BY <3>3, <4>3, <5>1, <5>2 DEF c, c2
        <4>6. CASE WindowReason(h, i, s, n) = "" /\ ~ Measured(c, read)
          <5>1. RowAt(h, sp, c, i, s, d) = RowAt(h2, sp2, c2, i, s, d)
            BY <2>1, <2>3, <3>2, <3>4, <4>2, <4>6 DEF RowAt, read
          <5>. QED
            BY <5>1 DEF c, c2
        <4>. QED
          BY <4>4, <4>5, <4>6
      <3>5. CASE d \notin CompositeUsers
        <4>. HIDE DEF c, c2
        <4>1. RowAt(h, sp, c, i, s, d) = RowAt(h2, sp2, c2, i, s, d)
          BY <2>1, <2>3, <3>2, <3>3, <3>5 DEF RowAt
        <4>. QED
          BY <4>1 DEF c, c2
      <3>. QED
        BY <3>4, <3>5
    <2>. QED
      BY <2>2, <2>3
  <1>. QED
    BY <1>3, <1>4

-----------------------------------------------------------------------------
(***************************************************************************)
(* What a run's scopes cover.                                              *)
(***************************************************************************)
LEMMA Larger ==
    ASSUME NEW a \in Nat, NEW b \in Nat
    PROVE  /\ Max({a, b}) \in {a, b} /\ Max({a, b}) >= a /\ Max({a, b}) >= b
           /\ Min({a, b}) \in {a, b} /\ Min({a, b}) <= a /\ Min({a, b}) <= b
  <1>1. \E x \in {a, b} : \A y \in {a, b} : x >= y
    BY DEF Max
  <1>2. \E x \in {a, b} : \A y \in {a, b} : x <= y
    BY DEF Max
  <1>. QED
    BY <1>1, <1>2 DEF Max, Min

\* Windows are numbers, and the longest is WMax.
LEMMA WindowsAreCounted ==
    /\ WMax \in Nat /\ WMax >= 2
    /\ \A d \in Defs : WindowOf(d) \in Nat /\ WindowOf(d) <= WMax
  BY WindowAssumption, Larger DEF WMax, WindowOf, Defs

\* The longest window is one of the windows.
LEMMA LongestIsAWindow == WMax \in {2, OwnWindow, UserWindow}
  BY WindowAssumption, Larger DEF WMax

\* The reach of a bar holds every session whose window it is in.
LEMMA Reach ==
    ASSUME NEW i \in Instruments, NEW at \in Sessions, NEW n \in Nat, n > 0
    PROVE  /\ AffectedTo(i, at, n) \in Sessions /\ AffectedTo(i, at, n) >= at
           /\ at \in Calendar[i] => \A u \in Calendar[i] :
                 u >= at /\ Position[i][u] - Position[i][at] < n => u <= AffectedTo(i, at, n)
  <1> DEFINE S == {t \in Calendar[i] : t >= at /\ Position[i][t] - Position[i][at] < n}
  <1>0. Calendar[i] \subseteq Sessions /\ at \in Nat /\ Position[i][at] \in Nat
    BY CalendarAssumption, SessionsAreNumbers, Positions
  <1>1. CASE at \in Calendar[i]
    <2>1. at \in S /\ S \in SUBSET (Sessions \cup {0})
      BY <1>0, <1>1
    <2>2. Max(S) \in S /\ \A x \in S : x <= Max(S)
      BY <2>1, LastOf
    <2>3. AffectedTo(i, at, n) = Max(S)
      BY <1>1 DEF AffectedTo
    <2>. QED
      BY <1>0, <2>2, <2>3
  <1>2. CASE at \notin Calendar[i]
    BY <1>0, <1>2 DEF AffectedTo
  <1>. QED
    BY <1>1, <1>2

\* A session that is not past a window over a date is within its reach.
LEMMA ReachOfTheDate ==
    ASSUME NEW i \in Instruments, NEW at \in Sessions, NEW s \in Calendar[i],
           NEW n \in {2, OwnWindow, UserWindow}, ~ Past(i, at, s, n)
    PROVE  AffectedTo(i, at, n) \in Sessions /\ s <= AffectedTo(i, at, n)
  <1>1. s \in Sessions /\ n \in Nat /\ n > 0
    BY CalendarAssumption, WindowAssumption
  <1>2. AffectedTo(i, at, n) \in Sessions /\ AffectedTo(i, at, n) >= at
    BY <1>1, Reach
  <1>3. s \in Nat /\ at \in Nat /\ AffectedTo(i, at, n) \in Nat
    BY <1>1, <1>2, SessionsAreNumbers
  <1>4. CASE s <= at
    BY <1>2, <1>3, <1>4
  <1>5. CASE ~ (s <= at)
    <2>1. s >= at /\ at \in WindowSessions[i][s][n]
      BY <1>3, <1>5 DEF Past
    <2>2. at \in Calendar[i] /\ Position[i][s] - Position[i][at] < n
      BY <1>1, <2>1, WindowsReachBack
    <2>. QED
      BY <1>1, <1>2, <2>1, <2>2, Reach
  <1>. QED
    BY <1>4, <1>5

\* A row with a bar that rests on a touched bar is in its instrument's scope,
\* unless the run overlooks it.
LEMMA ScopeCovers ==
    ASSUME NEW h \in Histories, NEW touched \in [Instruments -> SUBSET Sessions],
           NEW i \in Instruments, NEW s \in Sessions, NEW d \in Defs,
           NEW j \in Instruments, NEW t \in touched[j], Near(i, s, d, j, t), h[i][s] > 0,
           ~ OutOfReach(touched, i, s)
    PROVE  LET sc == IncrementalScope(h, touched, i)
           IN  s \in sc.from .. sc.to /\ d \in sc.defs /\ sc.from <= sc.to
  <1> DEFINE all == UNION {touched[k] : k \in Instruments}
             B == BarsOf(h, i)
             lastBar == Max(B)
  <1>1. Sessions \subseteq Nat
    BY SessionsAreNumbers
  <1>2. B \subseteq Sessions /\ s \in B /\ s \in Calendar[i]
    BY BarsAreSessions
  <1>3. lastBar \in B /\ s <= lastBar /\ Min(B) \in B /\ Min(B) <= s
    BY <1>2, FirstOf, LastOf
  <1>4. t \in all /\ all \subseteq Sessions
    OBVIOUS
  <1>. HIDE DEF all, B
  <1>5. /\ Min(all) \in all /\ Min(all) <= t
        /\ Max(all) \in all /\ t <= Max(all)
    BY <1>4, FirstOf, LastOf
  <1>6. t \in Nat /\ s \in Nat /\ t <= s
    BY <1>1, <1>4, NearIsPast
  <1>7. ASSUME NEW at \in Sessions, NEW n \in {2, OwnWindow, UserWindow}, ~ Past(i, at, s, n)
        PROVE  /\ s <= Min({AffectedTo(i, at, n), lastBar})
               /\ Min({AffectedTo(i, at, n), lastBar}) \in Nat
    <2>1. AffectedTo(i, at, n) \in Sessions /\ s <= AffectedTo(i, at, n)
      BY <1>2, <1>7, ReachOfTheDate
    <2>2. AffectedTo(i, at, n) \in Nat /\ lastBar \in Nat
      BY <1>1, <1>2, <1>3, <2>1
    <2>. HIDE DEF lastBar
    <2>. QED
      BY <1>3, <2>1, <2>2, Larger
  <1>8. CASE touched[i] # {}
    <2>1. /\ Min(touched[i]) \in touched[i] /\ Max(touched[i]) \in touched[i]
      BY <1>8, FirstOf, LastOf
    <2>2. Min(touched[i]) \in Nat /\ Max(touched[i]) \in Sessions
      BY <1>1, <2>1
    <2>3. Min(touched[i]) <= s /\ ~ Past(i, Max(touched[i]), s, WMax)
      BY <1>6, <1>8, <2>2 DEF OutOfReach
    <2>4. /\ s <= Min({AffectedTo(i, Max(touched[i]), WMax), lastBar})
          /\ Min({AffectedTo(i, Max(touched[i]), WMax), lastBar}) \in Nat
      BY <1>7, <2>2, <2>3, LongestIsAWindow
    <2>5. IncrementalScope(h, touched, i) =
            [from |-> Min(touched[i]), to |-> Min({AffectedTo(i, Max(touched[i]), WMax), lastBar}),
             defs |-> Defs]
      BY <1>2, <1>8 DEF IncrementalScope, B
    <2>. QED
      BY <1>6, <2>2, <2>3, <2>4, <2>5
  <1>9. CASE touched[i] = {}
    <2>1. d \in CompositeUsers
      BY <1>9 DEF Near
    <2>2. Min(all) \in Nat /\ Max(all) \in Sessions /\ Min(B) \in Nat
      BY <1>1, <1>2, <1>3, <1>4, <1>5
    <2>3. Max({Min(all), Min(B)}) <= s /\ Max({Min(all), Min(B)}) \in Nat
      BY <1>3, <1>5, <1>6, <2>2, Larger
    <2>4. ~ Past(i, Max(all), s, UserWindow)
      BY <1>9 DEF OutOfReach, all
    <2>5. /\ s <= Min({AffectedTo(i, Max(all), UserWindow), lastBar})
          /\ Min({AffectedTo(i, Max(all), UserWindow), lastBar}) \in Nat
      BY <1>7, <2>2, <2>4
    <2>6. IncrementalScope(h, touched, i) =
            [from |-> Max({Min(all), Min(B)}),
             to |-> Min({AffectedTo(i, Max(all), UserWindow), lastBar}),
             defs |-> CompositeUsers]
      BY <1>2, <1>9 DEF IncrementalScope, B, all
    <2>. QED
      BY <1>6, <2>1, <2>3, <2>5, <2>6
  <1>. QED
    BY <1>8, <1>9

\* Every composite that reads a touched bar is rewritten.
LEMMA CompositeRangeCovers ==
    ASSUME NEW h \in Histories, NEW touched \in [Instruments -> SUBSET Sessions],
           NEW s \in Sessions, NEW j \in Instruments, NEW t \in touched[j],
           \A u \in touched[j] : h[j][u] > 0, NearComposite(s, j, t)
    PROVE  s \in CompositeRange(h, touched)
  <1> DEFINE all == UNION {touched[k] : k \in Instruments}
             reaches == {AffectedTo(i, Max(touched[i]), WMax) :
                            i \in {k \in Instruments : touched[k] # {} /\ BarsOf(h, k) # {}}}
             at == Max(touched[j])
             reach == AffectedTo(j, at, WMax)
  <1>1. Sessions \subseteq Nat
    BY SessionsAreNumbers
  <1>2. at \in touched[j] /\ t <= at /\ at \in Sessions
    BY LastOf
  <1>3. WMax \in Nat /\ WMax >= 2
    BY WindowsAreCounted
  <1>4. s \in Calendar[j] /\ t <= s /\ Position[j][s] - Position[j][t] < 2
    BY WindowsReachBack DEF NearComposite
  <1>5. at \in Calendar[j]
    BY <1>2 DEF Histories
  <1>6. /\ reach \in Sessions /\ reach >= at
        /\ s >= at /\ Position[j][s] - Position[j][at] < WMax => s <= reach
    BY <1>2, <1>3, <1>4, <1>5, Reach
  <1>7. /\ Position[j][s] \in Nat /\ Position[j][t] \in Nat /\ Position[j][at] \in Nat
        /\ Position[j][t] <= Position[j][at]
    BY <1>2, Positions
  <1>. HIDE DEF at, reach
  <1>8. t \in Nat /\ s \in Nat /\ at \in Nat /\ reach \in Nat
    BY <1>1, <1>2, <1>6
  <1>9. s <= reach
    <2>1. CASE s <= at
      BY <1>6, <1>8, <2>1
    <2>2. CASE ~ (s <= at)
      <3>1. Position[j][s] - Position[j][at] < WMax
        BY <1>3, <1>4, <1>7
      <3>. QED
        BY <1>6, <1>8, <2>2, <3>1
    <2>. QED
      BY <2>1, <2>2
  <1>10. t \in BarsOf(h, j)
    BY BarsAreSessions
  <1>11. reach \in reaches
    BY <1>10 DEF reach, at
  <1>12. t \in all /\ all \subseteq Sessions
    OBVIOUS
  <1>13. reaches \subseteq Sessions
    <2>1. ASSUME NEW i \in Instruments, touched[i] # {}
          PROVE  AffectedTo(i, Max(touched[i]), WMax) \in Sessions
      <3>1. Max(touched[i]) \in Sessions
        BY <2>1, LastOf
      <3>. QED
        BY <1>3, <3>1, Reach
    <2>. QED
      BY <2>1
  <1>. HIDE DEF all, reaches
  <1>14. Min(all) \in all /\ Min(all) <= t /\ Max(all) \in all
    BY <1>12, FirstOf, LastOf
  <1>15. /\ Max(reaches \cup {Max(all)}) \in reaches \cup {Max(all)}
         /\ reach <= Max(reaches \cup {Max(all)})
    BY <1>11, <1>12, <1>13, <1>14, LastOf
  <1>16. Min(all) \in Nat /\ Max(reaches \cup {Max(all)}) \in Nat
    BY <1>1, <1>12, <1>13, <1>14, <1>15
  <1>17. s \in Min(all) .. Max(reaches \cup {Max(all)})
    BY <1>4, <1>8, <1>9, <1>14, <1>15, <1>16
  <1>. QED
    BY <1>17 DEF CompositeRange, all, reaches

-----------------------------------------------------------------------------
(***************************************************************************)
(* What a run has loaded, against what is stored.                          *)
(***************************************************************************)
LEMMA GrewFromItself ==
    ASSUME NEW h, NEW sp, NEW i \in Instruments
    PROVE  GrewAt(h, sp, h, sp, i)
  <1>1. \A s \in Sessions : s <= s
    BY SessionsAreNumbers
  <1>. QED
    BY <1>1 DEF GrewAt

\* Growing twice is growing.
LEMMA GrewFurther ==
    ASSUME NEW h, NEW sp, NEW h2, NEW sp2, NEW h3, NEW sp3, NEW i \in Instruments,
           GrewAt(h, sp, h2, sp2, i), GrewAt(h2, sp2, h3, sp3, i)
    PROVE  GrewAt(h, sp, h3, sp3, i)
  <1>1. \A s \in Sessions : h[i][s] > 0 => h3[i][s] > 0
    BY DEF GrewAt
  <1>2. ASSUME NEW s \in Sessions, NEW u \in Sessions, h3[i][s] > 0, h[i][u] > 0
        PROVE  \E v \in Sessions : v <= s /\ h[i][v] > 0
    <2>1. h2[i][u] > 0
      BY <1>2 DEF GrewAt
    <2>2. PICK w \in Sessions : w <= s /\ h2[i][w] > 0
      BY <1>2, <2>1 DEF GrewAt
    <2>3. PICK v \in Sessions : v <= w /\ h[i][v] > 0
      BY <1>2, <2>2 DEF GrewAt
    <2>4. v <= s
      BY <2>2, <2>3, SessionsAreNumbers
    <2>. QED
      BY <2>3, <2>4
  <1>3. sp3[i] = sp[i] \/ (sp[i] = 0 /\ \A s \in Sessions : h[i][s] > 0 => s < sp3[i])
    <2>1. CASE sp3[i] = sp2[i]
      BY <2>1 DEF GrewAt
    <2>2. CASE sp2[i] = 0 /\ \A s \in Sessions : h2[i][s] > 0 => s < sp3[i]
      <3>1. sp[i] = 0
        BY <2>2 DEF GrewAt
      <3>. QED
        BY <2>2, <3>1 DEF GrewAt
    <2>. QED
      BY <2>1, <2>2 DEF GrewAt
  <1>. QED
    BY <1>1, <1>2, <1>3 DEF GrewAt

\* There is no composite exactly where no member's return could be read.
LEMMA NoCompositeBefore ==
    ASSUME NEW h, NEW sp, NEW h2, NEW sp2, NEW s \in Sessions,
           \A i \in Instruments : h[i][s] > 0 => h2[i][s] > 0,
           CompositeAt(h2, sp2, s) = NoComposite
    PROVE  CompositeAt(h, sp, s) = NoComposite
  <1>1. ~ \E i \in Instruments : s \in BarsOf(h2, i) /\ Position[i][s] > 1
    BY DEF CompositeAt, NoComposite
  <1>2. \A i \in Instruments : s \in BarsOf(h, i) => s \in BarsOf(h2, i)
    BY DEF BarsOf
  <1>3. ~ \E i \in Instruments : s \in BarsOf(h, i) /\ Position[i][s] > 1
    BY <1>1, <1>2
  <1>. QED
    BY <1>3 DEF CompositeAt

\* A session without a bar has no row.
LEMMA NoBarNoRow ==
    ASSUME NEW h, NEW sp, NEW comps, NEW i \in Instruments, NEW s \in Sessions,
           NEW d \in Defs, ~ (h[i][s] > 0)
    PROVE  RowAt(h, sp, comps, i, s, d) = NoRow
  <1>1. s \notin BarsOf(h, i)
    BY DEF BarsOf
  <1>. QED
    BY <1>1 DEF RowAt

AllLoaded(run) == RunShape(run) /\ LoadHolds(run) /\ \A i \in Instruments : Loaded(run, i)

\* A composite computed from what a run has read is the stored history's, or
\* an import has moved it since and its pass is due.
LEMMA LoadedComposite ==
    ASSUME Shapes, NEW run, AllLoaded(run), NEW s \in Sessions
    PROVE  CompositeAt(run.hist, run.split, s) = CompositeAt(bars, split, s) \/ CompositeMoved(s)
  <1>1. /\ run.hist \in Histories /\ run.split \in Splits
        /\ bars \in Histories /\ split \in Splits
    BY DEF AllLoaded, RunShape, Shapes
  <1>2. \A i \in Instruments : GrewAt(run.hist, run.split, bars, split, i)
    BY DEF AllLoaded, LoadHolds
  <1>3. \A i \in Instruments, t \in Sessions : run.hist[i][t] = bars[i][t] \/ Open(i, t)
    BY DEF AllLoaded, LoadHolds
  <1>4. CASE \A j \in Instruments, t \in Sessions : NearComposite(s, j, t) => run.hist[j][t] = bars[j][t]
    <2>1. CompositeAt(run.hist, run.split, s) = CompositeAt(bars, split, s)
      BY <1>1, <1>2, <1>4, CompositeAgrees
    <2>. QED
      BY <2>1
  <1>5. CASE \E j \in Instruments, t \in Sessions : NearComposite(s, j, t) /\ run.hist[j][t] # bars[j][t]
    BY <1>3, <1>5 DEF CompositeMoved
  <1>. QED
    BY <1>4, <1>5

\* So is a row.
LEMMA LoadedRow ==
    ASSUME Shapes, NEW run, AllLoaded(run), NEW i \in Instruments,
           NEW s \in Sessions, NEW d \in Defs
    PROVE  \/ RowAt(run.hist, run.split, CompositeSeries(run.hist, run.split), i, s, d) = Row(i, s, d)
           \/ Moved(i, s, d)
  <1>1. /\ run.hist \in Histories /\ run.split \in Splits
        /\ bars \in Histories /\ split \in Splits
    BY DEF AllLoaded, RunShape, Shapes
  <1>2. \A k \in Instruments : GrewAt(run.hist, run.split, bars, split, k)
    BY DEF AllLoaded, LoadHolds
  <1>3. \A k \in Instruments, t \in Sessions : run.hist[k][t] = bars[k][t] \/ Open(k, t)
    BY DEF AllLoaded, LoadHolds
  <1>4. CASE \A j \in Instruments, t \in Sessions : Near(i, s, d, j, t) => run.hist[j][t] = bars[j][t]
    BY <1>1, <1>2, <1>4, RowAgrees DEF Row
  <1>5. CASE \E j \in Instruments, t \in Sessions : Near(i, s, d, j, t) /\ run.hist[j][t] # bars[j][t]
    BY <1>3, <1>5 DEF Moved
  <1>. QED
    BY <1>4, <1>5

\* Where a run read no bar there is nothing to write.
LEMMA NoBarFresh ==
    ASSUME Shapes, NoRowsAhead, NEW run, AllLoaded(run), NEW i \in Instruments,
           NEW s \in Sessions, NEW d \in Defs, ~ (run.hist[i][s] > 0)
    PROVE  Fresh(i, s, d)
  <1>1. run.hist[i][s] \in Nat /\ bars[i][s] \in Nat /\ (bars[i][s] > 0 => s \in Calendar[i])
    <2>1. run.hist \in Histories /\ bars \in Histories
      BY DEF AllLoaded, RunShape, Shapes
    <2>. QED
      BY <2>1 DEF Histories
  <1>2. CASE run.hist[i][s] = bars[i][s]
    <2>1. ~ (bars[i][s] > 0) /\ bars[i][s] = 0
      BY <1>1, <1>2
    <2>2. Row(i, s, d) = NoRow
      BY <2>1, NoBarNoRow DEF Row
    <2>. QED
      BY <2>1, <2>2 DEF Fresh, NoRowsAhead
  <1>3. CASE run.hist[i][s] # bars[i][s]
    <2>1. Open(i, s)
      BY <1>3 DEF AllLoaded, LoadHolds
    <2>2. Near(i, s, d, i, s)
      <3>1. bars[i][s] > 0
        BY <1>1, <1>3
      <3>2. s \in Calendar[i] /\ WindowOf(d) \in {2, OwnWindow, UserWindow}
        BY <1>1, <3>1 DEF WindowOf
      <3>. QED
        BY <3>2, WindowsReachBack DEF Near
    <2>. QED
      BY <2>1, <2>2 DEF Fresh, Moved
  <1>. QED
    BY <1>2, <1>3

\* Where a run finds no composite, none is to be stored.
LEMMA NoCompositeFresh ==
    ASSUME Shapes, NoRowsAhead, NEW run, AllLoaded(run), NEW s \in Sessions,
           CompositeAt(run.hist, run.split, s) = NoComposite
    PROVE  CompositeFresh(s)
  <1>1. CompositeAt(run.hist, run.split, s) = CompositeAt(bars, split, s) \/ CompositeMoved(s)
    BY LoadedComposite
  <1>. QED
    BY <1>1 DEF CompositeFresh, NoRowsAhead

-----------------------------------------------------------------------------
(***************************************************************************)
(* Every step keeps the invariant.                                         *)
(***************************************************************************)
LEMMA FieldsOfARun ==
    DOMAIN Idle = {"phase", "kind", "since", "def", "hist", "split", "touched", "series",
                   "todo", "done", "failed", "from", "to", "clean"}
  BY DEF Idle

\* A caller that does nothing has the shape of a run.
LEMMA IdleIsShaped == RunShape(Idle) /\ ~ Working(Idle) /\ \A i \in Instruments : Idle.touched[i] = {}
  <1>1. Idle.hist \in Histories /\ Idle.split \in Splits /\ Idle.touched \in [Instruments -> SUBSET Sessions]
    BY DEF Idle, Histories, Splits
  <1>. QED
    BY <1>1 DEF RunShape, Idle, Working

\* The invariant holds of what a full computation of the first bars stored.
LEMMA InvInit == Init => IInv
  <1> SUFFICES ASSUME FeatureInit PROVE IInv
    BY DEF Init
  <1>. USE DEF FeatureInit
  <1>1. Shapes
    <2>1. bars \in Histories /\ split \in Splits
      BY CalendarAssumption DEF Histories, Splits
    <2>2. stamp \in [Instruments -> [Sessions -> Nat]] /\ imports \in Nat /\ due \subseteq 1..imports
             /\ revised \subseteq Instruments \X Sessions \X Nat
             /\ missed = [rows |-> missed.rows, series |-> missed.series]
      OBVIOUS
    <2>3. values = [i \in Instruments |-> [s \in Sessions |-> [d \in Defs |-> values[i][s][d]]]]
      BY DEF FullValues
    <2>4. composites = [s \in Sessions |-> composites[s]]
      BY DEF CompositeSeries
    <2>5. pass = [p \in Passes |-> pass[p]] /\ \A p \in Passes : RunShape(pass[p])
      BY IdleIsShaped
    <2>. QED
      BY <2>1, <2>2, <2>3, <2>4, <2>5 DEF Shapes
  <1>2. TouchedHaveBars
    <2>1. \A p \in Passes, i \in Instruments : pass[p].touched[i] = {}
      BY IdleIsShaped
    <2>. QED
      BY <2>1 DEF TouchedHaveBars
  <1>3. \A i \in Instruments, s \in Sessions, d \in Defs : values[i][s][d] = Row(i, s, d)
    BY DEF FullValues, Row
  <1>4. \A s \in Sessions : composites[s] = CompositeAt(bars, split, s)
    BY DEF CompositeSeries
  <1>5. \A p \in Passes : pass[p] = Idle /\ ~ Working(pass[p])
    BY IdleIsShaped
  <1>6. NoRowsAhead
    <2>1. ASSUME NEW i \in Instruments, NEW s \in Sessions, NEW d \in Defs, bars[i][s] = 0
          PROVE  values[i][s][d] = NoRow
      <3>1. ~ (bars[i][s] > 0)
        BY <2>1
      <3>. HIDE DEF FeatureInit
      <3>2. RowAt(bars, split, CompositeSeries(bars, split), i, s, d) = NoRow
        BY <3>1, NoBarNoRow
      <3>. QED
        BY <1>3, <3>2 DEF Row
    <2>. QED
      BY <1>4, <1>5, <2>1 DEF NoRowsAhead
  <1>7. ValuesHold /\ CompositesHold
    BY <1>3, <1>4 DEF ValuesHold, CompositesHold, Fresh, CompositeFresh
  <1>. QED
    BY <1>1, <1>2, <1>5, <1>6, <1>7 DEF IInv, RunHolds

stored == <<bars, stamp, revised, split, imports, due, values, composites>>

\* What is left of a run that ended, was given up, or never was one.
Resigned(run, after) ==
    /\ RunShape(after) /\ ~ Working(after)
    /\ after.touched = run.touched \/ \A i \in Instruments : after.touched[i] = {}

\* What the run owes is missed, now or from here on.
Owed(run) ==
    /\ \A i \in Instruments, s \in Sessions, d \in Defs : Owes(run, i, s, d) => <<i, s, d>> \in missed'.rows
    /\ \A s \in Sessions : OwesComposite(run, s) => s \in missed'.series

\* A step that writes nothing and neither begins nor completes a run.
LEMMA CalmStep ==
    ASSUME IInv, UNCHANGED stored, pass' = [p \in Passes |-> pass'[p]],
           \A p \in Passes : pass'[p] = pass[p] \/ Resigned(pass[p], pass'[p]),
           missed' = [rows |-> missed'.rows, series |-> missed'.series],
           missed.rows \subseteq missed'.rows, missed.series \subseteq missed'.series,
           \A p \in Passes : Owed(pass[p]) \/ pass'[p] = pass[p]
    PROVE  IInv'
  <1>1. /\ \A i \in Instruments, s \in Sessions, d \in Defs : Fresh(i, s, d)' <=> Fresh(i, s, d)
        /\ \A s \in Sessions : CompositeFresh(s)' <=> CompositeFresh(s)
        /\ \A i \in Instruments, s \in Sessions : Open(i, s)' <=> Open(i, s)
    BY DEF stored, Fresh, CompositeFresh, Moved, CompositeMoved, Open, SessionsTouchedByRun, Row
  <1>. USE DEF IInv
  <1>2. \A p \in Passes : Working(pass'[p]) => pass'[p] = pass[p]
    BY DEF Resigned
  <1>3. Shapes'
    <2>1. \A p \in Passes : RunShape(pass'[p])
      BY DEF Shapes, Resigned
    <2>. QED
      BY <2>1 DEF Shapes, stored
  <1>4. TouchedHaveBars'
    <2>1. ASSUME NEW p \in Passes, NEW i \in Instruments, NEW s \in pass'[p].touched[i]
          PROVE  bars[i][s] > 0
      <3>1. s \in pass[p].touched[i]
        BY <2>1 DEF Resigned
      <3>. QED
        BY <3>1 DEF TouchedHaveBars
    <2>. QED
      BY <2>1 DEF TouchedHaveBars, stored
  <1>5. NoRowsAhead'
    BY <1>2 DEF NoRowsAhead, stored
  <1>6. ASSUME NEW p \in Passes PROVE RunHolds(p)'
    <2> SUFFICES ASSUME Working(pass'[p]) PROVE RunHolds(p)'
      BY DEF RunHolds
    <2>1. pass'[p] = pass[p] /\ RunHolds(p) /\ Working(pass[p])
      BY <1>2
    <2>2. Lost => Lost'
      BY DEF Lost
    <2>3. OverlookedHolds(pass[p]) => OverlookedHolds(pass[p])'
      BY <2>1 DEF OverlookedHolds
    <2>4. LoadHolds(pass[p]) => LoadHolds(pass[p])'
      BY <1>1, <2>1 DEF LoadHolds, Loaded, GrewAt, stored
    <2>. QED
      BY <1>1, <1>2, <2>1, <2>2, <2>3, <2>4 DEF RunHolds
  <1>7. ValuesHold'
    BY <1>1, ZenonT(60) DEF ValuesHold, Owed
  <1>8. CompositesHold'
    BY <1>1, ZenonT(60) DEF CompositesHold, Owed
  <1>. QED
    BY <1>3, <1>4, <1>5, <1>6, <1>7, <1>8

\* An import: what it stores is named by a run that is due.
LEMMA ImportStep == ASSUME IInv, Import PROVE IInv'
  <1>. USE DEF IInv
  <1>1. PICK touched \in Touchable :
           /\ bars' = [i \in Instruments |-> [s \in Sessions |->
                          IF s \in touched[i] THEN StoredBar(bars, i, s) ELSE bars[i][s]]]
           /\ stamp' = [i \in Instruments |-> [s \in Sessions |->
                          IF s \in touched[i] THEN imports + 1 ELSE stamp[i][s]]]
           /\ revised' = revised \cup {x \in Instruments \X Sessions \X {imports + 1} :
                          x[2] \in touched[x[1]] /\ bars[x[1]][x[2]] > 0}
    BY DEF Import
  <1>2. /\ \/ UNCHANGED split
           \/ \E i \in Splitting : split[i] = 0 /\ \E s \in Calendar[i] :
                 s > Max(BarsOf(bars, i) \cup {0}) /\ split' = [split EXCEPT ![i] = s]
        /\ imports' = imports + 1
        /\ due' = due \cup {imports + 1}
        /\ UNCHANGED <<values, composites, pass, missed>>
    BY DEF Import
  <1>3. \A i \in Instruments : touched[i] \subseteq Storable(i)
    BY DEF Touchable
  <1>4. /\ bars \in Histories /\ split \in Splits /\ imports \in Nat
        /\ stamp \in [Instruments -> [Sessions -> Nat]]
    BY DEF Shapes
  <1>0. bars \in [Instruments -> [Sessions -> Nat]]
    BY <1>4 DEF Histories
  <1>5. \A i \in Instruments, s \in Sessions :
           /\ bars[i][s] \in Nat
           /\ bars'[i][s] = IF s \in touched[i] THEN bars[i][s] + 1 ELSE bars[i][s]
           /\ stamp'[i][s] = IF s \in touched[i] THEN imports + 1 ELSE stamp[i][s]
    BY <1>0, <1>1, <1>4 DEF StoredBar
  <1>6. ASSUME NEW i \in Instruments PROVE GrewAt(bars, split, bars', split', i)
    <2>1. \A s \in Sessions : bars[i][s] > 0 => bars'[i][s] > 0
      BY <1>5
    <2>2. ASSUME NEW s \in Sessions, NEW u \in Sessions, bars'[i][s] > 0, bars[i][u] > 0
          PROVE  \E v \in Sessions : v <= s /\ bars[i][v] > 0
      <3>1. CASE bars[i][s] > 0
        BY <3>1, SessionsAreNumbers
      <3>2. CASE ~ (bars[i][s] > 0)
        <4>1. s \in touched[i]
          BY <1>5, <2>2, <3>2
        <4>2. u \in BarsOf(bars, i) /\ BarsOf(bars, i) \subseteq Sessions
          BY <1>4, <2>2, BarsAreSessions
        <4>3. s >= Min(BarsOf(bars, i))
          BY <1>3, <4>1, <4>2 DEF Storable
        <4>4. Min(BarsOf(bars, i)) \in BarsOf(bars, i)
          BY <4>2, FirstOf
        <4>5. Min(BarsOf(bars, i)) \in Sessions /\ bars[i][Min(BarsOf(bars, i))] > 0
          BY <1>4, <4>4, BarsAreSessions
        <4>. QED
          BY <4>3, <4>5, SessionsAreNumbers
      <3>. QED
        BY <3>1, <3>2
    <2>3. \/ split'[i] = split[i]
          \/ split[i] = 0 /\ \A s \in Sessions : bars[i][s] > 0 => s < split'[i]
      <3>1. CASE UNCHANGED split
        BY <3>1
      <3>2. CASE \E k \in Splitting : split[k] = 0 /\ \E s \in Calendar[k] :
                    s > Max(BarsOf(bars, k) \cup {0}) /\ split' = [split EXCEPT ![k] = s]
        <4>0. PICK k \in Splitting : split[k] = 0 /\ \E s \in Calendar[k] :
                    s > Max(BarsOf(bars, k) \cup {0}) /\ split' = [split EXCEPT ![k] = s]
          BY <3>2
        <4>1. PICK ex \in Calendar[k] :
                 ex > Max(BarsOf(bars, k) \cup {0}) /\ split' = [split EXCEPT ![k] = ex]
          BY <4>0
        <4>2. CASE k # i
          BY <1>4, <4>1, <4>2 DEF Splits
        <4>3. CASE k = i
          <5>1. BarsOf(bars, i) \cup {0} \subseteq Sessions \cup {0}
            BY <1>4, BarsAreSessions
          <5>2. /\ Max(BarsOf(bars, i) \cup {0}) \in BarsOf(bars, i) \cup {0}
                /\ \A s \in BarsOf(bars, i) : s <= Max(BarsOf(bars, i) \cup {0})
            BY <5>1, LastOf
          <5>3. split'[i] = ex /\ ex \in Sessions
            BY <1>4, <4>1, <4>3, CalendarAssumption DEF Splits
          <5>4. Max(BarsOf(bars, i) \cup {0}) \in Nat /\ ex \in Nat
            <6>1. Sessions \cup {0} \subseteq Nat
              BY SessionsAreNumbers
            <6>. QED
              BY <5>1, <5>2, <5>3, <6>1
          <5>5. ASSUME NEW s \in Sessions, bars[i][s] > 0 PROVE s < split'[i]
            <6>1. s \in BarsOf(bars, i) /\ s \in Nat
              BY <1>4, <5>5, BarsAreSessions, SessionsAreNumbers
            <6>2. s <= Max(BarsOf(bars, i) \cup {0})
              BY <5>2, <6>1
            <6>. QED
              BY <4>1, <4>3, <5>3, <5>4, <6>1, <6>2
          <5>. QED
            BY <4>0, <4>3, <5>5
        <4>. QED
          BY <4>2, <4>3
      <3>. QED
        BY <1>2, <3>1, <3>2
    <2>. QED
      BY <2>1, <2>2, <2>3 DEF GrewAt
  <1>7. bars' \in Histories /\ split' \in Splits
    <2>1. bars' \in Histories
      <3>1. bars' \in [Instruments -> [Sessions -> Nat]]
        BY <1>0, <1>1, <1>5
      <3>2. ASSUME NEW i \in Instruments, NEW s \in Sessions, bars'[i][s] > 0 PROVE s \in Calendar[i]
        <4>1. CASE s \in touched[i]
          BY <1>3, <4>1 DEF Storable
        <4>2. CASE s \notin touched[i]
          BY <1>4, <1>5, <3>2, <4>2 DEF Histories
        <4>. QED
          BY <4>1, <4>2
      <3>. QED
        BY <3>1, <3>2 DEF Histories
    <2>2. CASE UNCHANGED split
      BY <1>4, <2>1, <2>2
    <2>3. CASE \E i \in Splitting : \E s \in Calendar[i] : split' = [split EXCEPT ![i] = s]
      <3>0. PICK i \in Splitting : \E s \in Calendar[i] : split' = [split EXCEPT ![i] = s]
        BY <2>3
      <3>1. PICK s \in Calendar[i] : split' = [split EXCEPT ![i] = s]
        BY <3>0
      <3>2. i \in Instruments => s \in Sessions
        BY CalendarAssumption
      <3>3. split' \in Splits
        BY <1>4, <3>1, <3>2 DEF Splits
      <3>. QED
        BY <2>1, <3>3
    <2>. QED
      BY <1>2, <2>2, <2>3
  <1>8. ASSUME NEW j \in Instruments, NEW t \in Sessions PROVE Open(j, t) => Open(j, t)'
    <2>1. t \in touched[j] => Open(j, t)'
      BY <1>2, <1>4, <1>5 DEF Open, SessionsTouchedByRun
    <2>2. t \notin touched[j] /\ Open(j, t) => Open(j, t)'
      <3>1. SUFFICES ASSUME t \notin touched[j], NEW r \in due, t \in SessionsTouchedByRun(r)[j]
                     PROVE  Open(j, t)'
        BY DEF Open
      <3>2. r \in due'
        BY <1>2
      <3>3. stamp'[j][t] = stamp[j][t] /\ revised \subseteq revised'
        BY <1>1, <1>5, <3>1
      <3>4. t \in (SessionsTouchedByRun(r)[j])'
        BY <3>1, <3>3 DEF SessionsTouchedByRun
      <3>. QED
        BY <3>2, <3>4 DEF Open
    <2>. QED
      BY <2>1, <2>2
  <1>9. \A j \in Instruments, t \in Sessions : bars'[j][t] = bars[j][t] \/ Open(j, t)'
    BY <1>2, <1>4, <1>5 DEF Open, SessionsTouchedByRun
  <1>10. ASSUME NEW i \in Instruments, NEW s \in Sessions, NEW d \in Defs
         PROVE  Fresh(i, s, d) => Fresh(i, s, d)'
    <2>1. Moved(i, s, d) => Moved(i, s, d)'
      BY <1>8 DEF Moved
    <2>2. CASE \A j \in Instruments, t \in Sessions : Near(i, s, d, j, t) => bars[j][t] = bars'[j][t]
      <3>1. Row(i, s, d)' = Row(i, s, d)
        BY <1>4, <1>6, <1>7, <2>2, RowAgrees DEF Row
      <3>. QED
        BY <1>2, <2>1, <3>1 DEF Fresh
    <2>3. CASE \E j \in Instruments, t \in Sessions : Near(i, s, d, j, t) /\ bars[j][t] # bars'[j][t]
      <3>1. Moved(i, s, d)'
        BY <1>9, <2>3 DEF Moved
      <3>. QED
        BY <3>1 DEF Fresh
    <2>. QED
      BY <2>2, <2>3
  <1>11. ASSUME NEW s \in Sessions PROVE CompositeFresh(s) => CompositeFresh(s)'
    <2>1. CompositeMoved(s) => CompositeMoved(s)'
      BY <1>8 DEF CompositeMoved
    <2>2. CASE \A j \in Instruments, t \in Sessions : NearComposite(s, j, t) => bars[j][t] = bars'[j][t]
      <3>1. CompositeAt(bars', split', s) = CompositeAt(bars, split, s)
        BY <1>4, <1>6, <1>7, <2>2, CompositeAgrees
      <3>. QED
        BY <1>2, <2>1, <3>1 DEF CompositeFresh
    <2>3. CASE \E j \in Instruments, t \in Sessions : NearComposite(s, j, t) /\ bars[j][t] # bars'[j][t]
      <3>1. CompositeMoved(s)'
        BY <1>9, <2>3 DEF CompositeMoved
      <3>. QED
        BY <3>1 DEF CompositeFresh
    <2>. QED
      BY <2>2, <2>3
  <1>12. Shapes'
    <2>1. stamp' \in [Instruments -> [Sessions -> Nat]]
      BY <1>1, <1>4, <1>5
    <2>2. imports' \in Nat /\ due' \subseteq 1..imports'
      BY <1>2, <1>4 DEF Shapes
    <2>. QED
      BY <1>1, <1>2, <1>4, <1>7, <2>1, <2>2 DEF Shapes
  <1>13. TouchedHaveBars'
    <2>1. \A i \in Instruments, s \in Sessions : bars[i][s] > 0 => bars'[i][s] > 0
      BY <1>5
    <2>2. \A i \in Instruments, s \in Sessions : stamp'[i][s] > 0 => bars'[i][s] > 0
      BY <1>5 DEF TouchedHaveBars
    <2>3. ASSUME NEW x \in revised' PROVE bars'[x[1]][x[2]] > 0
      <3>1. CASE x \in revised
        <4>1. bars[x[1]][x[2]] > 0
          BY <3>1 DEF TouchedHaveBars
        <4>. QED
          BY <4>1, <2>1, <3>1 DEF Shapes
      <3>2. CASE x \in Instruments \X Sessions \X {imports + 1} /\ bars[x[1]][x[2]] > 0
        BY <2>1, <3>2
      <3>. QED
        BY <1>1, <3>1, <3>2
    <2>4. \A p \in Passes, i \in Instruments : \A s \in pass[p].touched[i] : bars'[i][s] > 0
      <3>1. \A p \in Passes, i \in Instruments : pass[p].touched[i] \subseteq Sessions
        BY DEF Shapes, RunShape
      <3>. QED
        BY <2>1, <3>1 DEF TouchedHaveBars
    <2>. QED
      BY <1>2, <2>2, <2>3, <2>4 DEF TouchedHaveBars
  <1>14. NoRowsAhead'
    <2>1. \A i \in Instruments, s \in Sessions : bars'[i][s] = 0 => bars[i][s] = 0
      BY <1>5
    <2>2. \A i \in Instruments, s \in Sessions : bars[i][s] > 0 => bars'[i][s] > 0
      BY <1>5
    <2>3. ASSUME NEW s \in Sessions, CompositeAt(bars', split', s) = NoComposite
          PROVE  composites[s] = NoComposite
      <3>1. CompositeAt(bars, split, s) = NoComposite
        BY <2>2, <2>3, NoCompositeBefore
      <3>. QED
        BY <3>1 DEF NoRowsAhead
    <2>. QED
      BY <1>2, <2>1, <2>2, <2>3 DEF NoRowsAhead
  <1>15. ASSUME NEW p \in Passes PROVE RunHolds(p)'
    <2>1. LoadHolds(pass[p]) => LoadHolds(pass[p])'
      <3>1. ASSUME NEW i \in Instruments, GrewAt(pass[p].hist, pass[p].split, bars, split, i)
            PROVE  GrewAt(pass[p].hist, pass[p].split, bars', split', i)
        BY <1>6, <3>1, GrewFurther
      <3>2. \A i \in Instruments, s \in Sessions :
               pass[p].hist[i][s] = bars[i][s] \/ Open(i, s) =>
                   pass[p].hist[i][s] = bars'[i][s] \/ Open(i, s)'
        BY <1>8, <1>9
      <3>. QED
        BY <1>2, <3>1, <3>2 DEF LoadHolds, Loaded
    <2>2. (Lost => Lost') /\ (OverlookedHolds(pass[p]) => OverlookedHolds(pass[p])')
      BY <1>2 DEF Lost, OverlookedHolds
    <2>. QED
      BY <1>2, <2>1, <2>2 DEF RunHolds
  <1>16. ValuesHold' /\ CompositesHold'
    BY <1>2, <1>10, <1>11 DEF ValuesHold, CompositesHold, Owes, OwesComposite
  <1>. QED
    BY <1>12, <1>13, <1>14, <1>15, <1>16

\* Noting that another run began changes nothing else of a run.
LEMMA ShapeUnclean ==
    ASSUME NEW run, RunShape(run), NEW after, after = [run EXCEPT !.clean = FALSE]
    PROVE  /\ RunShape(after) /\ after.phase = run.phase /\ after.kind = run.kind
           /\ after.hist = run.hist /\ after.split = run.split /\ after.touched = run.touched
           /\ after.series = run.series /\ after.todo = run.todo /\ after.clean = FALSE
  BY FieldsOfARun DEF RunShape

\* A run that begins takes over what its import left to do.
LEMMA BeginStep ==
    ASSUME IInv, NEW p \in Passes, NEW run, RunShape(run), Begin(p, run),
           run.hist = Idle.hist, run.clean,
           Working(run) => run.phase = "loading" /\ run.todo = Instruments,
           run.kind # "incremental" => \A i \in Instruments : run.touched[i] = {},
           \A i \in Instruments : \A s \in run.touched[i] : bars[i][s] > 0,
           ~ Working(run) => \A i \in Instruments : run.touched[i] = {},
           UNCHANGED <<bars, stamp, revised, split, imports, values, composites>>,
           due' \subseteq due,
           \A j \in Instruments, t \in Sessions : Open(j, t) => Open(j, t)' \/ t \in run.touched[j]
    PROVE  IInv'
  <1>. USE DEF IInv
  <1> DEFINE begun == [run EXCEPT !.clean = ~Overlapping(p)]
  <1>1. /\ pass[p].phase = "idle"
        /\ pass' = [q \in Passes |-> IF q = p THEN begun ELSE [pass[q] EXCEPT !.clean = FALSE]]
        /\ missed' = IF Overlapping(p) THEN Everything
                     ELSE [missed EXCEPT !.rows = @ \cup Overlooked(run.touched)]
    BY DEF Begin
  <1>2. /\ RunShape(begun) /\ begun.phase = run.phase /\ begun.kind = run.kind
        /\ begun.hist = run.hist /\ begun.split = run.split /\ begun.touched = run.touched
        /\ begun.todo = run.todo /\ begun.clean = ~Overlapping(p)
    BY FieldsOfARun DEF RunShape, Overlapping
  <1>3. ASSUME NEW q \in Passes \ {p}
        PROVE  /\ RunShape(pass'[q]) /\ pass'[q].phase = pass[q].phase
               /\ pass'[q].kind = pass[q].kind /\ pass'[q].hist = pass[q].hist
               /\ pass'[q].split = pass[q].split /\ pass'[q].touched = pass[q].touched
               /\ pass'[q].series = pass[q].series /\ pass'[q].todo = pass[q].todo
               /\ pass'[q].clean = FALSE
    <2>1. pass'[q] = [pass[q] EXCEPT !.clean = FALSE]
      BY <1>1
    <2>2. RunShape(pass[q])
      BY DEF Shapes
    <2>. QED
      BY ONLY <2>1, <2>2, ShapeUnclean, ZenonT(60)
  <1>4. pass'[p] = begun
    BY <1>1
  <1>. HIDE DEF begun
  <1>5. ~ Overlapping(p) => \A q \in Passes : ~ Working(pass[q])
    BY <1>1 DEF Overlapping, Working
  <1>6. /\ missed' = [rows |-> missed'.rows, series |-> missed'.series]
        /\ Overlapping(p) => Lost'
        /\ ~ Overlapping(p) => /\ missed'.rows = missed.rows \cup Overlooked(run.touched)
                               /\ missed'.series = missed.series
    <2>1. CASE Overlapping(p)
      BY <1>1, <2>1 DEF Everything, Lost
    <2>2. CASE ~ Overlapping(p)
      <3>1. missed' = [missed EXCEPT !.rows = @ \cup Overlooked(run.touched)]
        BY <1>1, <2>2
      <3>2. missed = [rows |-> missed.rows, series |-> missed.series]
        BY DEF Shapes
      <3>. QED
        BY <2>2, <3>1, <3>2
    <2>. QED
      BY <2>1, <2>2
  <1>7. Shapes'
    <2>1. \A q \in Passes : RunShape(pass'[q])
      BY <1>2, <1>3, <1>4
    <2>2. pass' = [q \in Passes |-> pass'[q]]
      BY <1>1
    <2>. QED
      BY <1>6, <2>1, <2>2 DEF Shapes
  <1>8. TouchedHaveBars'
    <2>1. ASSUME NEW q \in Passes, NEW i \in Instruments, NEW s \in pass'[q].touched[i]
          PROVE  bars[i][s] > 0
      <3>1. CASE q = p
        BY <1>2, <1>4, <2>1, <3>1
      <3>2. CASE q # p
        BY <1>3, <2>1, <3>2 DEF TouchedHaveBars
      <3>. QED
        BY <3>1, <3>2
    <2>. QED
      BY <2>1 DEF TouchedHaveBars
  <1>9. NoRowsAhead'
    <2>1. ASSUME NEW q \in Passes, Working(pass'[q]), NEW i \in Instruments, NEW s \in Sessions,
                 pass'[q].hist[i][s] > 0
          PROVE  bars[i][s] > 0
      <3>1. CASE q = p
        <4>1. pass'[q].hist[i][s] = 0
          BY <1>2, <1>4, <3>1 DEF Idle
        <4>. QED
          BY <2>1, <4>1
      <3>2. CASE q # p
        BY <1>3, <2>1, <3>2 DEF NoRowsAhead, Working
      <3>. QED
        BY <3>1, <3>2
    <2>. QED
      BY <2>1 DEF NoRowsAhead
  <1>10. ASSUME NEW q \in Passes PROVE RunHolds(q)'
    <2> SUFFICES ASSUME Working(pass'[q]) PROVE RunHolds(q)'
      BY DEF RunHolds
    <2>1. CASE q = p
      <3>1. pass'[q].phase = "loading" /\ \A i \in Instruments : ~ Loaded(pass'[q], i)
        BY <1>2, <1>4, <2>1 DEF Working, Loaded
      <3>2. LoadHolds(pass[q])'
        BY <3>1 DEF LoadHolds, Loaded
      <3>3. pass'[q].clean \/ Lost'
        BY <1>2, <1>4, <1>6, <2>1
      <3>4. pass'[q].clean => \A q2 \in Passes \ {q} : ~ Working(pass'[q2])
        BY <1>2, <1>3, <1>4, <1>5, <2>1 DEF Working
      <3>5. pass'[q].clean => OverlookedHolds(pass[q])'
        <4>1. pass'[q].touched = run.touched /\ (pass'[q].clean => ~ Overlapping(p))
          BY <1>2, <1>4, <2>1
        <4>. QED
          BY <1>6, <4>1 DEF OverlookedHolds
      <3>6. pass'[q].kind # "incremental" => \A i \in Instruments : pass'[q].touched[i] = {}
        BY <1>2, <1>4, <2>1
      <3>. QED
        BY <3>1, <3>2, <3>3, <3>4, <3>5, <3>6 DEF RunHolds
    <2>2. CASE q # p
      <3>1. Working(pass[q]) /\ RunHolds(q)
        BY <1>3, <2>2 DEF Working
      <3>2. Overlapping(p)
        BY <1>5, <3>1
      <3>. QED
        BY <1>1, <1>3, <1>6, <2>2, <3>1, <3>2, ZenonT(60) DEF RunHolds, Working
    <2>. QED
      BY <2>1, <2>2
  <1>11. ValuesHold'
    <2>1. SUFFICES ASSUME NEW i \in Instruments, NEW s \in Sessions, NEW d \in Defs,
                          <<i, s, d>> \notin missed'.rows
                   PROVE  Fresh(i, s, d)' \/ Owes(pass'[p], i, s, d)
      BY DEF ValuesHold
    <2>2. ~ Overlapping(p) /\ <<i, s, d>> \notin missed.rows
      BY <1>6, <2>1 DEF Lost, AllRows
    <2>3. Fresh(i, s, d)
      BY <1>5, <2>1, <2>2 DEF ValuesHold, Owes
    <2>4. CASE values[i][s][d] = Row(i, s, d)
      BY <2>4 DEF Fresh, Row
    <2>5. CASE Moved(i, s, d)
      <3>1. PICK j \in Instruments, t \in Sessions : Open(j, t) /\ Near(i, s, d, j, t)
        BY <2>5 DEF Moved
      <3>2. CASE Open(j, t)'
        BY <3>1, <3>2 DEF Fresh, Moved
      <3>3. CASE t \in run.touched[j]
        <4>1. Working(run) /\ Working(pass'[p]) /\ run.phase = "loading"
          BY <1>2, <1>4, <3>3 DEF Working
        <4>2. Moves(run.touched, i, s, d)
          BY <3>1, <3>3 DEF Moves
        <4>. QED
          BY <1>2, <1>4, <4>1, <4>2 DEF Owes
      <3>. QED
        BY <3>1, <3>2, <3>3
    <2>. QED
      BY <2>3, <2>4, <2>5 DEF Fresh
  <1>12. CompositesHold'
    <2>1. SUFFICES ASSUME NEW s \in Sessions, s \notin missed'.series
                   PROVE  CompositeFresh(s)' \/ OwesComposite(pass'[p], s)
      BY DEF CompositesHold
    <2>2. ~ Overlapping(p) /\ s \notin missed.series
      BY <1>6, <2>1 DEF Lost
    <2>3. CompositeFresh(s)
      BY <1>5, <2>1, <2>2 DEF CompositesHold, OwesComposite, Working
    <2>4. CASE composites[s] = CompositeAt(bars, split, s)
      BY <2>4 DEF CompositeFresh
    <2>5. CASE CompositeMoved(s)
      <3>1. PICK j \in Instruments, t \in Sessions : Open(j, t) /\ NearComposite(s, j, t)
        BY <2>5 DEF CompositeMoved
      <3>2. CASE Open(j, t)'
        BY <3>1, <3>2 DEF CompositeFresh, CompositeMoved
      <3>3. CASE t \in run.touched[j]
        <4>1. run.phase = "loading"
          BY <3>3
        <4>2. MovesComposite(run.touched, s)
          BY <3>1, <3>3 DEF MovesComposite
        <4>. QED
          BY <1>2, <1>4, <4>1, <4>2 DEF OwesComposite
      <3>. QED
        BY <3>1, <3>2, <3>3
    <2>. QED
      BY <2>3, <2>4, <2>5 DEF CompositeFresh
  <1>. QED
    BY <1>7, <1>8, <1>9, <1>10, <1>11, <1>12

\* The pass behind an import begins.
LEMMA ComputeSinceStep ==
    ASSUME IInv, NEW p \in Passes, NEW r \in due, ComputeSince(p, r)
    PROVE  IInv'
  <1> DEFINE touched == SessionsTouchedByRun(r)
             nothing == \A i \in Instruments : touched[i] = {}
             run == [Idle EXCEPT !.phase = IF nothing THEN "finished" ELSE "loading",
                                 !.kind = "incremental", !.since = r, !.touched = touched,
                                 !.todo = IF nothing THEN {} ELSE Instruments]
  <1>1. /\ due' = due \ {r} /\ Begin(p, run)
        /\ UNCHANGED <<bars, stamp, revised, split, imports, values, composites>>
    BY DEF ComputeSince
  <1>2. touched \in [Instruments -> SUBSET Sessions]
    BY DEF SessionsTouchedByRun
  <1>3. /\ run.hist = Idle.hist /\ run.clean /\ run.touched = touched /\ run.kind = "incremental"
        /\ run.phase = IF nothing THEN "finished" ELSE "loading"
        /\ run.todo = IF nothing THEN {} ELSE Instruments
    BY DEF Idle
  <1>4. RunShape(run)
    <2>1. /\ run.hist \in Histories /\ run.split \in Splits
          /\ run.clean \in BOOLEAN /\ run.todo \subseteq Instruments /\ run.failed \subseteq Instruments
      BY IdleIsShaped DEF Idle, RunShape
    <2>2. run = [f \in DOMAIN Idle |-> run[f]]
      BY ZenonT(60) DEF Idle
    <2>. QED
      BY <1>2, <1>3, <2>1, <2>2 DEF RunShape
  <1>5. \A i \in Instruments : \A s \in touched[i] : bars[i][s] > 0
    <2>1. SUFFICES ASSUME NEW i \in Instruments, NEW s \in Sessions, s \in touched[i]
                   PROVE  bars[i][s] > 0
      BY <1>2
    <2>2. r > 0 /\ (stamp[i][s] = r \/ <<i, s, r>> \in revised)
      BY <2>1 DEF SessionsTouchedByRun, IInv, Shapes
    <2>. QED
      BY <2>2 DEF IInv, TouchedHaveBars
  <1>6. \A j \in Instruments, t \in Sessions : Open(j, t) => Open(j, t)' \/ t \in touched[j]
    BY <1>1 DEF Open, SessionsTouchedByRun
  <1>. HIDE DEF touched, run
  <1>. QED
    BY <1>1, <1>3, <1>4, <1>5, <1>6, BeginStep DEF Working

\* A run by command begins.
LEMMA ComputeAllStep ==
    ASSUME IInv, NEW p \in Passes, ComputeAll(p)
    PROVE  IInv'
  <1>1. UNCHANGED stored
    BY DEF ComputeAll, stored
  <1>2. \A j \in Instruments, t \in Sessions : Open(j, t) => Open(j, t)'
    BY <1>1 DEF stored, Open, SessionsTouchedByRun
  <1>3. ASSUME NEW run, Begin(p, run), RunShape(run), run.hist = Idle.hist, run.clean,
               run.phase = "loading" /\ run.todo = Instruments, run.touched = Idle.touched
        PROVE  IInv'
    <2>1. \A i \in Instruments : run.touched[i] = {}
      BY <1>3, IdleIsShaped
    <2>. QED
      BY <1>1, <1>2, <1>3, <2>1, BeginStep DEF stored, Working
  <1>4. CASE Begin(p, [Idle EXCEPT !.phase = "loading", !.todo = Instruments])
    <2> DEFINE run == [Idle EXCEPT !.phase = "loading", !.todo = Instruments]
    <2>1. /\ run.hist = Idle.hist /\ run.clean /\ run.touched = Idle.touched
          /\ run.phase = "loading" /\ run.todo = Instruments
      BY DEF Idle
    <2>2. RunShape(run)
      BY IdleIsShaped, FieldsOfARun DEF RunShape
    <2>. HIDE DEF run
    <2>. QED
      BY <1>3, <1>4, <2>1, <2>2 DEF run
  <1>5. CASE \E d \in Commands \cap (Defs \cup {"composite"}) :
               Begin(p, [Idle EXCEPT !.phase = "loading", !.kind = "definition", !.def = d,
                                     !.todo = Instruments])
    <2>0. PICK d \in Commands \cap (Defs \cup {"composite"}) :
               Begin(p, [Idle EXCEPT !.phase = "loading", !.kind = "definition", !.def = d,
                                     !.todo = Instruments])
      BY <1>5
    <2> DEFINE run == [Idle EXCEPT !.phase = "loading", !.kind = "definition", !.def = d,
                                   !.todo = Instruments]
    <2>1. /\ run.hist = Idle.hist /\ run.clean /\ run.touched = Idle.touched
          /\ run.phase = "loading" /\ run.todo = Instruments
      BY DEF Idle
    <2>2. RunShape(run)
      BY IdleIsShaped, FieldsOfARun DEF RunShape
    <2>. HIDE DEF run
    <2>. QED
      BY <1>3, <2>0, <2>1, <2>2 DEF run
  <1>. QED
    BY <1>4, <1>5 DEF ComputeAll

\* What is fresh depends on what is stored only.
LEMMA StoredFrame ==
    ASSUME UNCHANGED stored
    PROVE  /\ \A i \in Instruments, s \in Sessions, d \in Defs : Fresh(i, s, d)' <=> Fresh(i, s, d)
           /\ \A s \in Sessions : CompositeFresh(s)' <=> CompositeFresh(s)
           /\ \A i \in Instruments, s \in Sessions : Open(i, s)' <=> Open(i, s)
  BY DEF stored, Fresh, CompositeFresh, Moved, CompositeMoved, Open, SessionsTouchedByRun, Row

\* A run that reads one instrument has read what is stored.
LEMMA LoadStep ==
    ASSUME IInv, NEW p \in Passes, NEW i \in Instruments, Load(p, i)
    PROVE  IInv'
  <1>. USE DEF IInv
  <1>1. /\ pass[p].phase = "loading" /\ i \in pass[p].todo
        /\ pass' = [pass EXCEPT ![p] = [pass[p] EXCEPT !.hist[i] = bars[i],
                           !.split[i] = split[i], !.todo = pass[p].todo \ {i}]]
        /\ UNCHANGED stored /\ missed' = missed
    BY DEF Load, stored
  <1>2. /\ \A k \in Instruments, s \in Sessions, d \in Defs : Fresh(k, s, d)' <=> Fresh(k, s, d)
        /\ \A s \in Sessions : CompositeFresh(s)' <=> CompositeFresh(s)
        /\ \A k \in Instruments, s \in Sessions : Open(k, s)' <=> Open(k, s)
    BY <1>1, StoredFrame
  <1>3. /\ pass' = [q \in Passes |-> pass'[q]]
        /\ \A q \in Passes \ {p} : pass'[q] = pass[q]
        /\ pass'[p] = [pass[p] EXCEPT !.hist[i] = bars[i],
                           !.split[i] = split[i], !.todo = pass[p].todo \ {i}]
    <2> DEFINE after == [pass[p] EXCEPT !.hist[i] = bars[i],
                           !.split[i] = split[i], !.todo = pass[p].todo \ {i}]
    <2>1. pass' = [pass EXCEPT ![p] = after]
      BY <1>1
    <2>2. pass = [q \in Passes |-> pass[q]]
      BY DEF Shapes
    <2>. HIDE DEF after
    <2>3. pass' = [q \in Passes |-> pass'[q]] /\ (\A q \in Passes \ {p} : pass'[q] = pass[q]) /\ pass'[p] = after
      BY <2>1, <2>2
    <2>. QED
      BY <2>3 DEF after
  <1>4. /\ RunShape(pass[p]) /\ i \in Instruments /\ split[i] \in Sessions \cup {0}
        /\ bars[i] \in [Sessions -> Nat] /\ \A s \in Sessions : bars[i][s] > 0 => s \in Calendar[i]
    BY DEF Shapes, Histories, Splits
  <1>5. /\ RunShape(pass'[p]) /\ pass'[p].phase = pass[p].phase /\ pass'[p].kind = pass[p].kind
        /\ pass'[p].touched = pass[p].touched /\ pass'[p].clean = pass[p].clean
        /\ pass'[p].todo = pass[p].todo \ {i}
        /\ pass'[p].hist = [pass[p].hist EXCEPT ![i] = bars[i]]
        /\ pass'[p].split = [pass[p].split EXCEPT ![i] = split[i]]
    <2> DEFINE run == pass[p]
               after == pass'[p]
    <2>1. RunShape(run) /\ after = [run EXCEPT !.hist[i] = bars[i], !.split[i] = split[i],
                                                !.todo = run.todo \ {i}]
      BY <1>3, <1>4
    <2>. HIDE DEF run, after
    <2>2. /\ RunShape(after) /\ after.phase = run.phase /\ after.kind = run.kind
          /\ after.touched = run.touched /\ after.clean = run.clean
          /\ after.todo = run.todo \ {i}
          /\ after.hist = [run.hist EXCEPT ![i] = bars[i]] /\ after.split = [run.split EXCEPT ![i] = split[i]]
      BY ONLY <1>4, <2>1, FieldsOfARun DEF RunShape, Histories, Splits
    <2>. QED
      BY <2>2 DEF run, after
  <1>6. /\ pass'[p].hist[i] = bars[i] /\ pass'[p].split[i] = split[i]
        /\ \A k \in Instruments \ {i} : /\ pass'[p].hist[k] = pass[p].hist[k]
                                        /\ pass'[p].split[k] = pass[p].split[k]
    BY <1>4, <1>5 DEF RunShape, Histories, Splits
  <1>7. Shapes'
    <2>1. \A q \in Passes : RunShape(pass'[q])
      BY <1>3, <1>5 DEF Shapes
    <2>. QED
      BY <1>1, <1>3, <2>1 DEF Shapes, stored
  <1>8. TouchedHaveBars'
    <2>1. \A q \in Passes : pass'[q].touched = pass[q].touched
      BY <1>3, <1>5
    <2>. QED
      BY <1>1, <2>1 DEF TouchedHaveBars, stored
  <1>9. NoRowsAhead'
    <2>1. ASSUME NEW q \in Passes, Working(pass'[q]), NEW k \in Instruments, NEW s \in Sessions,
                 pass'[q].hist[k][s] > 0
          PROVE  bars[k][s] > 0
      <3>1. CASE q = p /\ k = i
        BY <1>6, <2>1, <3>1
      <3>2. CASE q # p \/ k # i
        <4>1. Working(pass[q])
          BY <1>3, <1>5, <2>1 DEF Working
        <4>2. pass[q].hist[k] = pass'[q].hist[k]
          BY <1>3, <1>6, <3>2
        <4>. QED
          BY <2>1, <4>1, <4>2 DEF NoRowsAhead
      <3>. QED
        BY <3>1, <3>2
    <2>. QED
      BY <1>1, <2>1 DEF NoRowsAhead, stored
  <1>10. ASSUME NEW q \in Passes PROVE RunHolds(q)'
    <2> SUFFICES ASSUME Working(pass'[q]) PROVE RunHolds(q)'
      BY DEF RunHolds
    <2>0. Working(pass[q]) /\ RunHolds(q)
      BY <1>3, <1>5 DEF Working
    <2>1. CASE q = p
      <3>1. ASSUME LoadHolds(pass[p]) PROVE LoadHolds(pass[p])'
        <4>1. GrewAt(pass'[p].hist, pass'[p].split, bars, split, i)
          <5>1. GrewAt(bars, split, bars, split, i)
            BY GrewFromItself
          <5>. QED
            BY <1>6, <5>1 DEF GrewAt
        <4>2. \A s \in pass'[p].touched[i] : pass'[p].hist[i][s] > 0
          BY <1>5, <1>6 DEF TouchedHaveBars
        <4>3. ASSUME NEW k \in Instruments \ {i}, Loaded(pass'[p], k)
              PROVE  /\ GrewAt(pass'[p].hist, pass'[p].split, bars, split, k)
                     /\ \A s \in Sessions : pass'[p].hist[k][s] = bars[k][s] \/ Open(k, s)
                     /\ \A s \in pass'[p].touched[k] : pass'[p].hist[k][s] > 0
          <5>1. Loaded(pass[p], k)
            BY <1>5, <4>3 DEF Loaded
          <5>2. /\ GrewAt(pass[p].hist, pass[p].split, bars, split, k)
                /\ \A s \in Sessions : pass[p].hist[k][s] = bars[k][s] \/ Open(k, s)
                /\ \A s \in pass[p].touched[k] : pass[p].hist[k][s] > 0
            BY <3>1, <5>1 DEF LoadHolds
          <5>. QED
            BY <1>5, <1>6, <5>2 DEF GrewAt
        <4>. QED
          BY <1>1, <1>2, <1>6, <4>1, <4>2, <4>3 DEF LoadHolds, stored
      <3>2. pass'[p].phase = "loading"
        BY <1>1, <1>5
      <3>3. (Lost => Lost') /\ (OverlookedHolds(pass[p]) => OverlookedHolds(pass[p])')
        BY <1>1, <1>5 DEF Lost, OverlookedHolds
      <3>. QED
        BY <1>1, <1>3, <1>5, <2>0, <2>1, <3>1, <3>2, <3>3 DEF RunHolds
    <2>2. CASE q # p
      <3>1. LoadHolds(pass[q]) => LoadHolds(pass[q])'
        BY <1>1, <1>2, <1>3, <2>2 DEF LoadHolds, stored
      <3>2. (Lost => Lost') /\ (OverlookedHolds(pass[q]) => OverlookedHolds(pass[q])')
        BY <1>1, <1>3, <2>2 DEF Lost, OverlookedHolds
      <3>. QED
        BY <1>1, <1>2, <1>3, <1>5, <2>0, <2>2, <3>1, <3>2 DEF RunHolds, Working
    <2>. QED
      BY <2>1, <2>2
  <1>11. \A q \in Passes : \A k \in Instruments, s \in Sessions, d \in Defs :
            Owes(pass[q], k, s, d) => Owes(pass'[q], k, s, d)
    BY <1>1, <1>3, <1>5 DEF Owes, Working
  <1>12. \A q \in Passes : \A s \in Sessions :
            OwesComposite(pass[q], s) => OwesComposite(pass'[q], s)
    BY <1>1, <1>3, <1>5 DEF OwesComposite
  <1>13. ValuesHold' /\ CompositesHold'
    BY <1>1, <1>2, <1>11, <1>12 DEF ValuesHold, CompositesHold
  <1>. QED
    BY <1>7, <1>8, <1>9, <1>10, <1>13

\* A scope that fails leaves what its run owed that instrument missed.
LEMMA FailInstrumentStep ==
    ASSUME IInv, NEW p \in Passes, NEW i \in Instruments, FailInstrument(p, i)
    PROVE  IInv'
  <1>. USE DEF IInv
  <1>1. /\ pass[p].phase = "computing" /\ i \in pass[p].todo
        /\ pass' = [pass EXCEPT ![p].todo = @ \ {i}, ![p].failed = @ \cup {i}]
        /\ UNCHANGED stored
        /\ missed' = [missed EXCEPT !.rows = @ \cup OwedRows(pass[p], {i})]
    BY DEF FailInstrument, stored
  <1>2. /\ \A k \in Instruments, s \in Sessions, d \in Defs : Fresh(k, s, d)' <=> Fresh(k, s, d)
        /\ \A s \in Sessions : CompositeFresh(s)' <=> CompositeFresh(s)
        /\ \A k \in Instruments, s \in Sessions : Open(k, s)' <=> Open(k, s)
    BY <1>1, StoredFrame
  <1>3. /\ pass' = [q \in Passes |-> pass'[q]]
        /\ \A q \in Passes \ {p} : pass'[q] = pass[q]
        /\ pass'[p] = [pass[p] EXCEPT !.todo = pass[p].todo \ {i}, !.failed = pass[p].failed \cup {i}]
    BY <1>1 DEF Shapes
  <1>4. RunShape(pass[p]) /\ i \in Instruments
    BY DEF Shapes
  <1>5. /\ RunShape(pass'[p]) /\ pass'[p].phase = pass[p].phase /\ pass'[p].kind = pass[p].kind
        /\ pass'[p].touched = pass[p].touched /\ pass'[p].clean = pass[p].clean
        /\ pass'[p].todo = pass[p].todo \ {i} /\ pass'[p].failed = pass[p].failed \cup {i}
        /\ pass'[p].hist = pass[p].hist /\ pass'[p].split = pass[p].split
        /\ pass'[p].series = pass[p].series
    <2> DEFINE run == pass[p]
               after == pass'[p]
    <2>1. RunShape(run) /\ after = [run EXCEPT !.todo = run.todo \ {i}, !.failed = run.failed \cup {i}]
      BY <1>3, <1>4
    <2>. HIDE DEF run, after
    <2>2. /\ RunShape(after) /\ after.phase = run.phase /\ after.kind = run.kind
          /\ after.touched = run.touched /\ after.clean = run.clean
          /\ after.todo = run.todo \ {i} /\ after.failed = run.failed \cup {i}
          /\ after.hist = run.hist /\ after.split = run.split /\ after.series = run.series
      BY ONLY <1>4, <2>1, FieldsOfARun DEF RunShape
    <2>. QED
      BY <2>2 DEF run, after
  <1>6. \A q \in Passes : /\ pass'[q].phase = pass[q].phase /\ pass'[q].kind = pass[q].kind
                          /\ pass'[q].touched = pass[q].touched /\ pass'[q].clean = pass[q].clean
                          /\ pass'[q].hist = pass[q].hist /\ pass'[q].split = pass[q].split
                          /\ pass'[q].series = pass[q].series
    BY <1>3, <1>5
  <1>6a. /\ missed' = [rows |-> missed'.rows, series |-> missed'.series]
        /\ missed'.rows = missed.rows \cup OwedRows(pass[p], {i}) /\ missed'.series = missed.series
    <2>1. missed = [rows |-> missed.rows, series |-> missed.series]
      BY DEF Shapes
    <2>2. missed' = [missed EXCEPT !.rows = missed.rows \cup OwedRows(pass[p], {i})]
      BY <1>1
    <2>. QED
      BY ONLY <2>1, <2>2
  <1>7. Shapes'
    <2>1. \A q \in Passes : RunShape(pass'[q])
      BY <1>3, <1>5 DEF Shapes
    <2>2. pass' = [q \in Passes |-> pass'[q]]
      BY <1>3
    <2>3. missed' = [rows |-> missed'.rows, series |-> missed'.series]
      BY <1>6a
    <2>4. Shapes /\ UNCHANGED stored
      BY <1>1
    <2>. QED
      BY ONLY <2>1, <2>2, <2>3, <2>4 DEF Shapes, stored
  <1>8. TouchedHaveBars' /\ NoRowsAhead'
    BY <1>1, <1>6 DEF TouchedHaveBars, NoRowsAhead, Working, stored
  <1>9. ASSUME NEW q \in Passes PROVE RunHolds(q)'
    <2> SUFFICES ASSUME Working(pass'[q]) PROVE RunHolds(q)'
      BY DEF RunHolds
    <2>0. Working(pass[q]) /\ RunHolds(q)
      BY <1>6 DEF Working
    <2>1. Lost => Lost'
      BY <1>6a DEF Lost
    <2>2. LoadHolds(pass[q]) => LoadHolds(pass[q])'
      <3>1. \A k \in Instruments : Loaded(pass'[q], k) => Loaded(pass[q], k)
        BY <1>1, <1>3, <1>6 DEF Loaded
      <3>2. /\ bars' = bars /\ split' = split
            /\ pass'[q].hist = pass[q].hist /\ pass'[q].split = pass[q].split
            /\ pass'[q].touched = pass[q].touched
        BY <1>1, <1>6 DEF stored
      <3>3. ASSUME LoadHolds(pass[q]), NEW k \in Instruments, Loaded(pass'[q], k)
            PROVE  /\ GrewAt(pass[q].hist, pass[q].split, bars, split, k)
                   /\ \A s \in Sessions : pass[q].hist[k][s] = bars[k][s] \/ Open(k, s)'
                   /\ \A s \in pass[q].touched[k] : pass[q].hist[k][s] > 0
        <4>1. Loaded(pass[q], k)
          BY <3>1, <3>3
        <4>. QED
          BY ONLY <1>2, <3>3, <4>1 DEF LoadHolds
      <3>. QED
        BY ONLY <3>2, <3>3 DEF LoadHolds, GrewAt
    <2>3. pass[q].clean => \A q2 \in Passes \ {q} : ~ Working(pass'[q2])
      BY <1>6, <2>0 DEF RunHolds, Working
    <2>4. OverlookedHolds(pass[q]) => OverlookedHolds(pass[q])'
      <3>1. pass'[q].todo \subseteq pass[q].todo
        BY <1>3, <1>5
      <3>. QED
        BY <1>6a, <1>6, <3>1, ZenonT(60) DEF OverlookedHolds
    <2>. QED
      BY <1>1, <1>2, <1>6, <2>0, <2>1, <2>2, <2>3, <2>4, ZenonT(60) DEF RunHolds
  <1>10. ASSUME NEW q \in Passes, NEW k \in Instruments, NEW s \in Sessions, NEW d \in Defs,
                Owes(pass[q], k, s, d)
         PROVE  Owes(pass'[q], k, s, d) \/ <<k, s, d>> \in missed'.rows
    <2>1. CASE q = p /\ k = i
      BY <1>6a, <1>10, <2>1 DEF Owes, OwedRows
    <2>2. CASE ~ (q = p /\ k = i)
      BY <1>3, <1>5, <1>6, <1>10, <2>2, ZenonT(60) DEF Owes, Working
    <2>. QED
      BY <2>1, <2>2
  <1>11. \A q \in Passes : \A s \in Sessions :
            OwesComposite(pass[q], s) => OwesComposite(pass'[q], s)
    BY <1>6 DEF OwesComposite
  <1>12. ValuesHold' /\ CompositesHold'
    BY <1>6a, <1>2, <1>10, <1>11, ZenonT(60) DEF ValuesHold, CompositesHold
  <1>. QED
    BY <1>7, <1>8, <1>9, <1>12

\* A run that finishes owes nothing.
LEMMA FinishStep ==
    ASSUME IInv, NEW p \in Passes, Finish(p)
    PROVE  IInv'
  <1> DEFINE after == IF FeatureStatus(pass[p]) = "failed" THEN Idle
                      ELSE [pass[p] EXCEPT !.phase = "finished", !.hist = Idle.hist,
                                           !.split = Idle.split, !.series = Idle.series]
  <1>1. /\ pass[p].phase = "computing" /\ pass[p].todo = {}
        /\ pass' = [pass EXCEPT ![p] = after]
        /\ UNCHANGED stored /\ missed' = missed
    BY DEF Finish, stored
  <1>3. RunShape(pass[p])
    BY DEF IInv, Shapes
  <1>4. /\ RunShape(after) /\ ~ Working(after)
        /\ after.touched = pass[p].touched \/ \A i \in Instruments : after.touched[i] = {}
    <2>1. CASE FeatureStatus(pass[p]) = "failed"
      BY <2>1, IdleIsShaped
    <2>2. CASE FeatureStatus(pass[p]) # "failed"
      <3> DEFINE run == pass[p]
                 then == [run EXCEPT !.phase = "finished", !.hist = Idle.hist,
                                     !.split = Idle.split, !.series = Idle.series]
      <3>1. RunShape(run) /\ after = then
        BY <1>3, <2>2
      <3>2. Idle.hist \in Histories /\ Idle.split \in Splits
        BY IdleIsShaped DEF RunShape
      <3>. HIDE DEF run, after
      <3>3. RunShape(then) /\ then.phase = "finished" /\ then.touched = run.touched
        BY ONLY <3>1, <3>2, FieldsOfARun DEF RunShape
      <3>. QED
        BY <3>1, <3>3 DEF Working, run
    <2>. QED
      BY <2>1, <2>2
  <1>. HIDE DEF after
  <1>5. /\ pass' = [q \in Passes |-> pass'[q]]
        /\ \A q \in Passes \ {p} : pass'[q] = pass[q]
        /\ pass'[p] = after
    BY <1>1 DEF IInv, Shapes
  <1>6. Owed(pass[p])
    BY <1>1 DEF Owed, Owes, OwesComposite
  <1>7. missed' = [rows |-> missed'.rows, series |-> missed'.series]
    BY <1>1 DEF IInv, Shapes
  <1>8. \A q \in Passes : pass'[q] = pass[q] \/ Resigned(pass[q], pass'[q])
    BY <1>4, <1>5 DEF Resigned
  <1>. QED
    BY <1>1, <1>5, <1>6, <1>7, <1>8, CalmStep

\* A run that ends before its time leaves what it owed missed.
LEMMA AbandonedIsMissed ==
    ASSUME IInv, NEW p \in Passes, missed' = Abandoned(pass[p])
    PROVE  /\ missed' = [rows |-> missed'.rows, series |-> missed'.series]
           /\ missed.rows \subseteq missed'.rows /\ missed.series \subseteq missed'.series
           /\ Owed(pass[p])
  <1> DEFINE run == pass[p]
  <1>1. missed = [rows |-> missed.rows, series |-> missed.series]
    BY DEF IInv, Shapes
  <1>2. ASSUME NEW i \in Instruments, NEW s \in Sessions, NEW d \in Defs, Owes(run, i, s, d)
        PROVE  /\ <<i, s, d>> \in OwedRows(run, Instruments)
               /\ run.phase # "loading" => <<i, s, d>> \in OwedRows(run, run.todo)
    BY <1>2 DEF Owes, OwedRows, Working
  <1>3. \A s \in Sessions : OwesComposite(run, s) => run.phase = "loading" /\ s \in OwedSeries(run)
    BY DEF OwesComposite, OwedSeries
  <1>. HIDE DEF run
  <1>4. CASE run.phase = "loading"
    <2>1. missed' = [rows |-> missed.rows \cup OwedRows(run, Instruments),
                     series |-> missed.series \cup OwedSeries(run)]
      BY <1>4 DEF Abandoned, run
    <2>. QED
      BY <1>2, <1>3, <2>1 DEF Owed, run
  <1>5. CASE run.phase # "loading"
    <2>1. missed' = [rows |-> missed.rows \cup OwedRows(run, run.todo), series |-> missed.series]
      <3>1. missed' = [missed EXCEPT !.rows = @ \cup OwedRows(run, run.todo)]
        BY <1>5 DEF Abandoned, run
      <3>. QED
        BY <1>1, <3>1
    <2>. QED
      BY <1>2, <1>3, <1>5, <2>1 DEF Owed, run
  <1>. QED
    BY <1>4, <1>5

\* A run that fails as a whole leaves what it owed missed.
LEMMA FailStep ==
    ASSUME IInv, NEW p \in Passes, Fail(p)
    PROVE  IInv'
  <1>1. UNCHANGED stored /\ pass' = [pass EXCEPT ![p] = Idle] /\ missed' = Abandoned(pass[p])
    BY DEF Fail, stored
  <1>2. pass = [q \in Passes |-> pass[q]]
    BY DEF IInv, Shapes
  <1>3. /\ pass' = [q \in Passes |-> pass'[q]]
        /\ \A q \in Passes : pass'[q] = pass[q] \/ (q = p /\ Resigned(pass[q], pass'[q]))
    BY <1>1, <1>2, IdleIsShaped DEF Resigned
  <1>. QED
    BY <1>1, <1>3, AbandonedIsMissed, CalmStep

\* What a run owes outside the instrument's scope, at a session it comes to, is
\* nothing.
LEMMA OwedOutside ==
    ASSUME Shapes, NoRowsAhead, NEW run, AllLoaded(run), run.kind = "incremental",
           NEW i \in Instruments, NEW s \in Sessions, NEW d \in Defs,
           NEW j \in Instruments, NEW t \in run.touched[j], Near(i, s, d, j, t),
           ~ OutOfReach(run.touched, i, s),
           ~ (/\ s \in ScopeOf(run, i).from .. ScopeOf(run, i).to /\ d \in ScopeOf(run, i).defs
              /\ ScopeOf(run, i).from <= ScopeOf(run, i).to)
    PROVE  Fresh(i, s, d)
  <1>1. ScopeOf(run, i) = IncrementalScope(run.hist, run.touched, i)
    BY DEF ScopeOf
  <1>2. run.hist \in Histories /\ run.touched \in [Instruments -> SUBSET Sessions]
    BY DEF AllLoaded, RunShape
  <1>3. ~ (run.hist[i][s] > 0)
    BY <1>1, <1>2, ScopeCovers
  <1>. QED
    BY <1>3, NoBarFresh

\* The same for the composites.
LEMMA OwedCompositeOutside ==
    ASSUME Shapes, NoRowsAhead, NEW run, AllLoaded(run), run.kind = "incremental",
           NEW s \in Sessions, NEW j \in Instruments, NEW t \in run.touched[j], NearComposite(s, j, t)
    PROVE  s \in WritesComposite(run)
  <1>1. run.hist \in Histories /\ run.touched \in [Instruments -> SUBSET Sessions]
    BY DEF AllLoaded, RunShape
  <1>2. \A u \in run.touched[j] : run.hist[j][u] > 0
    BY DEF AllLoaded, LoadHolds
  <1>3. s \in CompositeRange(run.hist, run.touched)
    BY <1>1, <1>2, CompositeRangeCovers
  <1>. QED
    BY <1>3 DEF WritesComposite

\* A moved row out of reach is overlooked.
LEMMA OutOfReachIsOverlooked ==
    ASSUME NEW touched, NEW i \in Instruments, NEW s \in Sessions, NEW d \in Defs,
           Moves(touched, i, s, d), OutOfReach(touched, i, s)
    PROVE  <<i, s, d>> \in Overlooked(touched)
  BY DEF Overlooked, AllRows

\* A run writes the composite of its range.
LEMMA CompositeStep ==
    ASSUME IInv, NEW p \in Passes, ComputeComposite(p)
    PROVE  IInv'
  <1>. USE DEF IInv
  <1> DEFINE run == pass[p]
             after == pass'[p]
             series == CompositeSeries(run.hist, run.split)
             known == {s \in Sessions : series[s] # NoComposite}
             range == IF known = {} THEN {}
                      ELSE (Min(known) .. Max(known)) \cap WritesComposite(run)
  <1>1. /\ run.phase = "loading" /\ run.todo = {}
        /\ composites' = [s \in Sessions |-> IF s \in range THEN series[s] ELSE composites[s]]
        /\ pass' = [pass EXCEPT ![p].phase = "computing", ![p].todo = Scoped(run), ![p].series = series]
        /\ UNCHANGED <<bars, stamp, revised, split, imports, due, values>>
        /\ missed' = IF run.clean THEN [missed EXCEPT !.series = @ \ range] ELSE missed
    BY DEF ComputeComposite
  <1>2. RunShape(run) /\ Scoped(run) \subseteq Instruments
    BY DEF Shapes, Scoped
  <1>3. /\ pass' = [q \in Passes |-> pass'[q]]
        /\ \A q \in Passes \ {p} : pass'[q] = pass[q]
        /\ after = [run EXCEPT !.phase = "computing", !.todo = Scoped(run), !.series = series]
    BY <1>1 DEF Shapes
  <1>4. Working(run) /\ RunHolds(p)
    BY <1>1 DEF Working
  <1>5. \A s \in Sessions : series[s] = CompositeAt(run.hist, run.split, s)
    BY DEF CompositeSeries
  <1>6. \A s \in Sessions \ known : series[s] = NoComposite
    OBVIOUS
  <1>7. \A s \in known : known # {} /\ s \in Min(known) .. Max(known)
    <2>1. SUFFICES ASSUME NEW s \in known PROVE s \in Min(known) .. Max(known)
      OBVIOUS
    <2>. HIDE DEF series
    <2>2. known \subseteq Sessions
      OBVIOUS
    <2>. HIDE DEF known
    <2>3. Min(known) \in known /\ Min(known) <= s /\ Max(known) \in known /\ s <= Max(known)
      BY <2>1, <2>2, FirstOf, LastOf
    <2>. QED
      BY <2>1, <2>2, <2>3, SessionsAreNumbers
  <1>7a. range \subseteq WritesComposite(run)
    OBVIOUS
  <1>. HIDE DEF run, after, series
  <1>7b. /\ missed' = [rows |-> missed'.rows, series |-> missed'.series]
         /\ missed'.rows = missed.rows
         /\ missed'.series = IF run.clean THEN missed.series \ range ELSE missed.series
    <2>1. missed' = IF run.clean THEN [missed EXCEPT !.series = missed.series \ range] ELSE missed
      BY <1>1
    <2>. HIDE DEF range, known
    <2>2. missed = [rows |-> missed.rows, series |-> missed.series]
      BY DEF Shapes
    <2>. QED
      BY ONLY <2>1, <2>2
  <1>8. /\ RunShape(after) /\ after.phase = "computing" /\ after.kind = run.kind
        /\ after.touched = run.touched /\ after.clean = run.clean /\ after.failed = run.failed
        /\ after.todo = Scoped(run) /\ after.series = series
        /\ after.hist = run.hist /\ after.split = run.split
    BY ONLY <1>2, <1>3, FieldsOfARun DEF RunShape
  <1>9. \A s \in Sessions : composites'[s] = IF s \in range THEN series[s] ELSE composites[s]
    BY <1>1
  <1>10. \A s \in Sessions : s \in WritesComposite(run) /\ s \notin range => series[s] = NoComposite
    BY <1>6, <1>7
  <1>. HIDE DEF range, known
  <1>11. /\ \A k \in Instruments, s \in Sessions, d \in Defs : Fresh(k, s, d)' <=> Fresh(k, s, d)
         /\ \A k \in Instruments, s \in Sessions : Open(k, s)' <=> Open(k, s)
         /\ \A s \in Sessions : CompositeMoved(s)' <=> CompositeMoved(s)
    BY <1>1 DEF Fresh, Moved, CompositeMoved, Open, SessionsTouchedByRun, Row
  <1>12. run.clean => AllLoaded(run)
    BY <1>1, <1>2, <1>4 DEF RunHolds, AllLoaded, Loaded, run
  <1>13. ASSUME run.clean, NEW s \in Sessions, s \in WritesComposite(run) \/ CompositeFresh(s)
         PROVE  CompositeFresh(s)'
    <2>1. series[s] = CompositeAt(bars, split, s) \/ CompositeMoved(s)
      BY <1>5, <1>12, <1>13, LoadedComposite
    <2>2. CASE s \in range
      BY <1>1, <1>9, <1>11, <2>1, <2>2 DEF CompositeFresh
    <2>3. CASE s \notin range
      <3>1. CompositeFresh(s)
        <4>1. CASE s \in WritesComposite(run)
          <5>1. CompositeAt(run.hist, run.split, s) = NoComposite
            BY <1>5, <1>10, <2>3, <4>1
          <5>. QED
            BY <1>12, <1>13, <5>1, NoCompositeFresh
        <4>. QED
          BY <1>13, <4>1
      <3>. QED
        BY <1>1, <1>9, <1>11, <2>3, <3>1 DEF CompositeFresh
    <2>. QED
      BY <2>2, <2>3
  <1>14. Shapes'
    <2>1. \A q \in Passes : RunShape(pass'[q])
      BY <1>3, <1>8 DEF Shapes, after
    <2>2. composites' = [s \in Sessions |-> composites'[s]]
      BY <1>1
    <2>3. missed' = [rows |-> missed'.rows, series |-> missed'.series]
      BY <1>7b
    <2>. QED
      BY <1>1, <1>3, <2>1, <2>2, <2>3 DEF Shapes
  <1>15. TouchedHaveBars'
    <2>1. \A q \in Passes : pass'[q].touched = pass[q].touched
      BY <1>3, <1>8 DEF run, after
    <2>. QED
      BY <1>1, <2>1 DEF TouchedHaveBars
  <1>16. NoRowsAhead'
    <2>1. ASSUME NEW s \in Sessions, CompositeAt(bars, split, s) = NoComposite
          PROVE  composites'[s] = NoComposite
      <3>1. \A i \in Instruments : run.hist[i][s] > 0 => bars[i][s] > 0
        BY <1>4 DEF NoRowsAhead, run
      <3>2. series[s] = NoComposite
        BY <1>5, <2>1, <3>1, NoCompositeBefore
      <3>. QED
        BY <1>9, <2>1, <3>2 DEF NoRowsAhead
    <2>2. \A q \in Passes : Working(pass'[q]) => Working(pass[q]) /\ pass'[q].hist = pass[q].hist
      BY <1>3, <1>4, <1>8 DEF run, after
    <2>. QED
      BY <1>1, <2>1, <2>2 DEF NoRowsAhead
  <1>17. ASSUME NEW q \in Passes PROVE RunHolds(q)'
    <2> SUFFICES ASSUME Working(pass'[q]) PROVE RunHolds(q)'
      BY DEF RunHolds
    <2>1. CASE q = p
      <3>1. after.clean => LoadHolds(pass[p])'
        <4>1. run.clean => LoadHolds(run)
          BY <1>12 DEF AllLoaded
        <4>2. \A i \in Instruments : Loaded(run, i)
          BY <1>1 DEF Loaded, run
        <4>. QED
          BY <1>1, <1>8, <1>11, <4>1, <4>2, ZenonT(60) DEF LoadHolds, after
      <3>2. after.series = CompositeSeries(after.hist, after.split)
        BY <1>8 DEF series
      <3>3. after.clean \/ Lost'
        BY <1>4, <1>7b, <1>8 DEF RunHolds, Lost, run
      <3>4. ASSUME after.clean, after.kind = "incremental" PROVE OverlookedHolds(pass[p])'
        <4>1. OverlookedHolds(run)
          BY <1>4, <1>8, <3>4 DEF RunHolds, run
        <4>2. after.touched = run.touched /\ run.phase = "loading"
          BY <1>1, <1>8
        <4>. QED
          BY <1>7b, <4>1, <4>2 DEF OverlookedHolds, after
      <3>5. /\ after.clean => \A q2 \in Passes \ {p} : ~ Working(pass'[q2])
            /\ after.kind # "incremental" => \A i \in Instruments : after.touched[i] = {}
        BY <1>1, <1>3, <1>4, <1>8 DEF RunHolds, run
      <3>. QED
        BY <2>1, <3>1, <3>2, <3>3, <3>4, <3>5 DEF RunHolds, after
    <2>2. CASE q # p
      <3>1. pass'[q] = pass[q] /\ Working(pass[q]) /\ RunHolds(q)
        BY <1>3, <2>2
      <3>2. ~ pass[q].clean /\ ~ run.clean
        BY <1>4, <2>2, <3>1 DEF RunHolds, run
      <3>3. Lost'
        BY <1>7b, <3>1, <3>2 DEF RunHolds, Lost
      <3>. QED
        BY <1>1, <3>1, <3>2, <3>3 DEF RunHolds
    <2>. QED
      BY <2>1, <2>2
  <1>18. run.clean \/ Lost
    BY <1>4 DEF RunHolds, run
  <1>19. run.clean => \A q \in Passes \ {p} : ~ Working(pass[q])
    BY <1>4 DEF RunHolds, run
  <1>20. ValuesHold'
    <2>1. SUFFICES ASSUME NEW i \in Instruments, NEW s \in Sessions, NEW d \in Defs,
                          <<i, s, d>> \notin missed.rows, Owes(run, i, s, d)
                   PROVE  Fresh(i, s, d) \/ Owes(after, i, s, d)
      <3>1. ASSUME NEW i \in Instruments, NEW s \in Sessions, NEW d \in Defs,
                   <<i, s, d>> \notin missed.rows
            PROVE  Fresh(i, s, d) \/ Owes(run, i, s, d)
        BY <1>18, <1>19, <3>1 DEF ValuesHold, Owes, Lost, AllRows, run
      <3>. QED
        BY <1>7b, <1>11, <2>1, <3>1 DEF ValuesHold, after
    <2>2. run.clean
      BY <1>18, <2>1 DEF Lost, AllRows
    <2>3. PICK j \in Instruments : \E t \in run.touched[j] : Near(i, s, d, j, t)
      BY <2>1 DEF Owes, Moves
    <2>4. PICK t \in run.touched[j] : Near(i, s, d, j, t)
      BY <2>3
    <2>5. CASE i \in Scoped(run)
      BY <1>8, <2>1, <2>5 DEF Owes, Working
    <2>6. CASE i \notin Scoped(run)
      <3>1. run.kind = "incremental" /\ ~ (ScopeOf(run, i).from <= ScopeOf(run, i).to)
        BY <2>6 DEF Scoped
      <3>2. OverlookedHolds(run)
        BY <1>4, <2>2, <3>1 DEF RunHolds, run
      <3>3. ~ OutOfReach(run.touched, i, s)
        BY <1>1, <2>1, <3>2, OutOfReachIsOverlooked DEF OverlookedHolds, Owes
      <3>. QED
        BY <1>12, <2>2, <2>4, <3>1, <3>3, OwedOutside
    <2>. QED
      BY <2>5, <2>6
  <1>21. CompositesHold'
    <2>1. SUFFICES ASSUME NEW s \in Sessions, s \notin missed'.series PROVE CompositeFresh(s)'
      BY DEF CompositesHold
    <2>2. run.clean /\ (s \in range \/ s \notin missed.series)
      BY <1>7b, <1>18, <2>1 DEF Lost
    <2>3. CASE s \in range
      BY <1>7a, <1>13, <2>2, <2>3
    <2>4. CASE s \notin missed.series
      <3>1. CompositeFresh(s) \/ OwesComposite(run, s)
        BY <1>19, <2>2, <2>4 DEF CompositesHold, OwesComposite, Working, run
      <3>2. CASE OwesComposite(run, s)
        <4>1. PICK j \in Instruments : \E t \in run.touched[j] : NearComposite(s, j, t)
          BY <3>2 DEF OwesComposite, MovesComposite
        <4>2. PICK t \in run.touched[j] : NearComposite(s, j, t)
          BY <4>1
        <4>3. run.kind = "incremental"
          BY <1>4, <4>2 DEF RunHolds, run
        <4>4. s \in WritesComposite(run)
          BY <1>12, <2>2, <4>2, <4>3, OwedCompositeOutside
        <4>. QED
          BY <1>13, <2>2, <4>4
      <3>. QED
        BY <1>13, <2>2, <3>1, <3>2
    <2>. QED
      BY <2>2, <2>3, <2>4
  <1>. QED
    BY <1>14, <1>15, <1>16, <1>17, <1>20, <1>21

\* A run writes one instrument's scope.
LEMMA InstrumentStep ==
    ASSUME IInv, NEW p \in Passes, NEW i \in Instruments, ComputeInstrument(p, i)
    PROVE  IInv'
  <1>. USE DEF IInv
  <1> DEFINE run == pass[p]
             after == pass'[p]
             sc == ScopeOf(run, i)
             Written(s, d) == s \in sc.from .. sc.to /\ d \in sc.defs
             cleared == {i} \X (sc.from .. sc.to) \X sc.defs
             skipped == sc.from > sc.to
             done == IF skipped THEN run.done ELSE run.done \cup {i}
             from == IF skipped THEN run.from ELSE IF run.done = {} THEN sc.from ELSE Min({run.from, sc.from})
             to == IF skipped THEN run.to ELSE Max({run.to, sc.to})
  <1>1. /\ run.phase = "computing" /\ i \in run.todo
        /\ values' = [values EXCEPT ![i] = [s \in Sessions |-> [d \in Defs |->
                         IF Written(s, d) THEN RowAt(run.hist, run.split, run.series, i, s, d)
                         ELSE values[i][s][d]]]]
        /\ pass' = [pass EXCEPT ![p].todo = run.todo \ {i}, ![p].done = done,
                                ![p].from = from, ![p].to = to]
        /\ UNCHANGED <<bars, stamp, revised, split, imports, due, composites>>
        /\ missed' = IF run.clean THEN [missed EXCEPT !.rows = @ \ cleared] ELSE missed
    BY DEF ComputeInstrument
  <1>2. RunShape(run)
    BY DEF Shapes
  <1>. HIDE DEF done, from, to
  <1>3. /\ pass' = [q \in Passes |-> pass'[q]]
        /\ \A q \in Passes \ {p} : pass'[q] = pass[q]
        /\ after = [run EXCEPT !.todo = run.todo \ {i}, !.done = done, !.from = from, !.to = to]
    BY <1>1 DEF Shapes
  <1>4. Working(run) /\ RunHolds(p)
    BY <1>1 DEF Working
  <1>5. /\ \A k \in Instruments \ {i}, s \in Sessions, d \in Defs : values'[k][s][d] = values[k][s][d]
        /\ \A s \in Sessions, d \in Defs : values'[i][s][d] =
               IF Written(s, d) THEN RowAt(run.hist, run.split, run.series, i, s, d)
               ELSE values[i][s][d]
        /\ values' = [k \in Instruments |-> [s \in Sessions |-> [d \in Defs |-> values'[k][s][d]]]]
    <2> DEFINE rows == [s \in Sessions |-> [d \in Defs |->
                           IF Written(s, d) THEN RowAt(run.hist, run.split, run.series, i, s, d)
                           ELSE values[i][s][d]]]
    <2>1. rows = [s \in Sessions |-> [d \in Defs |-> rows[s][d]]]
      OBVIOUS
    <2>2. \A s \in Sessions, d \in Defs : rows[s][d] =
             IF Written(s, d) THEN RowAt(run.hist, run.split, run.series, i, s, d)
             ELSE values[i][s][d]
      OBVIOUS
    <2>3. values' = [values EXCEPT ![i] = rows]
      BY <1>1
    <2>4. values = [k \in Instruments |-> [s \in Sessions |-> [d \in Defs |-> values[k][s][d]]]]
      BY DEF Shapes
    <2>. HIDE DEF rows, run, Written
    <2>5. \A k \in Instruments : values'[k] = IF k = i THEN rows ELSE values[k]
      BY <2>3, <2>4
    <2>6. \A k \in Instruments \ {i} : values[k] = [s \in Sessions |-> [d \in Defs |-> values[k][s][d]]]
      BY <2>4
    <2>7. \A k \in Instruments : values'[k] = [s \in Sessions |-> [d \in Defs |-> values'[k][s][d]]]
      BY <2>1, <2>5, <2>6
    <2>8. values' = [k \in Instruments |-> values'[k]]
      BY <2>3, <2>4
    <2>. QED
      BY <2>2, <2>5, <2>7, <2>8
  <1>5a. \A k \in Instruments, s \in Sessions, d \in Defs :
            <<k, s, d>> \in cleared <=> k = i /\ Written(s, d)
    OBVIOUS
  <1>5b. /\ missed' = [rows |-> missed'.rows, series |-> missed'.series]
         /\ missed'.rows = IF run.clean THEN missed.rows \ cleared ELSE missed.rows
         /\ missed'.series = missed.series
    <2>1. missed' = IF run.clean THEN [missed EXCEPT !.rows = missed.rows \ cleared] ELSE missed
      BY <1>1
    <2>. HIDE DEF cleared, run
    <2>2. missed = [rows |-> missed.rows, series |-> missed.series]
      BY DEF Shapes
    <2>. QED
      BY ONLY <2>1, <2>2
  <1>. HIDE DEF run, after, Written, cleared
  <1>6. /\ RunShape(after) /\ after.phase = run.phase /\ after.kind = run.kind
        /\ after.touched = run.touched /\ after.clean = run.clean /\ after.failed = run.failed
        /\ after.todo = run.todo \ {i} /\ after.series = run.series
        /\ after.hist = run.hist /\ after.split = run.split
    BY ONLY <1>2, <1>3, FieldsOfARun DEF RunShape
  <1>7. /\ \A k \in Instruments, s \in Sessions : Open(k, s)' <=> Open(k, s)
        /\ \A k \in Instruments, s \in Sessions, d \in Defs :
              (Moved(k, s, d)' <=> Moved(k, s, d)) /\ Row(k, s, d)' = Row(k, s, d)
        /\ \A s \in Sessions : CompositeFresh(s)' <=> CompositeFresh(s)
    BY <1>1 DEF Moved, CompositeMoved, CompositeFresh, Open, SessionsTouchedByRun, Row
  <1>8. \A k \in Instruments \ {i}, s \in Sessions, d \in Defs : Fresh(k, s, d)' <=> Fresh(k, s, d)
    BY <1>5, <1>7 DEF Fresh
  <1>9. run.clean => AllLoaded(run)
    BY <1>1, <1>2, <1>4 DEF RunHolds, AllLoaded, Loaded, run
  <1>10. run.series = CompositeSeries(run.hist, run.split)
    BY <1>1, <1>4 DEF RunHolds, run
  <1>11. ASSUME run.clean, NEW s \in Sessions, NEW d \in Defs, Written(s, d) \/ Fresh(i, s, d)
         PROVE  Fresh(i, s, d)'
    <2>1. CASE Written(s, d)
      <3>1. values'[i][s][d] = Row(i, s, d) \/ Moved(i, s, d)
        BY <1>5, <1>9, <1>10, <1>11, <2>1, LoadedRow
      <3>. QED
        BY <1>7, <3>1 DEF Fresh
    <2>2. CASE ~ Written(s, d)
      BY <1>5, <1>7, <1>11, <2>2 DEF Fresh
    <2>. QED
      BY <2>1, <2>2
  <1>12. Shapes'
    <2>1. \A q \in Passes : RunShape(pass'[q])
      BY <1>3, <1>6 DEF Shapes, after
    <2>. QED
      BY <1>1, <1>3, <1>5, <1>5b, <2>1 DEF Shapes
  <1>13. TouchedHaveBars'
    <2>1. \A q \in Passes : pass'[q].touched = pass[q].touched
      BY <1>3, <1>6 DEF run, after
    <2>. QED
      BY <1>1, <2>1 DEF TouchedHaveBars
  <1>14. \A q \in Passes : Working(pass'[q]) => Working(pass[q]) /\ pass'[q].hist = pass[q].hist
    BY <1>3, <1>4, <1>6 DEF run, after
  <1>15. NoRowsAhead'
    <2>1. ASSUME NEW k \in Instruments, NEW s \in Sessions, NEW d \in Defs, bars[k][s] = 0
          PROVE  values'[k][s][d] = NoRow
      <3>1. values[k][s][d] = NoRow
        BY <2>1 DEF NoRowsAhead
      <3>2. ~ (run.hist[k][s] > 0)
        <4>1. run.hist[k][s] > 0 => bars[k][s] > 0
          BY <1>4 DEF NoRowsAhead, run
        <4>. QED
          BY <2>1, <4>1
      <3>3. k = i => RowAt(run.hist, run.split, run.series, i, s, d) = NoRow
        BY <3>2, NoBarNoRow
      <3>. QED
        BY <1>5, <3>1, <3>3
    <2>. QED
      BY <1>1, <1>14, <2>1 DEF NoRowsAhead
  <1>16. ASSUME NEW q \in Passes PROVE RunHolds(q)'
    <2> SUFFICES ASSUME Working(pass'[q]) PROVE RunHolds(q)'
      BY DEF RunHolds
    <2>1. CASE q = p
      <3>1. after.clean => LoadHolds(pass[p])'
        <4>1. run.clean => LoadHolds(run) /\ \A k \in Instruments : Loaded(run, k)
          BY <1>9 DEF AllLoaded
        <4>. QED
          BY <1>1, <1>6, <1>7, <4>1, ZenonT(60) DEF LoadHolds, after
      <3>2. after.clean \/ Lost'
        BY <1>4, <1>5b, <1>6 DEF RunHolds, Lost, run
      <3>3. ASSUME after.clean, after.kind = "incremental" PROVE OverlookedHolds(pass[p])'
        <4>1. OverlookedHolds(run)
          BY <1>4, <1>6, <3>3 DEF RunHolds, run
        <4>2. /\ after.touched = run.touched /\ after.phase = "computing" /\ run.phase = "computing"
              /\ after.todo = run.todo \ {i}
          BY <1>1, <1>6
        <4>3. SUFFICES ASSUME NEW k \in Instruments, NEW s \in Sessions, NEW d \in Defs,
                              <<k, s, d>> \in Overlooked(run.touched), k \in run.todo \ {i}
                       PROVE  <<k, s, d>> \in missed'.rows
          BY <4>2 DEF OverlookedHolds, after
        <4>4. <<k, s, d>> \in missed.rows /\ <<k, s, d>> \notin cleared
          BY <1>5a, <4>1, <4>3 DEF OverlookedHolds
        <4>. QED
          BY <1>5b, <4>4
      <3>4. /\ after.clean => \A q2 \in Passes \ {p} : ~ Working(pass'[q2])
            /\ after.kind # "incremental" => \A k \in Instruments : after.touched[k] = {}
            /\ after.series = CompositeSeries(after.hist, after.split)
        BY <1>1, <1>3, <1>4, <1>6, <1>10 DEF RunHolds, run
      <3>. QED
        BY <2>1, <3>1, <3>2, <3>3, <3>4 DEF RunHolds, after
    <2>2. CASE q # p
      <3>1. pass'[q] = pass[q] /\ Working(pass[q]) /\ RunHolds(q)
        BY <1>3, <2>2
      <3>2. ~ pass[q].clean /\ ~ run.clean
        BY <1>4, <2>2, <3>1 DEF RunHolds, run
      <3>3. Lost'
        BY <1>5b, <3>1, <3>2 DEF RunHolds, Lost
      <3>. QED
        BY <1>1, <3>1, <3>2, <3>3 DEF RunHolds
    <2>. QED
      BY <2>1, <2>2
  <1>17. run.clean \/ Lost
    BY <1>4 DEF RunHolds, run
  <1>18. run.clean => \A q \in Passes \ {p} : ~ Working(pass[q])
    BY <1>4 DEF RunHolds, run
  <1>19. ValuesHold'
    <2>1. SUFFICES ASSUME NEW k \in Instruments, NEW s \in Sessions, NEW d \in Defs,
                          <<k, s, d>> \notin missed'.rows
                   PROVE  Fresh(k, s, d)' \/ Owes(after, k, s, d)
      BY DEF ValuesHold, after
    <2>2. run.clean /\ (<<k, s, d>> \notin missed.rows \/ (k = i /\ Written(s, d)))
      BY <1>5a, <1>5b, <1>17, <2>1 DEF Lost, AllRows
    <2>3. CASE k = i /\ Written(s, d)
      BY <1>11, <2>2, <2>3
    <2>4. CASE ~ (k = i /\ Written(s, d))
      <3>1. <<k, s, d>> \notin missed.rows
        BY <2>2, <2>4
      <3>2. Fresh(k, s, d) \/ Owes(run, k, s, d)
        BY <1>18, <2>2, <3>1 DEF ValuesHold, Owes, run
      <3>3. CASE k # i
        <4>1. Owes(run, k, s, d) => Owes(after, k, s, d)
          BY <1>6, <3>3 DEF Owes, Working
        <4>. QED
          BY <1>8, <3>2, <3>3, <4>1
      <3>4. CASE k = i /\ Fresh(i, s, d)
        BY <1>11, <2>2, <3>4
      <3>5. CASE k = i /\ Owes(run, i, s, d)
        <4>1. PICK j \in Instruments : \E t \in run.touched[j] : Near(i, s, d, j, t)
          BY <3>5 DEF Owes, Moves
        <4>2. PICK t \in run.touched[j] : Near(i, s, d, j, t)
          BY <4>1
        <4>3. run.kind = "incremental"
          BY <1>4, <4>2 DEF RunHolds, run
        <4>4. OverlookedHolds(run)
          BY <1>4, <2>2, <4>3 DEF RunHolds, run
        <4>5. ~ OutOfReach(run.touched, i, s)
          BY <1>1, <3>1, <3>5, <4>4, OutOfReachIsOverlooked DEF OverlookedHolds, Owes
        <4>6. Fresh(i, s, d)
          BY <1>9, <2>2, <2>4, <3>5, <4>2, <4>3, <4>5, OwedOutside DEF Written
        <4>. QED
          BY <1>11, <2>2, <3>5, <4>6
      <3>. QED
        BY <3>2, <3>3, <3>4, <3>5
    <2>. QED
      BY <2>3, <2>4
  <1>20. CompositesHold'
    <2>1. \A s \in Sessions : ~ OwesComposite(run, s)
      BY <1>1 DEF OwesComposite
    <2>2. \A q \in Passes, s \in Sessions : OwesComposite(pass[q], s) => OwesComposite(pass'[q], s)
      BY <1>3, <2>1 DEF run
    <2>. QED
      BY <1>1, <1>5b, <1>7, <2>2 DEF CompositesHold
  <1>. QED
    BY <1>12, <1>13, <1>15, <1>16, <1>19, <1>20

\* Every step of the feature engine keeps the invariant.
LEMMA FeatureStepKeeps ==
    ASSUME IInv, FeatureNext
    PROVE  IInv'
  BY ImportStep, ComputeSinceStep, ComputeAllStep, LoadStep, InstrumentStep, FailInstrumentStep,
     CompositeStep, FinishStep, FailStep DEF FeatureNext

\* The strategy engine only reads what the feature engine keeps.
LEMMA ScoreSinceStep ==
    ASSUME IInv, NEW p \in Passes, ScoreSinceFeatureRun(p)
    PROVE  IInv'
  <1> DEFINE run == pass[p]
             after == pass'[p]
  <1>1. /\ UNCHANGED stored /\ missed' = missed
        /\ run.phase = "finished" /\ pass' = [pass EXCEPT ![p].phase = "scoring"]
    BY DEF ScoreSinceFeatureRun, stored
  <1>2. /\ pass' = [q \in Passes |-> pass'[q]]
        /\ \A q \in Passes \ {p} : pass'[q] = pass[q]
        /\ after = [run EXCEPT !.phase = "scoring"]
    BY <1>1 DEF IInv, Shapes
  <1>3. RunShape(run) /\ ~ Working(run)
    BY <1>1 DEF IInv, Shapes, Working
  <1>. HIDE DEF run, after
  <1>4. RunShape(after) /\ after.phase = "scoring" /\ after.touched = run.touched
    BY <1>2, <1>3, FieldsOfARun DEF RunShape
  <1>5. Resigned(run, after)
    BY <1>4 DEF Resigned, Working
  <1>6. Owed(run)
    BY <1>3 DEF Owed, Owes, OwesComposite, Working
  <1>7. missed' = [rows |-> missed'.rows, series |-> missed'.series]
    BY <1>1 DEF IInv, Shapes
  <1>. QED
    BY <1>1, <1>2, <1>5, <1>6, <1>7, CalmStep DEF run, after

\* A full scoring begins.
LEMMA ScoreAllStep ==
    ASSUME IInv, NEW p \in Passes, ScoreAll(p)
    PROVE  IInv'
  <1> DEFINE after == [Idle EXCEPT !.phase = "scoring"]
  <1>1. /\ UNCHANGED stored /\ missed' = missed
        /\ pass[p].phase = "idle" /\ pass' = [pass EXCEPT ![p] = after]
    BY DEF ScoreAll, stored
  <1>2. RunShape(after) /\ after.phase = "scoring" /\ after.touched = Idle.touched
    BY IdleIsShaped, FieldsOfARun DEF RunShape
  <1>. HIDE DEF after
  <1>3. \A run : Resigned(run, after)
    BY <1>2, IdleIsShaped DEF Resigned, Working
  <1>4. /\ pass' = [q \in Passes |-> pass'[q]]
        /\ \A q \in Passes \ {p} : pass'[q] = pass[q]
        /\ pass'[p] = after
    BY <1>1 DEF IInv, Shapes
  <1>5. Owed(pass[p])
    BY <1>1 DEF Owed, Owes, OwesComposite, Working
  <1>6. missed' = [rows |-> missed'.rows, series |-> missed'.series]
    BY <1>1 DEF IInv, Shapes
  <1>. QED
    BY <1>1, <1>3, <1>4, <1>5, <1>6, CalmStep

\* A scoring ends.
LEMMA EndScoringStep ==
    ASSUME IInv, NEW p \in Passes, EndScoring(p)
    PROVE  IInv'
  <1>1. /\ UNCHANGED stored /\ missed' = missed
        /\ pass[p].phase = "scoring" /\ pass' = [pass EXCEPT ![p] = Idle]
    BY DEF EndScoring, stored
  <1>2. /\ pass' = [q \in Passes |-> pass'[q]]
        /\ \A q \in Passes \ {p} : pass'[q] = pass[q]
        /\ pass'[p] = Idle
    BY <1>1 DEF IInv, Shapes
  <1>3. Owed(pass[p]) /\ Resigned(pass[p], Idle)
    BY <1>1, IdleIsShaped DEF Owed, Owes, OwesComposite, Working, Resigned
  <1>4. missed' = [rows |-> missed'.rows, series |-> missed'.series]
    BY <1>1 DEF IInv, Shapes
  <1>. QED
    BY <1>1, <1>2, <1>3, <1>4, CalmStep

\* A process dies; what it had not written is missed.
LEMMA CrashStep ==
    ASSUME IInv, NEW p \in Passes, Crash(p)
    PROVE  IInv'
  <1>1. UNCHANGED stored /\ pass' = [pass EXCEPT ![p] = Idle] /\ missed' = Abandoned(pass[p])
    BY DEF Crash, stored
  <1>2. /\ pass' = [q \in Passes |-> pass'[q]]
        /\ \A q \in Passes \ {p} : pass'[q] = pass[q]
        /\ pass'[p] = Idle
    BY <1>1 DEF IInv, Shapes
  <1>3. Resigned(pass[p], Idle)
    BY IdleIsShaped DEF Resigned
  <1>. QED
    BY <1>1, <1>2, <1>3, AbandonedIsMissed, CalmStep

\* Every step keeps the invariant.
LEMMA InvStep == IInv /\ [Next]_vars => IInv'
  <1> SUFFICES ASSUME IInv, [Next]_vars PROVE IInv'
    OBVIOUS
  <1>0. /\ pass = [q \in Passes |-> pass[q]]
        /\ missed = [rows |-> missed.rows, series |-> missed.series]
    BY DEF IInv, Shapes
  <1>1. ASSUME UNCHANGED featureVars PROVE IInv'
    BY <1>0, <1>1, CalmStep DEF featureVars, stored
  <1>2. CASE FeatureStep
    BY <1>2, FeatureStepKeeps DEF FeatureStep
  <1>3. ASSUME NEW p \in Passes, ScoreSinceFeatureRun(p) PROVE IInv'
    BY <1>3, ScoreSinceStep
  <1>4. ASSUME NEW p \in Passes, ScoreAll(p) PROVE IInv'
    BY <1>4, ScoreAllStep
  <1>5. ASSUME NEW p \in Passes, Validate(p) \/ ReadBlock(p) \/ NextBlock(p) PROVE IInv'
    BY <1>1, <1>5 DEF Validate, ReadBlock, NextBlock
  <1>6. ASSUME NEW p \in Passes, NEW i \in Instruments, WriteSignals(p, i) PROVE IInv'
    BY <1>1, <1>6 DEF WriteSignals
  <1>7. ASSUME NEW p \in Passes, NEW i \in Instruments, WriteFails(p, i) PROVE IInv'
    BY <1>0, <1>7, CalmStep DEF WriteFails, stored
  <1>8. ASSUME NEW p \in Passes, EndScoring(p) PROVE IInv'
    BY <1>8, EndScoringStep
  <1>9. ASSUME NEW p \in Passes, Crash(p) PROVE IInv'
    BY <1>9, CrashStep
  <1>10. CASE UNCHANGED vars
    BY <1>1, <1>10 DEF vars
  <1>. QED
    BY <1>2, <1>3, <1>4, <1>5, <1>6, <1>7, <1>8, <1>9, <1>10 DEF Next

-----------------------------------------------------------------------------
(***************************************************************************)
(* What the store holds between runs.                                      *)
(***************************************************************************)
\* In every reachable state, on however many exchanges, a stored value or
\* composite that is not what the bars give is one that a run under way or due
\* still has to write, or one that missed names: a run was begun for it and
\* failed on it, died before it, overlooked it as out of its reach, or ran
\* beside another run.
THEOREM StoreIsFreshOrOwed == Spec => []IInv
  <1>1. Init => IInv
    BY InvInit
  <1>2. IInv /\ [Next]_vars => IInv'
    BY InvStep
  <1>. QED
    BY <1>1, <1>2, PTL DEF Spec

\* With no run under way and no pass due nothing is owed, so every row but the
\* missed ones is the one its bars give.
LEMMA FreshWhenQuiet ==
    ASSUME IInv, Quiet
    PROVE  /\ \A s \in Sessions \ missed.series : composites[s] = CompositeAt(bars, split, s)
           /\ \A i \in Instruments, s \in Sessions, d \in Defs :
                 <<i, s, d>> \notin missed.rows => values[i][s][d] = Row(i, s, d)
  <1>1. \A p \in Passes : ~ Working(pass[p])
    BY DEF Quiet, Working
  <1>2. \A j \in Instruments, t \in Sessions : ~ Open(j, t)
    BY DEF Quiet, Open
  <1>3. ASSUME NEW i \in Instruments, NEW s \in Sessions, NEW d \in Defs, <<i, s, d>> \notin missed.rows
        PROVE  values[i][s][d] = Row(i, s, d)
    BY <1>1, <1>2, <1>3 DEF IInv, ValuesHold, Fresh, Owes, Moved
  <1>4. ASSUME NEW s \in Sessions \ missed.series PROVE composites[s] = CompositeAt(bars, split, s)
    BY <1>1, <1>2, <1>4 DEF IInv, CompositesHold, CompositeFresh, OwesComposite, CompositeMoved, Working
  <1>. QED
    BY <1>3, <1>4

\* What incremental runs leave (features.ComputeSinceRun, incrementalScopes)
\* is what a computation of everything would, row by row and composite by
\* composite, but for those missed names: for every universe, every calendar
\* of every exchange, every pair of windows, and any order of imports, runs,
\* failures and crashes.
THEOREM OnlyMissedRowsAreStaleHolds == Spec => []OnlyMissedRowsAreStale
  <1>1. Spec => []IInv
    BY StoreIsFreshOrOwed
  <1>2. IInv => OnlyMissedRowsAreStale
    BY FreshWhenQuiet DEF OnlyMissedRowsAreStale, Row, CompositeSeries
  <1>. QED
    BY <1>1, <1>2, PTL

\* A relative strength reads the composite of its own session.
LEMMA RelReadsItsSession ==
    ASSUME NEW h, NEW sp, NEW comps, NEW i \in Instruments, NEW s \in Calendar[i],
           NEW row, row = RowAt(h, sp, comps, i, s, "rel")
    PROVE  row.absent = "" => <<s, comps[s].of>> \in row.comps
  <1> DEFINE W == WindowSessions[i][s][UserWindow]
             read == ReadSessions(i, s, "rel")
  <1>1. "rel" \in CompositeUsers /\ WindowOf("rel") = UserWindow
    BY DEF CompositeUsers, WindowOf
  <1>2. UserWindow \in Nat /\ 1 < UserWindow
    <2>1. UserWindow \in Nat /\ UserWindow # 0 /\ UserWindow # 1
      BY WindowAssumption
    <2>. QED
      BY <2>1
  <1>3. W \subseteq Sessions /\ s \in W /\ \A t \in W : t <= s
    <2>1. s \in Sessions
      BY CalendarAssumption
    <2>. QED
      BY <2>1, WindowsReachBack
  <1>3a. read = W \ {Min(W)}
    BY <1>1 DEF ReadSessions
  <1>4. Min(W) \in W /\ \A t \in W : Min(W) <= t
    BY <1>3, FirstOf
  <1>5. CASE s \notin BarsOf(h, i)
    <2>1. row = NoRow
      BY <1>5 DEF RowAt
    <2>2. row.absent = "none"
      BY <2>1 DEF NoRow
    <2>3. row.absent # ""
      BY <2>2
    <2>. QED
      BY <2>3
  <1>6. CASE s \in BarsOf(h, i) /\ WindowReason(h, i, s, UserWindow) # ""
    <2>1. row = [absent |-> WindowReason(h, i, s, UserWindow), bars |-> {}, comps |-> {}]
      BY <1>1, <1>6 DEF RowAt
    <2>2. row.absent = WindowReason(h, i, s, UserWindow)
      BY <2>1
    <2>3. row.absent # ""
      BY <1>6, <2>2
    <2>. QED
      BY <2>3
  <1>7. CASE s \in BarsOf(h, i) /\ WindowReason(h, i, s, UserWindow) = ""
    <2>1. row = IF Measured(comps, read)
                THEN [absent |-> "", bars |-> Window(h, sp, i, s, UserWindow),
                      comps |-> {<<t, comps[t].of>> : t \in read}]
                ELSE [absent |-> "composite_undefined", bars |-> {}, comps |-> {}]
      BY <1>1, <1>7 DEF RowAt
    <2>2. ~ (Cardinality(W) < UserWindow)
      BY <1>7 DEF WindowReason
    <2>3. s \in read
      <3>1. SUFFICES ASSUME Min(W) = s PROVE FALSE
        BY <1>3, <1>3a
      <3>. HIDE DEF W
      <3>2. \A t \in W : t = s
        BY <1>3, <1>4, <3>1, SessionsAreNumbers
      <3>3. W = {s}
        BY <1>3, <3>2
      <3>4. Cardinality(W) = 1
        BY <3>3, FS_Singleton
      <3>. QED
        BY <1>2, <2>2, <3>4
    <2>. HIDE DEF read
    <2>4. CASE Measured(comps, read)
      <3> DEFINE window == Window(h, sp, i, s, UserWindow)
                 pairs == {<<t, comps[t].of>> : t \in read}
      <3>0. <<s, comps[s].of>> \in pairs
        BY <2>3
      <3>1. row = [absent |-> "", bars |-> window, comps |-> pairs]
        BY <2>1, <2>4
      <3>. HIDE DEF window, pairs
      <3>2. row.comps = pairs
        BY ONLY <3>1
      <3>3. <<s, comps[s].of>> \in row.comps
        BY <3>0, <3>2
      <3>. QED
        BY <3>3
    <2>5. CASE ~ Measured(comps, read)
      <3>1. row.absent = "composite_undefined"
        BY <2>1, <2>5
      <3>2. row.absent # ""
        BY <3>1
      <3>. QED
        BY <3>2
    <2>. QED
      BY <2>4, <2>5
  <1>. QED
    BY <1>5, <1>6, <1>7

\* A row of a past session reads nothing after it, so it is the row of the
\* history cut off there.
LEMMA PointInTimeWhenQuiet == IInv => ReadsArePointInTime
  <1> SUFFICES ASSUME IInv, Quiet, NEW i \in Instruments, NEW asOf \in Calendar[i]
               PROVE
        LET then == [j \in Instruments |-> [s \in Sessions |-> IF s <= asOf THEN bars[j][s] ELSE 0]]
            known == [j \in Instruments |-> IF split[j] <= asOf THEN split[j] ELSE 0]
            answer == Read(i, asOf)
            last == Max(BarsOf(then, i))
        IN  IF BarsOf(then, i) = {} THEN answer = Refused
            ELSE /\ answer.session = last
                 /\ \A d \in Defs : <<i, last, d>> \notin missed.rows =>
                        answer.rows[d] = FullValues(then, known)[i][last][d]
                 /\ (/\ <<i, last, "rel">> \notin missed.rows /\ last \notin missed.series
                     /\ answer.rows["rel"].absent = "") =>
                        <<last, answer.compared.of>> \in answer.rows["rel"].comps
    BY DEF ReadsArePointInTime
  <1> DEFINE then == [j \in Instruments |-> [s \in Sessions |-> IF s <= asOf THEN bars[j][s] ELSE 0]]
             known == [j \in Instruments |-> IF split[j] <= asOf THEN split[j] ELSE 0]
             answer == Read(i, asOf)
             held == {s \in BarsOf(bars, i) : s <= asOf}
             last == Max(held)
             series == CompositeSeries(bars, split)
  <1>1. asOf \in Sessions /\ Sessions \cup {0} \subseteq Nat
    BY SessionsAreNumbers, CalendarAssumption
  <1>2. bars \in Histories /\ split \in Splits
    BY DEF IInv, Shapes
  <1>3. then \in Histories
    <2>1. \A j \in Instruments, s \in Sessions : bars[j][s] \in Nat /\ (bars[j][s] > 0 => s \in Calendar[j])
      BY <1>2 DEF Histories
    <2>. QED
      BY <2>1 DEF Histories
  <1>4. known \in Splits
    BY <1>2 DEF Splits
  <1>5. \A j \in Instruments, s \in Sessions : then[j][s] = IF s <= asOf THEN bars[j][s] ELSE 0
    OBVIOUS
  <1>6. \A j \in Instruments : known[j] = IF split[j] <= asOf THEN split[j] ELSE 0
    OBVIOUS
  <1>7. /\ \A s \in Sessions \ missed.series : composites[s] = series[s]
        /\ \A s \in Sessions, d \in Defs :
              <<i, s, d>> \notin missed.rows => values[i][s][d] = RowAt(bars, split, series, i, s, d)
    BY FreshWhenQuiet DEF CompositeSeries, Row
  <1>. HIDE DEF then, known
  <1>8. ASSUME NEW k \in Instruments PROVE GrewAt(then, known, bars, split, k)
    <2>1. \A s \in Sessions : then[k][s] > 0 => bars[k][s] > 0
      BY <1>5
    <2>2. ASSUME NEW s \in Sessions, NEW u \in Sessions, bars[k][s] > 0, then[k][u] > 0
          PROVE  \E v \in Sessions : v <= s /\ then[k][v] > 0
      <3>1. u <= asOf /\ s \in Nat /\ u \in Nat /\ asOf \in Nat
        BY <1>1, <1>5, <2>2
      <3>2. CASE s <= asOf
        <4>1. then[k][s] > 0 /\ s <= s
          BY <1>5, <2>2, <3>1, <3>2
        <4>. QED
          BY <4>1
      <3>3. CASE ~ (s <= asOf)
        <4>1. u <= s
          BY <3>1, <3>3
        <4>. QED
          BY <2>2, <4>1
      <3>. QED
        BY <3>2, <3>3
    <2>3. split[k] = known[k] \/ (known[k] = 0 /\ \A s \in Sessions : then[k][s] > 0 => s < split[k])
      <3>1. CASE split[k] <= asOf
        BY <1>6, <3>1
      <3>2. CASE ~ (split[k] <= asOf)
        <4>1. known[k] = 0
          BY <1>6, <3>2
        <4>2. split[k] \in Sessions \cup {0}
          BY <1>2 DEF Splits
        <4>3. split[k] \in Nat /\ asOf \in Nat
          BY <1>1, <4>2
        <4>4. \A s \in Sessions : then[k][s] > 0 => s <= asOf /\ s \in Nat
          BY <1>1, <1>5
        <4>5. \A s \in Sessions : then[k][s] > 0 => s < split[k]
          BY <3>2, <4>3, <4>4
        <4>. QED
          BY <4>1, <4>5
      <3>. QED
        BY <3>1, <3>2
    <2>. QED
      BY <2>1, <2>2, <2>3 DEF GrewAt
  <1>9. BarsOf(then, i) = held
    <2>1. BarsOf(then, i) = {s \in Sessions : then[i][s] > 0}
      BY <1>3, BarsAreSessions
    <2>2. BarsOf(bars, i) = {s \in Sessions : bars[i][s] > 0}
      BY <1>2, BarsAreSessions
    <2>. QED
      BY <1>5, <2>1, <2>2
  <1>10. CASE held = {}
    <2>1. answer = Refused
      BY <1>10 DEF Read
    <2>. QED
      BY <1>9, <1>10, <2>1 DEF then
  <1>11. CASE held # {}
    <2>1. answer = [session |-> last, rows |-> values[i][last], compared |-> composites[last]]
      BY <1>11 DEF Read
    <2>2. last \in Sessions /\ last \in Calendar[i] /\ last <= asOf
      <3>1. held \subseteq Sessions /\ held \subseteq Calendar[i]
        BY <1>2, BarsAreSessions
      <3>2. last \in held
        BY <1>11, <3>1, LastOf
      <3>. QED
        BY <3>1, <3>2
    <2>. HIDE DEF last, answer, held
    <2>3. ASSUME NEW d \in Defs
          PROVE  RowAt(then, known, CompositeSeries(then, known), i, last, d)
                     = RowAt(bars, split, series, i, last, d)
      <3>1. \A j \in Instruments, t \in Sessions : Near(i, last, d, j, t) => then[j][t] = bars[j][t]
        <4>1. SUFFICES ASSUME NEW j \in Instruments, NEW t \in Sessions, t <= last
                       PROVE  then[j][t] = bars[j][t]
          BY <2>2, NearIsPast
        <4>2. t <= asOf
          BY <1>1, <2>2, <4>1
        <4>. QED
          BY <1>5, <4>2
      <3>. QED
        BY <1>2, <1>3, <1>4, <1>8, <2>2, <3>1, RowAgrees
    <2>4. ASSUME NEW d \in Defs, <<i, last, d>> \notin missed.rows
          PROVE  answer.rows[d] = FullValues(then, known)[i][last][d]
      <3>1. FullValues(then, known)[i][last][d] =
               RowAt(then, known, CompositeSeries(then, known), i, last, d)
        BY <2>2 DEF FullValues
      <3>2. values[i][last][d] = RowAt(bars, split, series, i, last, d)
        BY <1>7, <2>2, <2>4
      <3>. QED
        BY <2>1, <2>3, <3>1, <3>2
    <2>5. ASSUME <<i, last, "rel">> \notin missed.rows, last \notin missed.series,
                 answer.rows["rel"].absent = ""
          PROVE  <<last, answer.compared.of>> \in answer.rows["rel"].comps
      <3>1. answer.rows["rel"] = RowAt(bars, split, series, i, last, "rel")
        BY <1>7, <2>1, <2>2, <2>5 DEF Defs
      <3>2. answer.compared = series[last]
        BY <1>7, <2>1, <2>2, <2>5
      <3>. QED
        BY <2>2, <2>5, <3>1, <3>2, RelReadsItsSession
    <2>6. answer.session = last
      BY <2>1
    <2>8. last = Max(BarsOf(then, i)) /\ BarsOf(then, i) # {}
      BY <1>9, <1>11 DEF last
    <2>. QED
      BY <2>4, <2>5, <2>6, <2>8 DEF then, known, answer
  <1>. QED
    BY <1>10, <1>11

\* What a read as of a session answers (Repository.Read) is what would have
\* been computed on that day, and a relative strength comes with the composite
\* it was measured against, for every row and composite that missed does not
\* name: after any imports, splits, runs, failures and crashes, on however
\* many exchanges.
THEOREM ReadsArePointInTimeHolds == Spec => []ReadsArePointInTime
  <1>1. Spec => []IInv
    BY StoreIsFreshOrOwed
  <1>2. IInv => ReadsArePointInTime
    BY PointInTimeWhenQuiet
  <1>. QED
    BY <1>1, <1>2, PTL
=============================================================================

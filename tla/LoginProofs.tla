----------------------------- MODULE LoginProofs -----------------------------
(***************************************************************************)
(* What signing in guarantees for every number of members and requests,    *)
(* every threshold and every set of rate limits.                           *)
(***************************************************************************)
EXTENDS MemberLogin, FiniteSetTheorems, WellFoundedInduction, TLAPS

(***************************************************************************)
(* What MapThenSumSet sums.  It folds over a set in an order of its own;   *)
(* these lemmas show that the order does not matter.                       *)
(***************************************************************************)
Pick(s) == CHOOSE x \in s : TRUE

\* One level of the fold, over the function of the levels below.
Level(g, events, s) == IF s = {} THEN 0 ELSE events[Pick(s)] + g[s \ {Pick(s)}]

SumsUp(g, events, S) == g = [s \in SUBSET S |-> Level(g, events, s)]

LEMMA FoldIsChosen ==
    ASSUME NEW events, NEW S
    PROVE  MapThenSumSet(LAMBDA t : events[t], S) = (CHOOSE g : SumsUp(g, events, S))[S]
  BY Zenon DEF MapThenSumSet, MapThenFoldSet, SumsUp, Level, Pick

LEMMA SmallestSize ==
    ASSUME NEW S \in SUBSET Nat, S # {}
    PROVE  \E s \in S : \A t \in S : s <= t
  <1> DEFINE R == OpToRel(<, Nat)
  <1>1. IsWellFoundedOn(R, Nat)
    BY NatLessThanWellFounded
  <1>2. \A y, x \in Nat : y < x => <<y, x>> \in R
    BY DEF OpToRel
  <1>. HIDE DEF R
  <1>3. PICK s \in S : \A t \in S : ~(<<t, s>> \in R)
    BY <1>1, WFMin
  <1>4. ASSUME NEW t \in S PROVE s <= t
    <2>1. ~(t < s)
      BY <1>2, <1>3, Zenon
    <2>. QED
      BY <2>1
  <1>. QED
    BY <1>4

\* Induction over the subsets of a finite set: what holds of a set whenever it
\* holds of the smaller ones holds of all.
LEMMA SubsetInduction ==
    ASSUME NEW T, IsFiniteSet(T), NEW P,
           \A s \in SUBSET T : (\A u \in SUBSET s : u # s => u \in P) => s \in P
    PROVE  \A s \in SUBSET T : s \in P
  <1> SUFFICES ASSUME NEW b \in SUBSET T, b \notin P PROVE FALSE
    OBVIOUS
  <1> DEFINE bad   == {s \in SUBSET T : s \notin P}
             sizes == {Cardinality(s) : s \in bad}
  <1>1. \A s \in bad : IsFiniteSet(s) /\ Cardinality(s) \in Nat
    BY FS_Subset, FS_CardinalityType
  <1>2. sizes \in SUBSET Nat /\ sizes # {}
    BY <1>1
  <1>. HIDE DEF sizes
  <1>3. PICK n \in sizes : \A m \in sizes : n <= m
    BY <1>2, SmallestSize
  <1>4. PICK s \in bad : n = Cardinality(s)
    BY <1>3 DEF sizes
  <1>5. ASSUME NEW u \in SUBSET s, u # s PROVE u \in P
    <2>1. IsFiniteSet(s) /\ Cardinality(s) \in Nat
      BY <1>1, <1>4
    <2>2. Cardinality(u) \in Nat /\ Cardinality(u) < Cardinality(s)
      BY <1>5, <2>1, FS_Subset, FS_CardinalityType
    <2>3. Cardinality(u) \notin sizes
      BY <1>3, <1>4, <2>1, <2>2
    <2>. QED
      BY <1>4, <2>3 DEF sizes
  <1>. QED
    BY <1>4, <1>5

\* The fold's recursion has a solution.
LEMMA SumExists ==
    ASSUME NEW T, IsFiniteSet(T), NEW events
    PROVE  \E g : SumsUp(g, events, T)
  <1> DEFINE Upto(g, n) == \A s \in SUBSET T : Cardinality(s) <= n => g[s] = Level(g, events, s)
             reached == {n \in Nat : \E g : Upto(g, n)}
  <1>1. \A s \in SUBSET T : IsFiniteSet(s) /\ Cardinality(s) \in Nat
    BY FS_Subset, FS_CardinalityType
  <1>2. \A s \in SUBSET T : s # {} => Pick(s) \in s
    BY DEF Pick
  <1>3. ASSUME NEW n \in Nat, NEW g, Upto(g, n)
        PROVE  Upto([s \in SUBSET T |-> Level(g, events, s)], n + 1)
    <2> DEFINE h == [s \in SUBSET T |-> Level(g, events, s)]
    <2> SUFFICES ASSUME NEW s \in SUBSET T, Cardinality(s) <= n + 1 PROVE h[s] = Level(h, events, s)
      OBVIOUS
    <2>1. CASE s = {}
      BY <2>1 DEF Level
    <2>2. CASE s # {}
      <3> DEFINE u == s \ {Pick(s)}
      <3>1. u \in SUBSET T /\ Cardinality(u) = Cardinality(s) - 1
        BY <1>1, <1>2, <2>2, FS_RemoveElement
      <3>2. Cardinality(u) <= n
        BY <1>1, <3>1
      <3>3. h[u] = g[u]
        BY <1>3, <3>1, <3>2
      <3>. QED
        BY <2>2, <3>3 DEF Level
    <2>. QED
      BY <2>1, <2>2
  <1>4. 0 \in reached
    <2>1. Upto([s \in SUBSET T |-> 0], 0)
      <3> SUFFICES ASSUME NEW s \in SUBSET T, Cardinality(s) <= 0
                   PROVE  0 = Level([u \in SUBSET T |-> 0], events, s)
        OBVIOUS
      <3>1. s = {}
        BY <1>1, FS_EmptySet
      <3>. QED
        BY <3>1 DEF Level
    <2>. QED
      BY <2>1
  <1>5. reached = Nat
    <2> SUFFICES ASSUME Nat \ reached # {} PROVE FALSE
      OBVIOUS
    <2>1. PICK n \in Nat \ reached : \A m \in Nat \ reached : n <= m
      BY SmallestSize
    <2>2. n # 0 /\ n - 1 \in Nat
      BY <1>4, <2>1
    <2>3. n - 1 \in reached
      BY <2>1, <2>2
    <2>4. PICK g : Upto(g, n - 1)
      BY <2>3
    <2>5. Upto([s \in SUBSET T |-> Level(g, events, s)], (n - 1) + 1)
      BY <1>3, <2>2, <2>4
    <2>6. (n - 1) + 1 = n
      OBVIOUS
    <2>. HIDE DEF Upto
    <2>. QED
      BY <2>1, <2>5, <2>6
  <1>6. Cardinality(T) \in Nat /\ \A s \in SUBSET T : Cardinality(s) <= Cardinality(T)
    BY FS_Subset, FS_CardinalityType
  <1>7. PICK g : Upto(g, Cardinality(T))
    BY <1>5, <1>6
  <1> DEFINE h == [s \in SUBSET T |-> Level(g, events, s)]
  <1>8. Upto(h, Cardinality(T) + 1)
    BY <1>3, <1>6, <1>7
  <1>9. ASSUME NEW s \in SUBSET T PROVE h[s] = Level(h, events, s)
    <2>. HIDE DEF h
    <2>1. Cardinality(s) <= Cardinality(T) + 1
      BY <1>1, <1>6
    <2>. QED
      BY <1>8, <2>1
  <1>10. h = [s \in SUBSET T |-> Level(h, events, s)]
    BY <1>9
  <1>. QED
    BY <1>10 DEF SumsUp

Total(events, S) == MapThenSumSet(LAMBDA t : events[t], S)

\* The sum of a set is one of its values and the sum of the others.
LEMMA TotalLevel ==
    ASSUME NEW T, IsFiniteSet(T), NEW events
    PROVE  \E g : \A s \in SUBSET T : g[s] = Total(events, s) /\ g[s] = Level(g, events, s)
  <1> DEFINE Chosen(s) == CHOOSE g : SumsUp(g, events, s)
             g == Chosen(T)
  <1>1. \A s \in SUBSET T : SumsUp(Chosen(s), events, s)
    BY FS_Subset, SumExists
  <1>2. \A s \in SUBSET T : Total(events, s) = Chosen(s)[s]
    BY FoldIsChosen DEF Total
  <1>3. SumsUp(g, events, T)
    BY <1>1
  <1>. HIDE DEF Chosen
  <1>4. ASSUME NEW s \in SUBSET T PROVE g[s] = Chosen(s)[s]
    <2> DEFINE P == {u \in SUBSET s : g[u] = Chosen(s)[u]}
    <2>1. IsFiniteSet(s)
      BY FS_Subset
    <2>2. ASSUME NEW u \in SUBSET s, \A v \in SUBSET u : v # u => v \in P
          PROVE  u \in P
      <3>1. /\ g[u] = Level(g, events, u)
            /\ Chosen(s)[u] = Level(Chosen(s), events, u)
        <4>1. Chosen(s)[u] = Level(Chosen(s), events, u)
          BY <1>1, <1>4 DEF SumsUp
        <4>2. g[u] = Level(g, events, u)
          BY <1>3 DEF SumsUp
        <4>. QED
          BY <4>1, <4>2
      <3>2. CASE u = {}
        BY <3>1, <3>2 DEF Level
      <3>3. CASE u # {}
        <4>1. u \ {Pick(u)} \in P
          BY <2>2, <3>3 DEF Pick
        <4>. QED
          BY <3>1, <3>3, <4>1 DEF Level
      <3>. QED
        BY <3>2, <3>3
    <2>3. \A u \in SUBSET s : u \in P
      <3>. HIDE DEF P
      <3>. QED
        BY <2>1, <2>2, SubsetInduction
    <2>. QED
      BY <2>3
  <1>5. \A s \in SUBSET T : g[s] = Level(g, events, s)
    BY <1>3 DEF SumsUp
  <1>. QED
    BY <1>2, <1>4, <1>5

\* Sums of numbers are numbers, and it does not matter which value comes first.
LEMMA TotalFacts ==
    ASSUME NEW T, IsFiniteSet(T), NEW events \in [T -> Nat]
    PROVE  /\ Total(events, {}) = 0
           /\ \A s \in SUBSET T : Total(events, s) \in Nat
           /\ \A s \in SUBSET T : \A x \in s : Total(events, s) = events[x] + Total(events, s \ {x})
  <1>1. PICK g : \A s \in SUBSET T : g[s] = Total(events, s) /\ g[s] = Level(g, events, s)
    BY TotalLevel
  <1>2. Total(events, {}) = 0
    BY <1>1 DEF Level
  <1>3. \A s \in SUBSET T : s # {} => Pick(s) \in s /\ s \ {Pick(s)} \in SUBSET T
    BY DEF Pick
  <1>4. \A s \in SUBSET T : s # {} => Total(events, s) = events[Pick(s)] + Total(events, s \ {Pick(s)})
    BY <1>1, <1>3 DEF Level
  <1> DEFINE P == {s \in SUBSET T :
                     /\ Total(events, s) \in Nat
                     /\ \A x \in s : Total(events, s) = events[x] + Total(events, s \ {x})}
  <1>5. ASSUME NEW s \in SUBSET T, \A u \in SUBSET s : u # s => u \in P
        PROVE  s \in P
    <2>1. CASE s = {}
      BY <1>2, <2>1
    <2>2. CASE s # {}
      <3> DEFINE p == Pick(s)
      <3>1. p \in s /\ s \ {p} \in P /\ Total(events, s) = events[p] + Total(events, s \ {p})
        BY <1>3, <1>4, <1>5, <2>2
      <3>2. events[p] \in Nat /\ Total(events, s \ {p}) \in Nat /\ Total(events, s) \in Nat
        BY <3>1
      <3>3. ASSUME NEW x \in s, x # p
            PROVE  Total(events, s) = events[x] + Total(events, s \ {x})
        <4>1. s \ {x} \in P /\ x \in s \ {p} /\ p \in s \ {x}
          BY <1>5, <3>1, <3>3
        <4>2. Total(events, s \ {p}) = events[x] + Total(events, (s \ {p}) \ {x})
          BY <3>1, <4>1
        <4>3. Total(events, s \ {x}) = events[p] + Total(events, (s \ {x}) \ {p})
          BY <4>1
        <4>4. (s \ {p}) \ {x} = (s \ {x}) \ {p} /\ (s \ {x}) \ {p} \in P
          <5>1. (s \ {p}) \ {x} = (s \ {x}) \ {p}
            OBVIOUS
          <5>2. (s \ {x}) \ {p} \in SUBSET s /\ (s \ {x}) \ {p} # s
            BY <3>1
          <5>. QED
            BY <1>5, <5>1, <5>2
        <4>5. Total(events, (s \ {x}) \ {p}) \in Nat /\ events[x] \in Nat
          BY <4>4
        <4> DEFINE rest == Total(events, (s \ {x}) \ {p})
                   left == Total(events, s \ {p})
                   right == Total(events, s \ {x})
        <4>6. left = events[x] + rest /\ right = events[p] + rest /\ Total(events, s) = events[p] + left
          BY <3>1, <4>2, <4>3, <4>4
        <4>7. rest \in Nat
          BY <4>5
        <4>. HIDE DEF p, rest, left
        <4>8. Total(events, s) = events[x] + (events[p] + rest)
          BY <3>2, <4>5, <4>6, <4>7
        <4>. QED
          BY <4>6, <4>8
      <3>. HIDE DEF p
      <3>4. \A x \in s : Total(events, s) = events[x] + Total(events, s \ {x})
        BY <3>1, <3>3
      <3>. QED
        BY <3>2, <3>4
    <2>. QED
      BY <2>1, <2>2
  <1>6. \A s \in SUBSET T : s \in P
    <2>. HIDE DEF P
    <2>. QED
      BY <1>5, SubsetInduction
  <1>. QED
    BY <1>2, <1>6

LEMMA TotalMonotone ==
    ASSUME NEW T, IsFiniteSet(T), NEW events \in [T -> Nat],
           NEW b \in SUBSET T, NEW a \in SUBSET b
    PROVE  Total(events, a) <= Total(events, b)
  <1> DEFINE P == {s \in SUBSET T : \A u \in SUBSET s : Total(events, u) <= Total(events, s)}
  <1>1. /\ \A s \in SUBSET T : Total(events, s) \in Nat
        /\ \A s \in SUBSET T : \A x \in s : Total(events, s) = events[x] + Total(events, s \ {x})
    BY TotalFacts
  <1>2. ASSUME NEW s \in SUBSET T, \A u \in SUBSET s : u # s => u \in P
        PROVE  s \in P
    <2> SUFFICES ASSUME NEW u \in SUBSET s PROVE Total(events, u) <= Total(events, s)
      OBVIOUS
    <2>1. CASE u = s
      BY <1>1, <2>1
    <2>2. CASE u # s
      <3>1. PICK x \in s : x \notin u
        BY <2>2
      <3>2. s \ {x} \in P /\ u \in SUBSET (s \ {x})
        BY <1>2, <3>1
      <3>3. Total(events, u) <= Total(events, s \ {x})
        BY <3>2
      <3>4. Total(events, s) = events[x] + Total(events, s \ {x})
        BY <1>1
      <3>5. events[x] \in Nat /\ Total(events, u) \in Nat /\ Total(events, s \ {x}) \in Nat
        BY <1>1, <3>2
      <3>. QED
        BY <3>3, <3>4, <3>5
    <2>. QED
      BY <2>1, <2>2
  <1>3. \A s \in SUBSET T : s \in P
    <2>. HIDE DEF P
    <2>. QED
      BY <1>2, SubsetInduction
  <1>. QED
    BY <1>3

\* Only the values of the set count.
LEMMA TotalAgrees ==
    ASSUME NEW T, IsFiniteSet(T), NEW e \in [T -> Nat], NEW f \in [T -> Nat],
           NEW b \in SUBSET T, \A x \in b : e[x] = f[x]
    PROVE  Total(e, b) = Total(f, b)
  <1> DEFINE P == {s \in SUBSET b : Total(e, s) = Total(f, s)}
  <1>0. IsFiniteSet(b)
    BY FS_Subset
  <1>1. /\ \A s \in SUBSET b : \A x \in s : Total(e, s) = e[x] + Total(e, s \ {x})
        /\ \A s \in SUBSET b : \A x \in s : Total(f, s) = f[x] + Total(f, s \ {x})
        /\ Total(e, {}) = 0 /\ Total(f, {}) = 0
    <2>1. SUBSET b \subseteq SUBSET T
      OBVIOUS
    <2>2. /\ \A s \in SUBSET T : \A x \in s : Total(e, s) = e[x] + Total(e, s \ {x})
          /\ Total(e, {}) = 0
      BY TotalFacts
    <2>3. /\ \A s \in SUBSET T : \A x \in s : Total(f, s) = f[x] + Total(f, s \ {x})
          /\ Total(f, {}) = 0
      BY TotalFacts
    <2>. QED
      BY <2>1, <2>2, <2>3
  <1>2. ASSUME NEW s \in SUBSET b, \A u \in SUBSET s : u # s => u \in P
        PROVE  s \in P
    <2>1. CASE s = {}
      BY <1>1, <2>1
    <2>2. CASE s # {}
      <3>1. PICK x \in s : TRUE
        BY <2>2
      <3>2. s \ {x} \in P /\ e[x] = f[x]
        BY <1>2, <3>1
      <3>. QED
        BY <1>1, <3>2
    <2>. QED
      BY <2>1, <2>2
  <1>3. \A s \in SUBSET b : s \in P
    <2>. HIDE DEF P
    <2>. QED
      BY <1>0, <1>2, SubsetInduction
  <1>. QED
    BY <1>3

LEMMA TotalOfNothing ==
    ASSUME NEW T, IsFiniteSet(T), NEW b \in SUBSET T
    PROVE  Total([t \in T |-> 0], b) = 0
  <1> DEFINE e == [t \in T |-> 0]
             P == {s \in SUBSET b : Total(e, s) = 0}
  <1>0. IsFiniteSet(b) /\ e \in [T -> Nat] /\ \A t \in T : e[t] = 0
    BY FS_Subset
  <1>. HIDE DEF e
  <1>1. /\ Total(e, {}) = 0
        /\ \A s \in SUBSET T : \A x \in s : Total(e, s) = e[x] + Total(e, s \ {x})
    BY <1>0, TotalFacts
  <1>2. ASSUME NEW s \in SUBSET b, \A u \in SUBSET s : u # s => u \in P
        PROVE  s \in P
    <2>1. CASE s = {}
      BY <1>1, <2>1
    <2>2. CASE s # {}
      <3>1. PICK x \in s : TRUE
        BY <2>2
      <3>2. s \ {x} \in P /\ e[x] = 0 /\ s \in SUBSET T
        BY <1>0, <1>2, <3>1
      <3>. QED
        BY <1>1, <3>2
    <2>. QED
      BY <2>1, <2>2
  <1>3. \A s \in SUBSET b : s \in P
    <2>. HIDE DEF P
    <2>. QED
      BY <1>0, <1>2, SubsetInduction
  <1>. QED
    BY <1>3 DEF e

-----------------------------------------------------------------------------
(***************************************************************************)
(* The windows of events.                                                  *)
(***************************************************************************)
LEMMA TimesAreFinite == IsFiniteSet(Times) /\ MaxTime \in Nat /\ Times \subseteq Nat
  BY LoginAssumption, FS_Interval DEF Times

LEMMA NoEventsNoTotal ==
    ASSUME NEW t, NEW window
    PROVE  WindowTotal([u \in Times |-> 0], t, window) = 0
  <1> DEFINE inside == {u \in Times : t - window < u /\ u <= t}
             none == [u \in Times |-> 0]
  <1>1. inside \in SUBSET Times
    OBVIOUS
  <1>2. WindowTotal(none, t, window) = Total(none, inside)
    BY DEF WindowTotal, Total
  <1>. HIDE DEF inside
  <1>3. Total(none, inside) = 0
    BY <1>1, TimesAreFinite, TotalOfNothing
  <1>. QED
    BY <1>2, <1>3

\* An event at one time: the windows that end before it are as they were; those that
\* end later hold at most one more, and no more than is counted from its own time on.
LEMMA WindowAfterEvent ==
    ASSUME NEW e \in [Times -> Nat], NEW at \in Times, NEW t \in Times, NEW window \in Nat \ {0},
           NEW f \in [Times -> Nat], f[at] = e[at] + 1, \A x \in Times \ {at} : f[x] = e[x]
    PROVE  /\ WindowTotal(e, t, window) \in Nat /\ WindowTotal(f, t, window) \in Nat
           /\ Counted(e, at, window) \in Nat
           /\ WindowTotal(f, t, window) <= WindowTotal(e, t, window) + 1
           /\ t < at => WindowTotal(f, t, window) = WindowTotal(e, t, window)
           /\ at <= t => WindowTotal(f, t, window) <= Counted(f, at, window)
           /\ Counted(f, at, window) = Counted(e, at, window) + 1
  <1> DEFINE inside == {u \in Times : t - window < u /\ u <= t}
             counted == {u \in Times : at - window < u}
  <1>0. IsFiniteSet(Times)
    BY TimesAreFinite
  <1>1. Times \subseteq Nat
    BY TimesAreFinite
  <1>2. inside \in SUBSET Times /\ counted \in SUBSET Times /\ at \in counted
    BY <1>1
  <1>3. (t < at => at \notin inside) /\ (at <= t => inside \subseteq counted)
    <2>1. t < at => at \notin inside
      BY <1>1
    <2>2. ASSUME at <= t, NEW u \in inside PROVE u \in counted
      <3>1. at \in Nat /\ t \in Nat /\ u \in Nat /\ u \in Times /\ t - window < u
        BY <1>1
      <3>2. at - window < u
        BY <2>2, <3>1
      <3>. QED
        BY <3>1, <3>2
    <2>. QED
      BY <2>1, <2>2
  <1>4. /\ WindowTotal(e, t, window) = Total(e, inside) /\ WindowTotal(f, t, window) = Total(f, inside)
        /\ Counted(e, at, window) = Total(e, counted) /\ Counted(f, at, window) = Total(f, counted)
    BY DEF WindowTotal, Counted, Total
  <1>. HIDE DEF inside, counted
  <1>5. /\ Total(f, inside) = IF at \in inside THEN Total(e, inside) + 1 ELSE Total(e, inside)
        /\ Total(f, counted) = Total(e, counted) + 1
    <2>1. ASSUME NEW b \in SUBSET Times
          PROVE  Total(f, b) = IF at \in b THEN Total(e, b) + 1 ELSE Total(e, b)
      <3>1. CASE at \notin b
        BY <1>0, <3>1, TotalAgrees
      <3>2. CASE at \in b
        <4>1. b \ {at} \in SUBSET Times /\ \A x \in b \ {at} : f[x] = e[x]
          OBVIOUS
        <4>2. Total(f, b \ {at}) = Total(e, b \ {at})
          BY <1>0, <4>1, TotalAgrees
        <4>3. Total(f, b) = f[at] + Total(f, b \ {at})
          BY <1>0, <3>2, TotalFacts
        <4>4. Total(e, b) = e[at] + Total(e, b \ {at}) /\ Total(e, b \ {at}) \in Nat
          BY <1>0, <3>2, <4>1, TotalFacts
        <4>5. Total(f, b) = Total(e, b) + 1
          BY <4>2, <4>3, <4>4
        <4>. QED
          BY <3>2, <4>5
      <3>. QED
        BY <3>1, <3>2
    <2>. QED
      BY <1>2, <2>1
  <1>6. /\ Total(e, inside) \in Nat /\ Total(f, inside) \in Nat /\ Total(e, counted) \in Nat
    BY <1>0, <1>2, <1>5, TotalFacts
  <1>7. at <= t => Total(f, inside) <= Total(f, counted)
    BY <1>0, <1>2, <1>3, <1>5, TotalMonotone
  <1>. QED
    BY <1>3, <1>4, <1>5, <1>6, <1>7

-----------------------------------------------------------------------------
(***************************************************************************)
(* The invariant.                                                          *)
(***************************************************************************)
Handlers == [op: {"start", "verify"}, user: Members, at: Times, code: Nat, sent: BOOLEAN,
             step: {"origin", "delivery", "issue", "send", "mark", "verify"}]

\* TypeOK, and what a request carries.
Typed == TypeOK /\ requests \in [Requests -> {Idle} \cup Handlers]

\* The code of a session is one that was entered, so it is active no more.
SessionsHold ==
    \A s \in DOMAIN sessions : sessions[s].code \in DOMAIN codes /\ codes[sessions[s].code].state # "active"

\* The wrong entries an active code met are among the failures in a row.
GuessesHold ==
    \A c \in DOMAIN codes :
        /\ codes[c].wrong <= BlockThreshold
        /\ codes[c].state = "active" => codes[c].wrong <= login[codes[c].user].failures

\* Every window, wherever it ends, has room for a failure while the member is not locked.
LockHolds ==
    \A m \in Members, t \in Times :
        /\ WindowTotal(failed[m], t, LockWindow) <= LockThreshold
        /\ ~login[m].locked => WindowTotal(failed[m], t, LockWindow) < LockThreshold

RatesHold ==
    \A b \in Buckets, t \in Times : \A l \in Limits(b) : WindowTotal(rates[b], t, l.window) <= l.limit

IInv ==
    /\ Typed
    /\ SessionsHold /\ DeactivatedMembersAreOut /\ CodesOpenOneSession
    /\ GuessesHold /\ LockHolds /\ RatesHold

-----------------------------------------------------------------------------
(***************************************************************************)
(* Steps that change few things.                                           *)
(***************************************************************************)
LEMMA LoginTypes ==
    /\ MaxTime \in Nat /\ MaxCodes \in Nat /\ MaxChanges \in Nat
    /\ BlockThreshold \in Nat \ {0} /\ BlockDuration \in Nat \ {0} /\ CodeTTL \in Nat \ {0}
    /\ LockThreshold \in Nat \ {0} /\ LockWindow \in Nat \ {0}
    /\ \A b \in Buckets : \A l \in Limits(b) : l.limit \in Nat \ {0} /\ l.window \in Nat \ {0}
    /\ Members \subseteq Buckets /\ Origins \subseteq Buckets
  BY LoginAssumption DEF Buckets

\* Codes and sessions keep their owners, and none becomes active or valid again.
Ages ==
    /\ DOMAIN codes' = DOMAIN codes
    /\ \A c \in DOMAIN codes : /\ codes'[c].user = codes[c].user
                               /\ codes'[c].state = "active" => codes[c].state = "active"
    /\ DOMAIN sessions' = DOMAIN sessions
    /\ \A s \in DOMAIN sessions : /\ sessions'[s].code = sessions[s].code
                                  /\ sessions[s].revoked => sessions'[s].revoked

LEMMA AgingKeepsMembersOut ==
    ASSUME SessionsHold, DeactivatedMembersAreOut, CodesOpenOneSession, Ages,
           \A m \in Members : status'[m] = "deactivated" =>
              \/ status[m] = "deactivated"
              \/ /\ \A c \in DOMAIN codes : codes[c].user = m => codes'[c].state # "active"
                 /\ \A s \in DOMAIN sessions : codes[sessions[s].code].user = m => sessions'[s].revoked
    PROVE  SessionsHold' /\ DeactivatedMembersAreOut' /\ CodesOpenOneSession'
  <1>1. SessionsHold'
    BY DEF SessionsHold, Ages
  <1>2. CodesOpenOneSession'
    BY DEF CodesOpenOneSession, Ages
  <1>3. DeactivatedMembersAreOut'
    <2> SUFFICES ASSUME NEW m \in Members, status'[m] = "deactivated"
                 PROVE  /\ Active(m)' = {}
                        /\ \A s \in DOMAIN sessions' : codes'[sessions'[s].code].user = m => sessions'[s].revoked
      BY DEF DeactivatedMembersAreOut
    <2>1. CASE status[m] = "deactivated"
      <3>1. /\ \A c \in DOMAIN codes : ~(codes[c].user = m /\ codes[c].state = "active")
            /\ \A s \in DOMAIN sessions : codes[sessions[s].code].user = m => sessions[s].revoked
        BY <2>1 DEF DeactivatedMembersAreOut, Active
      <3>2. Active(m)' = {}
        BY <3>1 DEF Active, Ages
      <3>3. ASSUME NEW s \in DOMAIN sessions', codes'[sessions'[s].code].user = m PROVE sessions'[s].revoked
        BY <3>1, <3>3 DEF Ages, SessionsHold
      <3>. QED
        BY <3>2, <3>3
    <2>2. CASE /\ \A c \in DOMAIN codes : codes[c].user = m => codes'[c].state # "active"
               /\ \A s \in DOMAIN sessions : codes[sessions[s].code].user = m => sessions'[s].revoked
      <3>1. Active(m)' = {}
        BY <2>2 DEF Active, Ages
      <3>2. ASSUME NEW s \in DOMAIN sessions', codes'[sessions'[s].code].user = m PROVE sessions'[s].revoked
        BY <2>2, <3>2 DEF Ages, SessionsHold
      <3>. QED
        BY <3>1, <3>2
    <2>. QED
      BY <2>1, <2>2
  <1>. QED
    BY <1>1, <1>2, <1>3

\* A table of codes whose rows are those of another in order is a table of codes.
LEMMA CodesOf ==
    ASSUME TypeOK, NEW rows, rows = [c \in DOMAIN codes |-> rows[c]],
           \A c \in DOMAIN codes : rows[c] \in CodeRows
    PROVE  /\ rows \in Seq(CodeRows) /\ Len(rows) = Len(codes) /\ DOMAIN rows = DOMAIN codes
  <1>1. codes \in Seq(CodeRows) /\ DOMAIN codes = 1..Len(codes) /\ Len(codes) \in Nat
    BY DEF TypeOK
  <1>2. rows \in [1..Len(codes) -> CodeRows]
    BY <1>1
  <1>. QED
    BY <1>1, <1>2

LEMMA RetiredRows ==
    ASSUME TypeOK, NEW rows \in Seq(CodeRows), DOMAIN rows = DOMAIN codes,
           NEW m, NEW state \in CodeStates \ {"active"}
    PROVE  /\ Retired(rows, m, state) \in Seq(CodeRows)
           /\ Len(Retired(rows, m, state)) = Len(rows)
           /\ DOMAIN Retired(rows, m, state) = DOMAIN rows
           /\ \A c \in DOMAIN rows :
                 /\ Retired(rows, m, state)[c].user = rows[c].user
                 /\ Retired(rows, m, state)[c].wrong = rows[c].wrong
                 /\ Retired(rows, m, state)[c].state = "active" => rows[c].state = "active" /\ rows[c].user # m
                 /\ rows[c].user # m => Retired(rows, m, state)[c] = rows[c]
  <1> DEFINE new == Retired(rows, m, state)
  <1>1. new = [c \in DOMAIN rows |-> IF rows[c].user = m /\ rows[c].state = "active"
                                     THEN [rows[c] EXCEPT !.state = state] ELSE rows[c]]
    BY DEF Retired
  <1>2. ASSUME NEW c \in DOMAIN rows
        PROVE  /\ new[c] \in CodeRows /\ new[c].user = rows[c].user /\ new[c].wrong = rows[c].wrong
               /\ new[c].state = "active" => rows[c].state = "active" /\ rows[c].user # m
               /\ rows[c].user # m => new[c] = rows[c]
    <2>1. rows[c] \in CodeRows
      OBVIOUS
    <2>2. CASE rows[c].user = m /\ rows[c].state = "active"
      <3>1. new[c] = [rows[c] EXCEPT !.state = state]
        BY <1>1, <2>2
      <3>. QED
        BY <2>1, <2>2, <3>1 DEF CodeRows
    <2>3. CASE ~(rows[c].user = m /\ rows[c].state = "active")
      BY <1>1, <2>1, <2>3
    <2>. QED
      BY <2>2, <2>3
  <1>3. DOMAIN rows = 1..Len(rows) /\ Len(rows) \in Nat
    OBVIOUS
  <1>. HIDE DEF new
  <1>4. new \in [1..Len(rows) -> CodeRows]
    BY <1>1, <1>2, <1>3
  <1>5. new \in Seq(CodeRows) /\ Len(new) = Len(rows) /\ DOMAIN new = DOMAIN rows
    BY <1>3, <1>4
  <1>. QED
    BY <1>2, <1>5 DEF new

LEMMA InvInit == Init => IInv
  <1> SUFFICES ASSUME Init PROVE IInv
    OBVIOUS
  <1>1. Typed
    <2>1. 0 \in Times /\ 0 \in 0..(BlockThreshold - 1) /\ 0 \in 0..(MaxTime + BlockDuration)
      BY LoginTypes DEF Times
    <2>2. [failures |-> 0, blocked |-> Never, locked |-> FALSE] \in LoginRows
      BY <2>1 DEF LoginRows, Never
    <2>3. codes \in Seq(CodeRows) /\ Len(codes) = 0
      BY DEF Init
    <2>4. sessions \in Seq([code: 1..MaxCodes, revoked: BOOLEAN])
      BY DEF Init
    <2>5. /\ login \in [Members -> LoginRows] /\ failed \in [Members -> [Times -> Nat]]
          /\ rates \in [Buckets -> [Times -> Nat]] /\ status \in [Members -> {"active", "deactivated"}]
      BY <2>2 DEF Init
    <2>6. requests \in [Requests -> {Idle} \cup Handlers] /\ changes \in 0..MaxChanges /\ now \in Times
      BY <2>1, LoginTypes DEF Init
    <2>. QED
      BY <2>3, <2>4, <2>5, <2>6, LoginTypes DEF Typed, TypeOK
  <1>2. SessionsHold /\ CodesOpenOneSession /\ GuessesHold
    BY DEF Init, SessionsHold, CodesOpenOneSession, GuessesHold
  <1>3. DeactivatedMembersAreOut
    BY DEF Init, DeactivatedMembersAreOut
  <1>4. LockHolds
    <2>1. ASSUME NEW m \in Members, NEW t \in Times PROVE WindowTotal(failed[m], t, LockWindow) = 0
      BY NoEventsNoTotal DEF Init
    <2>. QED
      BY <2>1, LoginTypes DEF LockHolds
  <1>5. RatesHold
    <2>1. ASSUME NEW b \in Buckets, NEW t \in Times, NEW l \in Limits(b)
          PROVE  WindowTotal(rates[b], t, l.window) = 0
      BY NoEventsNoTotal DEF Init
    <2>. QED
      BY <2>1, LoginTypes DEF RatesHold
  <1>. QED
    BY <1>1, <1>2, <1>3, <1>4, <1>5 DEF IInv

\* The parts of the invariant about codes and members read nothing of the rates, and
\* the other way about.
LEMMA MembersFrame ==
    ASSUME IInv, UNCHANGED <<status, login, codes, sessions>>
    PROVE  SessionsHold' /\ DeactivatedMembersAreOut' /\ CodesOpenOneSession' /\ GuessesHold'
  <1>1. SessionsHold' /\ CodesOpenOneSession' /\ GuessesHold'
    BY DEF IInv, SessionsHold, CodesOpenOneSession, GuessesHold
  <1>2. DeactivatedMembersAreOut'
    BY DEF IInv, DeactivatedMembersAreOut, Active
  <1>. QED
    BY <1>1, <1>2

LEMMA LockFrame ==
    ASSUME IInv, UNCHANGED failed,
           \A m \in Members : login[m].locked => login'[m].locked
    PROVE  LockHolds'
  BY DEF IInv, LockHolds

LEMMA RatesFrame ==
    ASSUME IInv, UNCHANGED rates
    PROVE  RatesHold'
  BY DEF IInv, RatesHold

LEMMA QuietFrame ==
    ASSUME IInv, UNCHANGED <<shared, changes>>, now' \in Times,
           requests' \in [Requests -> {Idle} \cup Handlers]
    PROVE  IInv'
  <1>1. Typed'
    BY DEF IInv, Typed, TypeOK, shared
  <1>2. SessionsHold' /\ DeactivatedMembersAreOut' /\ CodesOpenOneSession' /\ GuessesHold'
    BY MembersFrame DEF shared
  <1>3. LockHolds' /\ RatesHold'
    BY LockFrame, RatesFrame DEF shared
  <1>. QED
    BY <1>1, <1>2, <1>3 DEF IInv

\* AllowRate: where every window that is counted has room, none that ends later is
\* overdrawn by one attempt more.
LEMMA RateStep ==
    ASSUME IInv, UNCHANGED <<now, status, login, failed, codes, sessions, changes>>,
           requests' \in [Requests -> {Idle} \cup Handlers],
           NEW bucket \in Buckets, NEW at \in Times,
           UNCHANGED rates \/ (Allowed(bucket, at) /\ Recorded(bucket, at))
    PROVE  IInv'
  <1>0. Typed /\ RatesHold
    BY DEF IInv
  <1>1. SessionsHold' /\ DeactivatedMembersAreOut' /\ CodesOpenOneSession' /\ GuessesHold' /\ LockHolds'
    BY MembersFrame, LockFrame
  <1>2. CASE UNCHANGED rates
    <2>1. Typed'
      BY <1>0, <1>2 DEF Typed, TypeOK
    <2>. QED
      BY <1>1, <1>2, <2>1, RatesFrame DEF IInv
  <1>3. CASE Allowed(bucket, at) /\ Recorded(bucket, at)
    <2> DEFINE e == rates[bucket]
               f == rates'[bucket]
    <2>1. /\ rates \in [Buckets -> [Times -> Nat]] /\ e \in [Times -> Nat]
          /\ rates' = [rates EXCEPT ![bucket] = [e EXCEPT ![at] = e[at] + 1]]
      BY <1>0, <1>3 DEF Typed, TypeOK, Recorded
    <2>2. /\ rates' \in [Buckets -> [Times -> Nat]] /\ f \in [Times -> Nat]
          /\ f[at] = e[at] + 1 /\ \A x \in Times \ {at} : f[x] = e[x]
          /\ \A b \in Buckets : b # bucket => rates'[b] = rates[b]
      BY <2>1
    <2>3. Typed'
      BY <1>0, <2>2 DEF Typed, TypeOK
    <2>4. RatesHold'
      <3> SUFFICES ASSUME NEW b \in Buckets, NEW t \in Times, NEW l \in Limits(b)
                   PROVE  WindowTotal(rates'[b], t, l.window) <= l.limit
        BY DEF RatesHold
      <3>1. CASE b # bucket
        BY <1>0, <2>2, <3>1 DEF RatesHold
      <3>2. CASE b = bucket
        <4>1. l.limit \in Nat \ {0} /\ l.window \in Nat \ {0}
          BY LoginTypes
        <4>2. Counted(e, at, l.window) < l.limit
          BY <1>3, <3>2 DEF Allowed
        <4>3. WindowTotal(e, t, l.window) <= l.limit
          BY <1>0, <3>2 DEF RatesHold
        <4>. HIDE DEF e, f
        <4>4. /\ WindowTotal(e, t, l.window) \in Nat /\ WindowTotal(f, t, l.window) \in Nat
              /\ Counted(e, at, l.window) \in Nat
              /\ t < at => WindowTotal(f, t, l.window) = WindowTotal(e, t, l.window)
              /\ at <= t => WindowTotal(f, t, l.window) <= Counted(f, at, l.window)
              /\ Counted(f, at, l.window) = Counted(e, at, l.window) + 1
          <5>1. e \in [Times -> Nat] /\ f \in [Times -> Nat] /\ f[at] = e[at] + 1
            BY <2>1, <2>2
          <5>2. \A x \in Times \ {at} : f[x] = e[x]
            BY <2>2
          <5>3. ASSUME NEW w \in Nat \ {0}
                PROVE  /\ WindowTotal(e, t, w) \in Nat /\ WindowTotal(f, t, w) \in Nat
                       /\ Counted(e, at, w) \in Nat
                       /\ t < at => WindowTotal(f, t, w) = WindowTotal(e, t, w)
                       /\ at <= t => WindowTotal(f, t, w) <= Counted(f, at, w)
                       /\ Counted(f, at, w) = Counted(e, at, w) + 1
            BY <5>1, <5>2, WindowAfterEvent
          <5>. QED
            BY <4>1, <5>3
        <4>5. t \in Int /\ at \in Int
          BY DEF Times
        <4>6. WindowTotal(f, t, l.window) <= l.limit
          BY <4>1, <4>2, <4>3, <4>4, <4>5
        <4>. QED
          BY <3>2, <4>6 DEF f
      <3>. QED
        BY <3>1, <3>2
    <2>. QED
      BY <1>1, <2>3, <2>4 DEF IInv
  <1>. QED
    BY <1>2, <1>3

-----------------------------------------------------------------------------
(***************************************************************************)
(* The steps on codes.                                                     *)
(***************************************************************************)

LEMMA CodeRow ==
    ASSUME TypeOK, NEW c \in DOMAIN codes
    PROVE  codes[c] \in CodeRows /\ codes[c].user \in Members
  <1>1. codes \in Seq(CodeRows)
    BY DEF TypeOK
  <1>2. codes[c] \in CodeRows
    BY <1>1
  <1>. QED
    BY <1>2 DEF CodeRows

LEMMA GuessesFrame ==
    ASSUME TypeOK, GuessesHold, Ages,
           \A c \in DOMAIN codes : codes'[c].wrong = codes[c].wrong,
           \A m \in Members :
              \/ login'[m].failures = login[m].failures
              \/ \A c \in DOMAIN codes : codes[c].user = m => codes'[c].state # "active"
    PROVE  GuessesHold'
  <1>1. \A c \in DOMAIN codes : codes[c].user \in Members
    BY CodeRow
  <1>. QED
    BY <1>1 DEF GuessesHold, Ages

\* A step that only makes codes older, whose codes count against no fewer failures.
LEMMA AgingFrame ==
    ASSUME IInv, Ages, UNCHANGED <<now, status, changes, rates, failed>>,
           requests' \in [Requests -> {Idle} \cup Handlers],
           login' \in [Members -> LoginRows],
           codes' \in Seq(CodeRows), Len(codes') = Len(codes),
           sessions' \in Seq([code: 1..MaxCodes, revoked: BOOLEAN]),
           \A c \in DOMAIN codes : codes'[c].wrong = codes[c].wrong,
           \A m \in Members : /\ login[m].locked => login'[m].locked
                              /\ \/ login'[m].failures = login[m].failures
                                 \/ \A c \in DOMAIN codes : codes[c].user = m => codes'[c].state # "active"
    PROVE  IInv'
  <1>0. Typed /\ GuessesHold
    BY DEF IInv
  <1>1. SessionsHold' /\ DeactivatedMembersAreOut' /\ CodesOpenOneSession'
    BY AgingKeepsMembersOut DEF IInv
  <1>2. Typed'
    BY <1>0 DEF Typed, TypeOK
  <1>3. GuessesHold'
    BY <1>0, GuessesFrame DEF Typed
  <1>4. LockHolds' /\ RatesHold'
    BY LockFrame, RatesFrame
  <1>. QED
    BY <1>1, <1>2, <1>3, <1>4 DEF IInv

\* IssueMemberChallenge: the new code is the only one of its member that is active.
LEMMA IssueStep ==
    ASSUME IInv, NEW r \in Requests, IssueMemberChallenge(r)
    PROVE  IInv'
  <1> DEFINE m  == requests[r].user
             at == requests[r].at
             row == [user |-> m, state |-> "active", created |-> at, expires |-> at + CodeTTL, wrong |-> 0]
             old == Retired(codes, m, "superseded")
  <1>0. Typed /\ TypeOK /\ GuessesHold /\ SessionsHold /\ DeactivatedMembersAreOut /\ CodesOpenOneSession
    BY DEF IInv, Typed
  <1>1. requests[r] \in Handlers
    BY <1>0 DEF IssueMemberChallenge, At, Idle, Typed
  <1>2. m \in Members /\ at \in Times
    BY <1>1 DEF Handlers
  <1>3. UNCHANGED <<now, status, login, failed, rates, sessions, changes>> /\ Len(codes) < MaxCodes
    BY DEF IssueMemberChallenge
  <1>4. CASE UNCHANGED codes /\ Finish(r)
    <2>1. requests' \in [Requests -> {Idle} \cup Handlers]
      BY <1>0, <1>4 DEF Finish, Typed
    <2>. QED
      BY <1>0, <1>3, <1>4, <2>1, QuietFrame DEF shared, TypeOK
  <1>5. CASE /\ MayReceive(m, at)
             /\ codes' = Append(old, row)
             /\ requests' = [requests EXCEPT ![r].step = "send", ![r].code = Len(codes) + 1]
    <2>1. codes \in Seq(CodeRows) /\ Len(codes) \in Nat /\ DOMAIN codes = 1..Len(codes)
      BY <1>0 DEF TypeOK
    <2>2. row \in CodeRows
      <3>1. at + CodeTTL \in 0..(MaxTime + CodeTTL)
        BY <1>2, LoginTypes DEF Times
      <3>. QED
        BY <1>2, <3>1 DEF CodeRows, CodeStates
    <2>3. /\ old \in Seq(CodeRows) /\ Len(old) = Len(codes) /\ DOMAIN old = DOMAIN codes
          /\ \A c \in DOMAIN codes :
                /\ old[c].user = codes[c].user /\ old[c].wrong = codes[c].wrong
                /\ old[c].state = "active" => codes[c].state = "active" /\ codes[c].user # m
      BY <1>0, <2>1, RetiredRows DEF CodeStates
    <2>. HIDE DEF old
    <2>4. /\ codes' \in Seq(CodeRows) /\ Len(codes') = Len(codes) + 1
          /\ DOMAIN codes' = 1..(Len(codes) + 1)
          /\ codes'[Len(codes) + 1] = row
          /\ \A c \in DOMAIN codes : codes'[c] = old[c]
      <3>. HIDE DEF row
      <3>. QED
        BY <1>5, <2>1, <2>2, <2>3
    <2>5. Typed'
      <3>1. requests' \in [Requests -> {Idle} \cup Handlers]
        <4>1. Len(codes) + 1 \in Nat
          BY <2>1
        <4>2. [requests[r] EXCEPT !.step = "send", !.code = Len(codes) + 1] \in Handlers
          BY <1>1, <4>1 DEF Handlers
        <4>3. requests' = [requests EXCEPT ![r] = [requests[r] EXCEPT !.step = "send", !.code = Len(codes) + 1]]
          BY <1>0, <1>5 DEF Typed
        <4>. QED
          BY <1>0, <4>2, <4>3 DEF Typed
      <3>2. Len(codes') <= MaxCodes
        BY <1>3, <2>1, <2>4, LoginTypes
      <3>. QED
        BY <1>0, <1>3, <2>4, <3>1, <3>2 DEF Typed, TypeOK
    <2>6. SessionsHold' /\ CodesOpenOneSession'
      BY <1>0, <1>3, <2>1, <2>3, <2>4 DEF SessionsHold, CodesOpenOneSession
    <2>7. DeactivatedMembersAreOut'
      <3> SUFFICES ASSUME NEW n \in Members, status[n] = "deactivated"
                   PROVE  /\ Active(n)' = {}
                          /\ \A s \in DOMAIN sessions : codes'[sessions[s].code].user = n => sessions[s].revoked
        BY <1>3 DEF DeactivatedMembersAreOut
      <3>1. n # m
        BY <1>5 DEF MayReceive
      <3>2. /\ \A c \in DOMAIN codes : ~(codes[c].user = n /\ codes[c].state = "active")
            /\ \A s \in DOMAIN sessions : codes[sessions[s].code].user = n => sessions[s].revoked
        BY <1>0 DEF DeactivatedMembersAreOut, Active
      <3>3. ASSUME NEW c \in DOMAIN codes' PROVE ~(codes'[c].user = n /\ codes'[c].state = "active")
        <4>1. CASE c \in DOMAIN codes
          BY <2>3, <2>4, <3>2, <4>1
        <4>2. CASE c = Len(codes) + 1
          BY <2>4, <3>1, <4>2
        <4>. QED
          BY <2>1, <2>4, <4>1, <4>2
      <3>4. Active(n)' = {}
        BY <3>3 DEF Active
      <3>5. \A s \in DOMAIN sessions : codes'[sessions[s].code].user = n => sessions[s].revoked
        BY <1>0, <2>3, <2>4, <3>2 DEF SessionsHold
      <3>. QED
        BY <3>4, <3>5
    <2>8. GuessesHold'
      <3>1. ASSUME NEW c \in DOMAIN codes'
            PROVE  /\ codes'[c].wrong <= BlockThreshold
                   /\ codes'[c].state = "active" => codes'[c].wrong <= login[codes'[c].user].failures
        <4>1. CASE c \in DOMAIN codes
          BY <1>0, <2>3, <2>4, <4>1 DEF GuessesHold
        <4>2. CASE c = Len(codes) + 1
          <5>1. login[m].failures \in Nat
            BY <1>0, <1>2, LoginTypes DEF TypeOK, LoginRows
          <5>. QED
            BY <2>4, <4>2, <5>1, LoginTypes
        <4>. QED
          BY <2>1, <2>4, <4>1, <4>2
      <3>. QED
        BY <1>3, <3>1 DEF GuessesHold
    <2>9. LockHolds' /\ RatesHold'
      BY <1>3, LockFrame, RatesFrame
    <2>. QED
      BY <2>5, <2>6, <2>7, <2>8, <2>9 DEF IInv
  <1>. QED
    BY <1>4, <1>5 DEF IssueMemberChallenge

\* A row of codes that keeps its user and only ever leaves the active state.
LEMMA RowsAge ==
    ASSUME IInv, NEW rows, rows = [c \in DOMAIN codes |-> rows[c]],
           \A c \in DOMAIN codes :
              \/ rows[c] = codes[c]
              \/ \E state \in CodeStates \ {"active"} : rows[c] = [codes[c] EXCEPT !.state = state]
    PROVE  /\ rows \in Seq(CodeRows) /\ Len(rows) = Len(codes) /\ DOMAIN rows = DOMAIN codes
           /\ \A c \in DOMAIN codes :
                 /\ rows[c].user = codes[c].user /\ rows[c].wrong = codes[c].wrong
                 /\ rows[c].state = "active" => codes[c].state = "active"
  <1>0. TypeOK /\ codes \in Seq(CodeRows)
    BY DEF IInv, Typed, TypeOK
  <1>1. ASSUME NEW c \in DOMAIN codes
        PROVE  /\ rows[c] \in CodeRows
               /\ rows[c].user = codes[c].user /\ rows[c].wrong = codes[c].wrong
               /\ rows[c].state = "active" => codes[c].state = "active"
    <2>1. codes[c] \in CodeRows
      BY <1>0
    <2>2. ASSUME NEW state \in CodeStates \ {"active"}, rows[c] = [codes[c] EXCEPT !.state = state]
          PROVE  /\ rows[c] \in CodeRows
                 /\ rows[c].user = codes[c].user /\ rows[c].wrong = codes[c].wrong
                 /\ rows[c].state # "active"
      BY <2>1, <2>2 DEF CodeRows
    <2>. QED
      BY <2>1, <2>2
  <1>. QED
    BY <1>0, <1>1, CodesOf

LEMMA FinishTypes ==
    ASSUME IInv, NEW r \in Requests, Finish(r)
    PROVE  requests' \in [Requests -> {Idle} \cup Handlers]
  BY DEF IInv, Typed, Finish

LEMMA MarkStep ==
    ASSUME IInv, NEW r \in Requests, MarkMemberCodeDelivery(r)
    PROVE  IInv'
  <1> DEFINE k == requests[r].code
  <1>0. TypeOK /\ codes \in Seq(CodeRows) /\ DOMAIN codes = 1..Len(codes)
    BY DEF IInv, Typed, TypeOK
  <1>1. /\ UNCHANGED <<now, status, login, failed, rates, sessions, changes>>
        /\ codes' = codes \/ (k \in DOMAIN codes /\ codes' = [codes EXCEPT ![k].state = "revoked"])
        /\ Finish(r)
    <2>1. codes' = codes \/ codes' = [codes EXCEPT ![k].state = "revoked"]
      BY DEF MarkMemberCodeDelivery
    <2>2. k \notin DOMAIN codes => [codes EXCEPT ![k].state = "revoked"] = codes
      BY <1>0
    <2>. QED
      BY <2>1, <2>2 DEF MarkMemberCodeDelivery
  <1>2. requests' \in [Requests -> {Idle} \cup Handlers]
    BY <1>1, FinishTypes
  <1>3. codes' = [c \in DOMAIN codes |-> codes'[c]]
    BY <1>0, <1>1
  <1>4. \A c \in DOMAIN codes : \/ codes'[c] = codes[c]
                                \/ codes'[c] = [codes[c] EXCEPT !.state = "revoked"]
    BY <1>0, <1>1
  <1>5. "revoked" \in CodeStates \ {"active"}
    BY DEF CodeStates
  <1>6. /\ codes' \in Seq(CodeRows) /\ Len(codes') = Len(codes) /\ DOMAIN codes' = DOMAIN codes
        /\ \A c \in DOMAIN codes :
              /\ codes'[c].user = codes[c].user /\ codes'[c].wrong = codes[c].wrong
              /\ codes'[c].state = "active" => codes[c].state = "active"
    BY <1>3, <1>4, <1>5, RowsAge
  <1>. QED
    BY <1>0, <1>1, <1>2, <1>6, AgingFrame DEF Ages, TypeOK

SessionRows == [code: 1..MaxCodes, revoked: BOOLEAN]

LEMMA RowOfSession ==
    ASSUME TypeOK, NEW s \in DOMAIN sessions
    PROVE  sessions[s] \in [code: 1..MaxCodes, revoked: BOOLEAN]
  <1>1. sessions \in Seq(SessionRows)
    BY DEF TypeOK, SessionRows
  <1>2. sessions[s] \in SessionRows
    BY <1>1
  <1>. QED
    BY <1>2 DEF SessionRows

LEMMA RevokedSessions ==
    ASSUME TypeOK, NEW rows, rows = [s \in DOMAIN sessions |-> rows[s]],
           \A s \in DOMAIN sessions :
              rows[s] = sessions[s] \/ rows[s] = [sessions[s] EXCEPT !.revoked = TRUE]
    PROVE  /\ rows \in Seq([code: 1..MaxCodes, revoked: BOOLEAN])
           /\ DOMAIN rows = DOMAIN sessions
           /\ \A s \in DOMAIN sessions : /\ rows[s].code = sessions[s].code
                                         /\ sessions[s].revoked => rows[s].revoked
                                         /\ rows[s] # sessions[s] => rows[s].revoked
  <1>0. sessions \in Seq([code: 1..MaxCodes, revoked: BOOLEAN])
    BY DEF TypeOK
  <1>1. ASSUME NEW s \in DOMAIN sessions
        PROVE  /\ rows[s] \in [code: 1..MaxCodes, revoked: BOOLEAN]
               /\ rows[s].code = sessions[s].code
               /\ sessions[s].revoked => rows[s].revoked
               /\ rows[s] # sessions[s] => rows[s].revoked
    <2>1. sessions[s] \in [code: 1..MaxCodes, revoked: BOOLEAN]
      BY RowOfSession
    <2>. QED
      BY <2>1
  <1>2. DOMAIN sessions = 1..Len(sessions) /\ Len(sessions) \in Nat
    BY <1>0
  <1>3. rows \in [1..Len(sessions) -> [code: 1..MaxCodes, revoked: BOOLEAN]]
    BY <1>1, <1>2
  <1>. QED
    BY <1>1, <1>2, <1>3

\* Where the member's codes and sessions go with the account.
LEMMA SetMemberStatusStep ==
    ASSUME IInv, NEW m \in Members, NEW new \in {"active", "deactivated"}, SetMemberStatus(m, new)
    PROVE  IInv'
  <1>0. TypeOK /\ codes \in Seq(CodeRows) /\ requests \in [Requests -> {Idle} \cup Handlers] /\ GuessesHold
    BY DEF IInv, Typed, TypeOK
  <1>1. /\ UNCHANGED <<now, requests, login, failed, rates>>
        /\ changes' = changes + 1 /\ changes < MaxChanges
        /\ status' = [status EXCEPT ![m] = new]
    BY DEF SetMemberStatus, Change
  <1>2. \A c \in DOMAIN codes : codes[c] \in CodeRows
    BY <1>0
  <1>3. /\ codes' \in Seq(CodeRows) /\ Len(codes') = Len(codes) /\ DOMAIN codes' = DOMAIN codes
        /\ \A c \in DOMAIN codes :
              /\ codes'[c].user = codes[c].user /\ codes'[c].wrong = codes[c].wrong
              /\ codes'[c].state = "active" => codes[c].state = "active"
              /\ new = "deactivated" /\ codes[c].user = m => codes'[c].state # "active"
    <2>1. CASE new = "deactivated"
      <3>1. codes' = Retired(codes, m, "revoked")
        BY <2>1 DEF SetMemberStatus
      <3>. QED
        BY <1>0, <3>1, RetiredRows DEF CodeStates
    <2>2. CASE new # "deactivated"
      BY <1>0, <2>2 DEF SetMemberStatus
    <2>. QED
      BY <2>1, <2>2
  <1>4. /\ sessions' \in Seq([code: 1..MaxCodes, revoked: BOOLEAN]) /\ DOMAIN sessions' = DOMAIN sessions
        /\ \A s \in DOMAIN sessions :
              /\ sessions'[s].code = sessions[s].code
              /\ sessions[s].revoked => sessions'[s].revoked
              /\ new = "deactivated" /\ codes[sessions[s].code].user = m => sessions'[s].revoked
    <2>1. CASE new = "deactivated"
      <3>1. sessions' = Revoked(m)
        BY <2>1 DEF SetMemberStatus
      <3>2. \A s \in DOMAIN sessions :
               sessions'[s] = IF codes[sessions[s].code].user = m THEN [sessions[s] EXCEPT !.revoked = TRUE]
                              ELSE sessions[s]
        BY <3>1 DEF Revoked
      <3>3. sessions' = [s \in DOMAIN sessions |-> sessions'[s]]
        BY <3>1 DEF Revoked
      <3>4. /\ sessions' \in Seq([code: 1..MaxCodes, revoked: BOOLEAN]) /\ DOMAIN sessions' = DOMAIN sessions
            /\ \A s \in DOMAIN sessions :
                  /\ sessions'[s].code = sessions[s].code
                  /\ sessions[s].revoked => sessions'[s].revoked
        BY <1>0, <3>2, <3>3, RevokedSessions
      <3>5. ASSUME NEW s \in DOMAIN sessions, codes[sessions[s].code].user = m PROVE sessions'[s].revoked
        <4>1. sessions[s] \in [code: 1..MaxCodes, revoked: BOOLEAN]
          BY <1>0, RowOfSession
        <4>. QED
          BY <3>2, <3>5, <4>1
      <3>. QED
        BY <3>4, <3>5
    <2>2. CASE new # "deactivated"
      BY <1>0, <2>2 DEF SetMemberStatus, TypeOK
    <2>. QED
      BY <2>1, <2>2
  <1>5. Typed'
    <2>1. changes' \in 0..MaxChanges
      BY <1>0, <1>1, LoginTypes DEF TypeOK
    <2>. QED
      BY <1>0, <1>1, <1>3, <1>4, <2>1 DEF Typed, TypeOK
  <1>6. Ages
    BY <1>3, <1>4 DEF Ages
  <1>7. SessionsHold' /\ DeactivatedMembersAreOut' /\ CodesOpenOneSession'
    <2>1. \A n \in Members : status'[n] = "deactivated" =>
             \/ status[n] = "deactivated"
             \/ /\ \A c \in DOMAIN codes : codes[c].user = n => codes'[c].state # "active"
                /\ \A s \in DOMAIN sessions : codes[sessions[s].code].user = n => sessions'[s].revoked
      BY <1>0, <1>1, <1>3, <1>4 DEF TypeOK
    <2>. QED
      BY <1>6, <2>1, AgingKeepsMembersOut DEF IInv
  <1>8. GuessesHold'
    BY <1>0, <1>1, <1>3 DEF GuessesHold
  <1>9. LockHolds' /\ RatesHold'
    BY <1>1, LockFrame, RatesFrame
  <1>. QED
    BY <1>5, <1>7, <1>8, <1>9 DEF IInv

\* UnlockMember: the failures begin anew, and so do the windows.
LEMMA UnlockMemberStep ==
    ASSUME IInv, NEW m \in Members, UnlockMember(m)
    PROVE  IInv'
  <1> DEFINE fresh == [failures |-> 0, blocked |-> Never, locked |-> FALSE]
  <1>0. TypeOK /\ codes \in Seq(CodeRows) /\ requests \in [Requests -> {Idle} \cup Handlers]
        /\ GuessesHold /\ LockHolds
    BY DEF IInv, Typed, TypeOK
  <1>1. /\ UNCHANGED <<now, requests, status, rates, sessions>>
        /\ changes' = changes + 1 /\ changes < MaxChanges
        /\ login' = [login EXCEPT ![m] = fresh]
        /\ failed' = [failed EXCEPT ![m] = [t \in Times |-> 0]]
        /\ codes' = Retired(codes, m, "revoked")
    BY DEF UnlockMember, Change
  <1>2. /\ codes' \in Seq(CodeRows) /\ Len(codes') = Len(codes) /\ DOMAIN codes' = DOMAIN codes
        /\ \A c \in DOMAIN codes :
              /\ codes'[c].user = codes[c].user /\ codes'[c].wrong = codes[c].wrong
              /\ codes'[c].state = "active" => codes[c].state = "active" /\ codes[c].user # m
    BY <1>0, <1>1, RetiredRows DEF CodeStates
  <1>3. fresh \in LoginRows
    BY LoginTypes DEF LoginRows, Never
  <1>. HIDE DEF fresh
  <1>4. /\ login' \in [Members -> LoginRows] /\ failed' \in [Members -> [Times -> Nat]]
        /\ \A n \in Members \ {m} : login'[n] = login[n] /\ failed'[n] = failed[n]
        /\ failed'[m] = [t \in Times |-> 0]
    BY <1>0, <1>1, <1>3 DEF TypeOK
  <1>5. Typed'
    <2>1. changes' \in 0..MaxChanges
      BY <1>0, <1>1, LoginTypes DEF TypeOK
    <2>. QED
      BY <1>0, <1>1, <1>2, <1>4, <2>1 DEF Typed, TypeOK
  <1>6. Ages
    BY <1>1, <1>2 DEF Ages
  <1>7. SessionsHold' /\ DeactivatedMembersAreOut' /\ CodesOpenOneSession'
    BY <1>1, <1>6, AgingKeepsMembersOut DEF IInv
  <1>8. GuessesHold'
    <2>1. \A n \in Members :
              \/ login'[n].failures = login[n].failures
              \/ \A c \in DOMAIN codes : codes[c].user = n => codes'[c].state # "active"
      BY <1>2, <1>4
    <2>. QED
      BY <1>0, <1>2, <1>6, <2>1, GuessesFrame
  <1>9. LockHolds'
    <2>1. ASSUME NEW t \in Times PROVE WindowTotal(failed'[m], t, LockWindow) = 0
      <3> DEFINE none == [u \in Times |-> 0]
      <3>1. WindowTotal(none, t, LockWindow) = 0
        BY NoEventsNoTotal
      <3>2. failed'[m] = none
        BY <1>4
      <3>. HIDE DEF none
      <3>. QED
        BY <3>1, <3>2
    <2>2. ASSUME NEW n \in Members, NEW t \in Times
          PROVE  /\ WindowTotal(failed'[n], t, LockWindow) <= LockThreshold
                 /\ ~login'[n].locked => WindowTotal(failed'[n], t, LockWindow) < LockThreshold
      <3>1. CASE n = m
        BY <2>1, <3>1, LoginTypes
      <3>2. CASE n # m
        BY <1>0, <1>4, <3>2 DEF LockHolds
      <3>. QED
        BY <3>1, <3>2
    <2>. QED
      BY <2>2 DEF LockHolds
  <1>10. RatesHold'
    BY <1>1, RatesFrame
  <1>. QED
    BY <1>5, <1>7, <1>8, <1>9, <1>10 DEF IInv

LEMMA RotateSigningKeyStep ==
    ASSUME IInv, RotateSigningKey
    PROVE  IInv'
  <1>0. TypeOK /\ codes \in Seq(CodeRows) /\ requests \in [Requests -> {Idle} \cup Handlers] /\ GuessesHold
    BY DEF IInv, Typed, TypeOK
  <1>1. /\ UNCHANGED <<now, requests, status, login, failed>>
        /\ changes' = changes + 1 /\ changes < MaxChanges
        /\ codes' = [c \in DOMAIN codes |-> IF codes[c].state = "active"
                                            THEN [codes[c] EXCEPT !.state = "revoked"] ELSE codes[c]]
        /\ sessions' = [s \in DOMAIN sessions |-> [sessions[s] EXCEPT !.revoked = TRUE]]
        /\ rates' = [b \in Buckets |-> [t \in Times |-> 0]]
    BY DEF RotateSigningKey, Change
  <1>2. /\ codes' \in Seq(CodeRows) /\ Len(codes') = Len(codes) /\ DOMAIN codes' = DOMAIN codes
        /\ \A c \in DOMAIN codes :
              /\ codes'[c].user = codes[c].user /\ codes'[c].wrong = codes[c].wrong
              /\ codes'[c].state = "active" => codes[c].state = "active"
    <2>1. codes' = [c \in DOMAIN codes |-> codes'[c]]
      BY <1>1
    <2>2. \A c \in DOMAIN codes : codes'[c] = codes[c] \/ codes'[c] = [codes[c] EXCEPT !.state = "revoked"]
      BY <1>1
    <2>3. "revoked" \in CodeStates \ {"active"}
      BY DEF CodeStates
    <2>. QED
      BY <2>1, <2>2, <2>3, RowsAge
  <1>3. /\ sessions' \in Seq([code: 1..MaxCodes, revoked: BOOLEAN]) /\ DOMAIN sessions' = DOMAIN sessions
        /\ \A s \in DOMAIN sessions : /\ sessions'[s].code = sessions[s].code
                                      /\ sessions[s].revoked => sessions'[s].revoked
    <2>1. sessions' = [s \in DOMAIN sessions |-> sessions'[s]]
      BY <1>1
    <2>2. \A s \in DOMAIN sessions : sessions'[s] = [sessions[s] EXCEPT !.revoked = TRUE]
      BY <1>1
    <2>. QED
      BY <1>0, <2>1, <2>2, RevokedSessions
  <1>4. Typed'
    <2>1. changes' \in 0..MaxChanges
      BY <1>0, <1>1, LoginTypes DEF TypeOK
    <2>2. rates' \in [Buckets -> [Times -> Nat]]
      BY <1>1
    <2>. QED
      BY <1>0, <1>1, <1>2, <1>3, <2>1, <2>2 DEF Typed, TypeOK
  <1>5. Ages
    BY <1>2, <1>3 DEF Ages
  <1>6. SessionsHold' /\ DeactivatedMembersAreOut' /\ CodesOpenOneSession'
    BY <1>1, <1>5, AgingKeepsMembersOut DEF IInv
  <1>7. GuessesHold'
    BY <1>0, <1>1, <1>2, <1>5, GuessesFrame
  <1>8. LockHolds'
    BY <1>1, LockFrame
  <1>9. RatesHold'
    <2>1. ASSUME NEW b \in Buckets, NEW t \in Times, NEW l \in Limits(b)
          PROVE  WindowTotal(rates'[b], t, l.window) = 0
      BY <1>1, NoEventsNoTotal
    <2>. QED
      BY <2>1, LoginTypes DEF RatesHold
  <1>. QED
    BY <1>4, <1>6, <1>7, <1>8, <1>9 DEF IInv

-----------------------------------------------------------------------------
(***************************************************************************)
(* Entering a code.                                                        *)
(***************************************************************************)
\* A failure locks, blocks until later than the time it is judged at, or is counted.
LEMMA AfterFailureHolds ==
    ASSUME NEW row \in LoginRows, ~row.locked, NEW at \in Times, ~(at < row.blocked), NEW rolling \in Nat
    PROVE  LET after == AfterFailure(row, at, rolling)
           IN  /\ after \in LoginRows
               /\ after.locked <=> rolling >= LockThreshold
               /\ ~after.locked /\ after.blocked = row.blocked => after.failures = row.failures + 1
  <1> DEFINE after == AfterFailure(row, at, rolling)
  <1>0. row.failures \in Nat /\ row.failures <= BlockThreshold - 1 /\ row.blocked \in Int
        /\ at \in Nat /\ at <= MaxTime
    BY LoginTypes DEF LoginRows, Times
  <1>1. CASE rolling >= LockThreshold
    BY <1>1, LoginTypes DEF AfterFailure, LoginRows, Never
  <1>2. CASE ~(rolling >= LockThreshold) /\ row.failures + 1 >= BlockThreshold
    <2>1. after = [row EXCEPT !.failures = 0, !.blocked = at + BlockDuration]
      BY <1>2 DEF AfterFailure
    <2>2. at + BlockDuration \in 0..(MaxTime + BlockDuration) /\ at + BlockDuration # row.blocked
          /\ 0 \in 0..(BlockThreshold - 1)
      BY <1>0, LoginTypes
    <2>3. after \in LoginRows /\ after.locked = row.locked /\ after.blocked = at + BlockDuration
      BY <2>1, <2>2 DEF LoginRows
    <2>. QED
      BY <1>2, <2>2, <2>3
  <1>3. CASE ~(rolling >= LockThreshold) /\ ~(row.failures + 1 >= BlockThreshold)
    <2> DEFINE n == row.failures + 1
    <2>1. after = [row EXCEPT !.failures = n]
      BY <1>3 DEF AfterFailure
    <2>2. n \in 0..(BlockThreshold - 1)
      BY <1>0, <1>3, LoginTypes
    <2>3. after \in LoginRows /\ after.locked = row.locked /\ after.failures = n
      <3>. HIDE DEF n
      <3>. QED
        BY <2>1, <2>2 DEF LoginRows
    <2>. QED
      BY <1>3, <2>3
  <1>. QED
    BY <1>1, <1>2, <1>3

\* The codes with those marked that have run out.
LiveRows(m, at) ==
    [c \in DOMAIN codes |-> IF c \in Active(m) /\ codes[c].expires <= at
                            THEN [codes[c] EXCEPT !.state = "expired"] ELSE codes[c]]

LEMMA LiveRowsAge ==
    ASSUME IInv, NEW m, NEW at
    PROVE  /\ LiveRows(m, at) \in Seq(CodeRows) /\ Len(LiveRows(m, at)) = Len(codes)
           /\ DOMAIN LiveRows(m, at) = DOMAIN codes
           /\ \A c \in DOMAIN codes :
                 /\ LiveRows(m, at)[c].user = codes[c].user /\ LiveRows(m, at)[c].wrong = codes[c].wrong
                 /\ LiveRows(m, at)[c].state = "active" => codes[c].state = "active"
  <1> DEFINE live == LiveRows(m, at)
  <1>1. live = [c \in DOMAIN codes |-> live[c]]
    BY DEF LiveRows
  <1>2. \A c \in DOMAIN codes : live[c] = codes[c] \/ live[c] = [codes[c] EXCEPT !.state = "expired"]
    BY DEF LiveRows
  <1>3. "expired" \in CodeStates \ {"active"}
    BY DEF CodeStates
  <1>. HIDE DEF live
  <1>4. /\ live \in Seq(CodeRows) /\ Len(live) = Len(codes) /\ DOMAIN live = DOMAIN codes
        /\ \A c \in DOMAIN codes :
              /\ live[c].user = codes[c].user /\ live[c].wrong = codes[c].wrong
              /\ live[c].state = "active" => codes[c].state = "active"
    BY <1>1, <1>2, <1>3, RowsAge
  <1>. QED
    BY <1>4 DEF live

\* The right code: it is used, with every other of its member, and opens one session.
LEMMA RightCode ==
    ASSUME IInv, UNCHANGED <<now, status, rates, changes, failed>>,
           requests' \in [Requests -> {Idle} \cup Handlers],
           NEW m \in Members, NEW at \in Times, MayReceive(m, at),
           NEW code \in Active(m),
           codes' = Used(LiveRows(m, at), m),
           login' = [login EXCEPT ![m].failures = 0, ![m].blocked = Never],
           sessions' = Append(sessions, [code |-> code, revoked |-> FALSE])
    PROVE  IInv'
  <1> DEFINE live == LiveRows(m, at)
  <1>0. /\ Typed /\ TypeOK /\ codes \in Seq(CodeRows) /\ SessionsHold /\ GuessesHold
        /\ DeactivatedMembersAreOut /\ CodesOpenOneSession
    BY DEF IInv, Typed, TypeOK
  <1>1. code \in DOMAIN codes /\ codes[code].user = m /\ codes[code].state = "active"
    BY DEF Active
  <1>2. status[m] = "active"
    BY DEF MayReceive
  <1>3. /\ live \in Seq(CodeRows) /\ Len(live) = Len(codes) /\ DOMAIN live = DOMAIN codes
        /\ \A c \in DOMAIN codes :
              /\ live[c].user = codes[c].user /\ live[c].wrong = codes[c].wrong
              /\ live[c].state = "active" => codes[c].state = "active"
    BY LiveRowsAge
  <1>. HIDE DEF live
  <1>4. codes' = Retired(live, m, "used")
    BY DEF live, Used
  <1>5. /\ codes' \in Seq(CodeRows) /\ Len(codes') = Len(codes) /\ DOMAIN codes' = DOMAIN codes
        /\ \A c \in DOMAIN codes :
              /\ codes'[c].user = codes[c].user /\ codes'[c].wrong = codes[c].wrong
              /\ codes'[c].state = "active" => codes[c].state = "active" /\ codes[c].user # m
    <2>1. "used" \in CodeStates \ {"active"}
      BY DEF CodeStates
    <2>2. TypeOK
      BY <1>0
    <2>3. /\ codes' \in Seq(CodeRows) /\ Len(codes') = Len(live) /\ DOMAIN codes' = DOMAIN live
          /\ \A c \in DOMAIN live :
                /\ codes'[c].user = live[c].user /\ codes'[c].wrong = live[c].wrong
                /\ codes'[c].state = "active" => live[c].state = "active" /\ live[c].user # m
      BY <1>3, <1>4, <2>1, <2>2, RetiredRows
    <2>. QED
      BY <1>3, <2>3
  <1>6. /\ sessions' \in Seq([code: 1..MaxCodes, revoked: BOOLEAN])
        /\ Len(sessions) \in Nat /\ DOMAIN sessions = 1..Len(sessions)
        /\ DOMAIN sessions' = 1..(Len(sessions) + 1)
        /\ sessions'[Len(sessions) + 1].code = code
        /\ \A s \in DOMAIN sessions : sessions'[s] = sessions[s]
    <2> DEFINE new == [code |-> code, revoked |-> FALSE]
    <2>1. code \in 1..MaxCodes
      <3>1. Len(codes) <= MaxCodes /\ DOMAIN codes = 1..Len(codes) /\ Len(codes) \in Nat
        BY <1>0 DEF TypeOK
      <3>. QED
        BY <1>1, <3>1, LoginTypes
    <2>2. new \in SessionRows /\ new.code = code
      BY <2>1 DEF SessionRows
    <2>3. sessions \in Seq(SessionRows)
      BY <1>0 DEF TypeOK, SessionRows
    <2>. HIDE DEF new
    <2>4. sessions' = Append(sessions, new)
      BY DEF new
    <2>5. /\ sessions' \in Seq(SessionRows)
          /\ Len(sessions) \in Nat /\ DOMAIN sessions = 1..Len(sessions)
          /\ DOMAIN sessions' = 1..(Len(sessions) + 1)
          /\ sessions'[Len(sessions) + 1] = new
          /\ \A s \in DOMAIN sessions : sessions'[s] = sessions[s]
      BY <2>2, <2>3, <2>4
    <2>. QED
      BY <2>2, <2>5 DEF SessionRows
  <1>7. /\ login' \in [Members -> LoginRows]
        /\ \A n \in Members : /\ n # m => login'[n] = login[n]
                              /\ login'[n].locked = login[n].locked
    <2> DEFINE row == [login[m] EXCEPT !.failures = 0, !.blocked = Never]
    <2>1. login \in [Members -> LoginRows] /\ login[m] \in LoginRows
      BY <1>0 DEF TypeOK
    <2>2. row \in LoginRows /\ row.locked = login[m].locked
      <3> DEFINE old == login[m]
      <3>1. old \in LoginRows /\ row = [old EXCEPT !.failures = 0, !.blocked = Never]
        BY <2>1
      <3>2. 0 \in 0..(BlockThreshold - 1) /\ Never \in 0..(MaxTime + BlockDuration)
        BY LoginTypes DEF Never
      <3>. HIDE DEF old, row
      <3>3. row \in LoginRows /\ row.locked = old.locked
        BY <3>1, <3>2 DEF LoginRows
      <3>. QED
        BY <3>3 DEF old
    <2>3. login' = [login EXCEPT ![m] = row]
      BY <2>1
    <2>. HIDE DEF row
    <2>. QED
      BY <2>1, <2>2, <2>3
  <1>8. Typed'
    BY <1>0, <1>5, <1>6, <1>7 DEF Typed, TypeOK
  <1>9. SessionsHold'
    <2>1. codes'[code].state # "active" /\ code \in DOMAIN codes'
      BY <1>1, <1>5
    <2>2. ASSUME NEW s \in DOMAIN sessions
          PROVE  sessions[s].code \in DOMAIN codes' /\ codes'[sessions[s].code].state # "active"
      BY <1>0, <1>5 DEF SessionsHold
    <2>. QED
      BY <1>6, <2>1, <2>2 DEF SessionsHold
  <1>10. CodesOpenOneSession'
    <2>1. \A s \in DOMAIN sessions : sessions[s].code # code
      BY <1>0, <1>1 DEF SessionsHold
    <2>. QED
      BY <1>0, <1>6, <2>1 DEF CodesOpenOneSession
  <1>11. DeactivatedMembersAreOut'
    <2> SUFFICES ASSUME NEW n \in Members, status[n] = "deactivated"
                 PROVE  /\ Active(n)' = {}
                        /\ \A s \in DOMAIN sessions' : codes'[sessions'[s].code].user = n => sessions'[s].revoked
      BY DEF DeactivatedMembersAreOut
    <2>1. n # m
      BY <1>2
    <2>2. /\ \A c \in DOMAIN codes : ~(codes[c].user = n /\ codes[c].state = "active")
          /\ \A s \in DOMAIN sessions : codes[sessions[s].code].user = n => sessions[s].revoked
      BY <1>0 DEF DeactivatedMembersAreOut, Active
    <2>3. Active(n)' = {}
      BY <1>5, <2>2 DEF Active
    <2>4. ASSUME NEW s \in DOMAIN sessions', codes'[sessions'[s].code].user = n PROVE sessions'[s].revoked
      <3>1. CASE s \in DOMAIN sessions
        <4>1. sessions[s].code \in DOMAIN codes /\ sessions'[s] = sessions[s]
          BY <1>0, <1>6, <3>1 DEF SessionsHold
        <4>2. codes[sessions[s].code].user = n
          BY <1>5, <2>4, <4>1
        <4>. QED
          BY <2>2, <3>1, <4>1, <4>2
      <3>2. CASE s = Len(sessions) + 1
        BY <1>1, <1>5, <1>6, <2>1, <2>4, <3>2
      <3>. QED
        BY <1>6, <3>1, <3>2
    <2>. QED
      BY <2>3, <2>4
  <1>12. GuessesHold'
    <2>1. \A c \in DOMAIN codes : codes[c].user \in Members
      BY <1>0, CodeRow
    <2>. QED
      BY <1>0, <1>5, <1>7, <2>1 DEF GuessesHold
  <1>13. LockHolds' /\ RatesHold'
    BY <1>7, LockFrame, RatesFrame
  <1>. QED
    BY <1>8, <1>9, <1>10, <1>11, <1>12, <1>13 DEF IInv

\* The codes with another wrong entry counted on those that are live.
CountedRows(m, at) ==
    LET live   == LiveRows(m, at)
        active == {c \in Active(m) : live[c].state = "active"}
    IN  [c \in DOMAIN live |-> IF c \in active THEN [live[c] EXCEPT !.wrong = @ + 1] ELSE live[c]]

LEMMA CountedRowsHold ==
    ASSUME IInv, NEW m \in Members, NEW at
    PROVE  LET rows == CountedRows(m, at)
           IN  /\ rows \in Seq(CodeRows) /\ Len(rows) = Len(codes) /\ DOMAIN rows = DOMAIN codes
               /\ \A c \in DOMAIN codes :
                     /\ rows[c].user = codes[c].user
                     /\ rows[c].state = "active" => codes[c].state = "active"
                     /\ codes[c].user # m => rows[c].wrong = codes[c].wrong
                     /\ codes[c].user = m => /\ rows[c].wrong <= BlockThreshold
                                             /\ rows[c].state = "active" => rows[c].wrong <= login[m].failures + 1
  <1> DEFINE live == LiveRows(m, at)
             rows == CountedRows(m, at)
             active == {c \in Active(m) : live[c].state = "active"}
  <1>0. TypeOK /\ GuessesHold
    BY DEF IInv, Typed
  <1>1. /\ live \in Seq(CodeRows) /\ Len(live) = Len(codes) /\ DOMAIN live = DOMAIN codes
        /\ \A c \in DOMAIN codes :
              /\ live[c].user = codes[c].user /\ live[c].wrong = codes[c].wrong
              /\ live[c].state = "active" => codes[c].state = "active"
    BY LiveRowsAge
  <1>. HIDE DEF live
  <1>2. rows = [c \in DOMAIN live |-> IF c \in active THEN [live[c] EXCEPT !.wrong = @ + 1] ELSE live[c]]
    BY DEF CountedRows, live
  <1>. HIDE DEF rows
  <1>3. ASSUME NEW c \in DOMAIN codes
        PROVE  /\ rows[c] \in CodeRows
               /\ rows[c].user = codes[c].user
               /\ rows[c].state = "active" => codes[c].state = "active"
               /\ codes[c].user # m => rows[c].wrong = codes[c].wrong
               /\ codes[c].user = m => /\ rows[c].wrong <= BlockThreshold
                                       /\ rows[c].state = "active" => rows[c].wrong <= login[m].failures + 1
    <2> DEFINE row == live[c]
    <2>1. row \in CodeRows /\ row.wrong \in Nat
      <3>1. row \in CodeRows
        BY <1>1
      <3>. QED
        BY <3>1 DEF CodeRows
    <2>2. /\ row.user = codes[c].user /\ row.wrong = codes[c].wrong
          /\ row.state = "active" => codes[c].state = "active"
      BY <1>1
    <2>3. /\ codes[c].wrong <= BlockThreshold
          /\ codes[c].state = "active" => codes[c].wrong <= login[codes[c].user].failures
      BY <1>0 DEF GuessesHold
    <2>4. login[m].failures \in Nat /\ login[m].failures <= BlockThreshold - 1
      <3>1. login[m] \in LoginRows
        BY <1>0 DEF TypeOK
      <3>. QED
        BY <3>1, LoginTypes DEF LoginRows
    <2>5. CASE c \in active
      <3> DEFINE wrong == row.wrong + 1
      <3>1. rows[c] = [row EXCEPT !.wrong = wrong] /\ wrong \in Nat
        BY <1>1, <1>2, <2>1, <2>5
      <3>2. codes[c].user = m /\ row.state = "active"
        BY <2>5 DEF Active
      <3>3. wrong <= BlockThreshold /\ wrong <= login[m].failures + 1
        BY <2>1, <2>2, <2>3, <2>4, <3>2, LoginTypes
      <3>. HIDE DEF wrong, row
      <3>4. rows[c] \in CodeRows /\ rows[c].user = row.user /\ rows[c].state = row.state /\ rows[c].wrong = wrong
        BY <2>1, <3>1 DEF CodeRows
      <3>. QED
        BY <2>2, <3>2, <3>3, <3>4
    <2>6. CASE c \notin active
      <3>1. rows[c] = row
        BY <1>1, <1>2, <2>6
      <3>2. row.state = "active" => codes[c].user # m
        BY <2>2, <2>6 DEF Active
      <3>. HIDE DEF row
      <3>. QED
        BY <2>1, <2>2, <2>3, <3>1, <3>2
    <2>. QED
      BY <2>5, <2>6
  <1>4. rows = [c \in DOMAIN codes |-> rows[c]]
    BY <1>1, <1>2
  <1>5. rows \in Seq(CodeRows) /\ Len(rows) = Len(codes) /\ DOMAIN rows = DOMAIN codes
    BY <1>0, <1>3, <1>4, CodesOf
  <1>. QED
    BY <1>3, <1>5 DEF rows

\* Anything else is a failure.  It locks the member when the window from its time on
\* holds the tenth, so no window is ever fuller; and a code goes with the third in a row.
LEMMA WrongCode ==
    ASSUME IInv, UNCHANGED <<now, status, rates, changes, sessions>>,
           requests' \in [Requests -> {Idle} \cup Handlers],
           NEW m \in Members, NEW at \in Times, MayReceive(m, at),
           failed' = [failed EXCEPT ![m][at] = @ + 1],
           NEW after, after = AfterFailure(login[m], at, Counted(failed'[m], at, LockWindow)),
           login' = [login EXCEPT ![m] = after],
           codes' = IF after.locked \/ after.blocked # login[m].blocked
                    THEN Retired(CountedRows(m, at), m, "revoked") ELSE CountedRows(m, at)
    PROVE  IInv'
  <1> DEFINE e == failed[m]
             f == failed'[m]
             rows == CountedRows(m, at)
             crossed == after.locked \/ after.blocked # login[m].blocked
  <1>0. Typed /\ TypeOK /\ GuessesHold /\ LockHolds
    BY DEF IInv, Typed
  <1>1. login[m] \in LoginRows /\ ~login[m].locked /\ ~(at < login[m].blocked)
    BY <1>0 DEF TypeOK, MayReceive, Blocked
  <1>2. /\ failed' \in [Members -> [Times -> Nat]] /\ e \in [Times -> Nat] /\ f \in [Times -> Nat]
        /\ f[at] = e[at] + 1 /\ \A x \in Times \ {at} : f[x] = e[x]
        /\ \A n \in Members \ {m} : failed'[n] = failed[n]
    <2>1. failed \in [Members -> [Times -> Nat]] /\ e \in [Times -> Nat]
      BY <1>0 DEF TypeOK
    <2>2. failed' = [failed EXCEPT ![m] = [e EXCEPT ![at] = e[at] + 1]]
      BY <2>1
    <2>. QED
      BY <2>1, <2>2
  <1>3. ASSUME NEW t \in Times
        PROVE  /\ WindowTotal(e, t, LockWindow) \in Nat /\ WindowTotal(f, t, LockWindow) \in Nat
               /\ Counted(e, at, LockWindow) \in Nat
               /\ WindowTotal(f, t, LockWindow) <= WindowTotal(e, t, LockWindow) + 1
               /\ t < at => WindowTotal(f, t, LockWindow) = WindowTotal(e, t, LockWindow)
               /\ at <= t => WindowTotal(f, t, LockWindow) <= Counted(f, at, LockWindow)
               /\ Counted(f, at, LockWindow) = Counted(e, at, LockWindow) + 1
    <2>. HIDE DEF e, f
    <2>1. e \in [Times -> Nat] /\ f \in [Times -> Nat] /\ f[at] = e[at] + 1
      BY <1>2
    <2>2. \A x \in Times \ {at} : f[x] = e[x]
      BY <1>2
    <2>. QED
      BY <2>1, <2>2, LoginTypes, WindowAfterEvent
  <1>. HIDE DEF e, f, rows
  <1>4. Counted(f, at, LockWindow) \in Nat
    BY <1>3
  <1>5. /\ after \in LoginRows
        /\ after.locked <=> Counted(f, at, LockWindow) >= LockThreshold
        /\ ~after.locked /\ after.blocked = login[m].blocked => after.failures = login[m].failures + 1
    <2>1. after = AfterFailure(login[m], at, Counted(f, at, LockWindow))
      BY DEF f
    <2>. QED
      BY <1>1, <1>4, <2>1, AfterFailureHolds
  <1>6. /\ login' \in [Members -> LoginRows] /\ login'[m] = after
        /\ \A n \in Members \ {m} : login'[n] = login[n]
    BY <1>0, <1>5 DEF TypeOK
  <1>7. /\ rows \in Seq(CodeRows) /\ Len(rows) = Len(codes) /\ DOMAIN rows = DOMAIN codes
        /\ \A c \in DOMAIN codes :
              /\ rows[c].user = codes[c].user
              /\ rows[c].state = "active" => codes[c].state = "active"
              /\ codes[c].user # m => rows[c].wrong = codes[c].wrong
              /\ codes[c].user = m => /\ rows[c].wrong <= BlockThreshold
                                      /\ rows[c].state = "active" => rows[c].wrong <= login[m].failures + 1
    BY CountedRowsHold DEF rows
  <1>8. /\ codes' \in Seq(CodeRows) /\ Len(codes') = Len(codes) /\ DOMAIN codes' = DOMAIN codes
        /\ \A c \in DOMAIN codes :
              /\ codes'[c].user = rows[c].user /\ codes'[c].wrong = rows[c].wrong
              /\ codes'[c].state = "active" => rows[c].state = "active"
              /\ crossed /\ codes[c].user = m => codes'[c].state # "active"
    <2>1. CASE crossed
      <3>1. codes' = Retired(rows, m, "revoked")
        BY <2>1 DEF rows
      <3>2. "revoked" \in CodeStates \ {"active"}
        BY DEF CodeStates
      <3>3. TypeOK /\ rows \in Seq(CodeRows) /\ DOMAIN rows = DOMAIN codes
        BY <1>0, <1>7
      <3>4. /\ codes' \in Seq(CodeRows) /\ Len(codes') = Len(rows) /\ DOMAIN codes' = DOMAIN rows
            /\ \A c \in DOMAIN rows :
                  /\ codes'[c].user = rows[c].user /\ codes'[c].wrong = rows[c].wrong
                  /\ codes'[c].state = "active" => rows[c].state = "active" /\ rows[c].user # m
        <4>. DEFINE gone == Retired(rows, m, "revoked")
        <4>1. /\ gone \in Seq(CodeRows) /\ Len(gone) = Len(rows) /\ DOMAIN gone = DOMAIN rows
              /\ \A c \in DOMAIN rows :
                    /\ gone[c].user = rows[c].user /\ gone[c].wrong = rows[c].wrong
                    /\ gone[c].state = "active" => rows[c].state = "active" /\ rows[c].user # m
          BY <3>2, <3>3, RetiredRows
        <4>. QED
          BY <3>1, <4>1
      <3>. QED
        BY <1>7, <3>4
    <2>2. CASE ~crossed
      <3>1. codes' = rows
        BY <2>2 DEF rows
      <3>. QED
        BY <1>7, <2>2, <3>1
    <2>. QED
      BY <2>1, <2>2
  <1>9. Typed'
    BY <1>0, <1>2, <1>6, <1>8 DEF Typed, TypeOK
  <1>10. Ages
    BY <1>7, <1>8 DEF Ages
  <1>11. SessionsHold' /\ DeactivatedMembersAreOut' /\ CodesOpenOneSession'
    BY <1>10, AgingKeepsMembersOut DEF IInv
  <1>12. GuessesHold'
    <2>1. ASSUME NEW c \in DOMAIN codes
          PROVE  /\ codes'[c].wrong <= BlockThreshold
                 /\ codes'[c].state = "active" => codes'[c].wrong <= login'[codes'[c].user].failures
      <3>1. codes[c].user \in Members /\ codes'[c].user = codes[c].user
        BY <1>0, <1>7, <1>8, CodeRow
      <3>2. CASE codes[c].user # m
        BY <1>0, <1>6, <1>7, <1>8, <3>1, <3>2 DEF GuessesHold
      <3>3. CASE codes[c].user = m
        BY <1>5, <1>6, <1>7, <1>8, <3>1, <3>3
      <3>. QED
        BY <3>2, <3>3
    <2>. QED
      BY <1>8, <2>1 DEF GuessesHold
  <1>13. LockHolds'
    <2>1. ASSUME NEW n \in Members, NEW t \in Times
          PROVE  /\ WindowTotal(failed'[n], t, LockWindow) <= LockThreshold
                 /\ ~login'[n].locked => WindowTotal(failed'[n], t, LockWindow) < LockThreshold
      <3>1. CASE n # m
        BY <1>0, <1>2, <1>6, <3>1 DEF LockHolds
      <3>2. CASE n = m
        <4>1. WindowTotal(e, t, LockWindow) < LockThreshold
          BY <1>0, <1>1 DEF LockHolds, e
        <4>2. t \in Int /\ at \in Int
          BY DEF Times
        <4>3. WindowTotal(f, t, LockWindow) <= LockThreshold
          BY <1>3, <4>1, LoginTypes
        <4>4. ~after.locked => WindowTotal(f, t, LockWindow) < LockThreshold
          BY <1>3, <1>4, <1>5, <4>1, <4>2, LoginTypes
        <4>. QED
          BY <1>6, <3>2, <4>3, <4>4 DEF f
      <3>. QED
        BY <3>1, <3>2
    <2>. QED
      BY <2>1 DEF LockHolds
  <1>14. RatesHold'
    BY RatesFrame
  <1>. QED
    BY <1>9, <1>11, <1>12, <1>13, <1>14 DEF IInv

-----------------------------------------------------------------------------
(***************************************************************************)
(* The remaining steps of the two requests.                                *)
(***************************************************************************)
LEMMA HandlerOf ==
    ASSUME IInv, NEW r \in Requests, requests[r].op \in {"start", "verify"}
    PROVE  requests[r] \in Handlers
  <1>1. requests[r] \in {Idle} \cup Handlers
    BY DEF IInv, Typed
  <1>2. Idle.op \notin {"start", "verify"}
    BY DEF Idle
  <1>. QED
    BY <1>1, <1>2

\* A request that goes on to another step still carries what it carried.
LEMMA StepTypes ==
    ASSUME IInv, NEW r \in Requests, requests[r] \in Handlers,
           NEW step \in {"origin", "delivery", "issue", "send", "mark", "verify"}, Step(r, step)
    PROVE  requests' \in [Requests -> {Idle} \cup Handlers]
  <1>1. [requests[r] EXCEPT !.step = step] \in Handlers
    BY DEF Handlers
  <1>2. requests' = [requests EXCEPT ![r] = [requests[r] EXCEPT !.step = step]]
    BY DEF Step
  <1>. QED
    BY <1>1, <1>2 DEF IInv, Typed

LEMMA BeginStep ==
    ASSUME IInv, NEW r \in Requests, NEW request \in Handlers, Begin(r, request)
    PROVE  IInv'
  <1>1. requests' \in [Requests -> {Idle} \cup Handlers]
    BY DEF Begin, IInv, Typed
  <1>2. UNCHANGED <<shared, changes>> /\ now' \in Times
    BY DEF Begin, IInv, Typed, TypeOK
  <1>. QED
    BY <1>1, <1>2, QuietFrame

LEMMA AllowOriginStep ==
    ASSUME IInv, NEW r \in Requests, NEW op \in {"start", "verify"}, NEW bucket \in Origins,
           NEW next \in {"delivery", "verify"}, AllowOrigin(r, op, bucket, next)
    PROVE  IInv'
  <1> DEFINE at == requests[r].at
  <1>1. requests[r] \in Handlers
    BY HandlerOf DEF AllowOrigin, At
  <1>2. at \in Times /\ bucket \in Buckets
    BY <1>1 DEF Handlers, Buckets
  <1>3. CASE Allowed(bucket, at)
    <2>1. Recorded(bucket, at) /\ Step(r, next)
      BY <1>3 DEF AllowOrigin
    <2>2. requests' \in [Requests -> {Idle} \cup Handlers]
      BY <1>1, <2>1, StepTypes
    <2>3. UNCHANGED <<now, status, login, failed, codes, sessions, changes>>
      BY DEF AllowOrigin
    <2>. QED
      BY <1>2, <1>3, <2>1, <2>2, <2>3, RateStep
  <1>4. CASE ~Allowed(bucket, at)
    <2>1. UNCHANGED rates /\ Finish(r)
      BY <1>4 DEF AllowOrigin
    <2>2. requests' \in [Requests -> {Idle} \cup Handlers]
      BY <2>1, FinishTypes
    <2>3. UNCHANGED <<now, status, login, failed, codes, sessions, changes>>
      BY DEF AllowOrigin
    <2>. QED
      BY <1>2, <2>1, <2>2, <2>3, RateStep
  <1>. QED
    BY <1>3, <1>4

LEMMA AllowDeliveryStep ==
    ASSUME IInv, NEW r \in Requests, AllowDelivery(r)
    PROVE  IInv'
  <1> DEFINE m == requests[r].user
             at == requests[r].at
  <1>1. requests[r] \in Handlers
    BY HandlerOf DEF AllowDelivery, At
  <1>2. at \in Times /\ m \in Buckets
    BY <1>1 DEF Handlers, Buckets
  <1>3. UNCHANGED <<now, status, login, failed, codes, sessions, changes>>
    BY DEF AllowDelivery
  <1>4. CASE status[m] = "active" /\ Allowed(m, at)
    <2>1. Recorded(m, at) /\ Step(r, "issue")
      BY <1>4 DEF AllowDelivery
    <2>2. requests' \in [Requests -> {Idle} \cup Handlers]
      BY <1>1, <2>1, StepTypes
    <2>. QED
      BY <1>2, <1>3, <1>4, <2>1, <2>2, RateStep
  <1>5. CASE ~(status[m] = "active" /\ Allowed(m, at))
    <2>1. UNCHANGED rates /\ Finish(r)
      BY <1>5 DEF AllowDelivery
    <2>2. requests' \in [Requests -> {Idle} \cup Handlers]
      BY <2>1, FinishTypes
    <2>. QED
      BY <1>2, <1>3, <2>1, <2>2, RateStep
  <1>. QED
    BY <1>4, <1>5

LEMMA SendStep ==
    ASSUME IInv, NEW r \in Requests, NEW sent \in BOOLEAN, Send(r, sent)
    PROVE  IInv'
  <1>1. requests[r] \in Handlers
    BY HandlerOf DEF Send, At
  <1>2. [requests[r] EXCEPT !.step = "mark", !.sent = sent] \in Handlers
    BY <1>1, Zenon DEF Handlers
  <1>3. requests' = [requests EXCEPT ![r] = [requests[r] EXCEPT !.step = "mark", !.sent = sent]]
    BY DEF Send
  <1>4. requests' \in [Requests -> {Idle} \cup Handlers]
    BY <1>2, <1>3 DEF IInv, Typed
  <1>5. UNCHANGED <<shared, changes>> /\ now' \in Times
    BY DEF Send, IInv, Typed, TypeOK
  <1>. QED
    BY <1>4, <1>5, QuietFrame

LEMMA TickStep ==
    ASSUME IInv, Tick
    PROVE  IInv'
  <1>1. now' \in Times
    <2>1. now \in 0..MaxTime /\ now < MaxTime /\ now' = now + 1
      BY DEF Tick, IInv, Typed, TypeOK, Times
    <2>2. MaxTime \in Nat
      BY LoginTypes
    <2>. QED
      BY <2>1, <2>2 DEF Times
  <1>2. UNCHANGED <<shared, changes>> /\ requests' \in [Requests -> {Idle} \cup Handlers]
    BY DEF Tick, IInv, Typed
  <1>. QED
    BY <1>1, <1>2, QuietFrame

LEMMA VerifyStep ==
    ASSUME IInv, NEW r \in Requests, VerifyMemberChallenge(r)
    PROVE  IInv'
  <1> DEFINE m == requests[r].user
             at == requests[r].at
             code == requests[r].code
             live == LiveRows(m, at)
             active == {c \in Active(m) : live[c].state = "active"}
             failure == [failed EXCEPT ![m][at] = @ + 1]
             after == AfterFailure(login[m], at, Counted(failure[m], at, LockWindow))
             crossed == after.locked \/ after.blocked # login[m].blocked
             stopped == \/ \A c \in DOMAIN codes : codes[c].user # m
                        \/ (code \in active \/ crossed) /\ ~Stampable(active, at)
  <1>1. m \in Members /\ at \in Times
    BY HandlerOf DEF VerifyMemberChallenge, At, Handlers
  <1>2. UNCHANGED <<now, status, rates, changes>> /\ now' \in Times
    <2>1. UNCHANGED <<now, status, rates, changes>>
      BY DEF VerifyMemberChallenge
    <2>2. now \in Times
      BY DEF IInv, Typed, TypeOK
    <2>. QED
      BY <2>1, <2>2
  <1>3. requests' \in [Requests -> {Idle} \cup Handlers]
    BY FinishTypes DEF VerifyMemberChallenge
  <1>4. CASE UNCHANGED <<login, failed, codes, sessions>>
    BY <1>2, <1>3, <1>4, QuietFrame DEF shared
  <1>5. CASE MayReceive(m, at) /\ ~stopped /\ code \in active
    <2>1. Compare(m, at, code)
      BY <1>5 DEF VerifyMemberChallenge
    <2>2. /\ codes' = Used(live, m)
          /\ login' = [login EXCEPT ![m].failures = 0, ![m].blocked = Never]
          /\ sessions' = Append(sessions, [code |-> code, revoked |-> FALSE])
          /\ UNCHANGED failed
      BY <1>5, <2>1 DEF Compare, LiveRows
    <2>3. code \in Active(m) /\ MayReceive(m, at)
      BY <1>5
    <2>. QED
      BY <1>1, <1>2, <1>3, <2>2, <2>3, RightCode
  <1>6. CASE MayReceive(m, at) /\ ~stopped /\ code \notin active
    <2>1. Compare(m, at, code)
      BY <1>6 DEF VerifyMemberChallenge
    <2>2. /\ failed' = failure
          /\ login' = [login EXCEPT ![m] = after]
          /\ codes' = IF crossed THEN Retired(CountedRows(m, at), m, "revoked") ELSE CountedRows(m, at)
          /\ UNCHANGED sessions
      BY <1>6, <2>1 DEF Compare, CountedRows, LiveRows
    <2>3. after = AfterFailure(login[m], at, Counted(failed'[m], at, LockWindow)) /\ MayReceive(m, at)
      BY <1>6, <2>2
    <2>. HIDE DEF after, m, at
    <2>. QED
      BY <1>1, <1>2, <1>3, <2>2, <2>3, WrongCode
  <1>7. CASE ~MayReceive(m, at)
    BY <1>4, <1>7 DEF VerifyMemberChallenge
  <1>8. CASE MayReceive(m, at) /\ stopped
    BY <1>4, <1>8 DEF VerifyMemberChallenge, Compare, LiveRows
  <1>. QED
    BY <1>5, <1>6, <1>7, <1>8

-----------------------------------------------------------------------------
(***************************************************************************)
(* The theorems.                                                           *)
(***************************************************************************)
LEMMA StartSignInStep ==
    ASSUME IInv, NEW r \in Requests, StartSignIn(r)
    PROVE  IInv'
  <1>1. ASSUME NEW m \in Members, BeginStart(r, m) PROVE IInv'
    <2> DEFINE request == [op |-> "start", step |-> "origin", user |-> m, at |-> now, code |-> 0, sent |-> FALSE]
    <2>1. request \in Handlers
      <3>1. now \in Times
        BY DEF IInv, Typed, TypeOK
      <3>. QED
        BY <3>1 DEF Handlers
    <2>2. Begin(r, request)
      BY <1>1 DEF BeginStart
    <2>. QED
      BY <2>1, <2>2, BeginStep
  <1>2. AllowOrigin(r, "start", "code_request", "delivery") => IInv'
    BY AllowOriginStep DEF Origins
  <1>3. ASSUME NEW sent \in BOOLEAN, Send(r, sent) PROVE IInv'
    BY <1>3, SendStep
  <1>. QED
    BY <1>1, <1>2, <1>3, AllowDeliveryStep, IssueStep, MarkStep DEF StartSignIn

LEMMA VerifyMemberCodeStep ==
    ASSUME IInv, NEW r \in Requests, VerifyMemberCode(r)
    PROVE  IInv'
  <1>1. ASSUME NEW m \in Members, NEW code \in 0..MaxCodes, BeginVerify(r, m, code) PROVE IInv'
    <2> DEFINE request == [op |-> "verify", step |-> "origin", user |-> m, at |-> now, code |-> code, sent |-> FALSE]
    <2>1. request \in Handlers
      <3>1. now \in Times /\ code \in Nat
        BY LoginTypes DEF IInv, Typed, TypeOK
      <3>. QED
        BY <3>1 DEF Handlers
    <2>2. Begin(r, request)
      BY <1>1 DEF BeginVerify
    <2>. QED
      BY <2>1, <2>2, BeginStep
  <1>2. AllowOrigin(r, "verify", "code_verify", "verify") => IInv'
    BY AllowOriginStep DEF Origins
  <1>. QED
    BY <1>1, <1>2, VerifyStep DEF VerifyMemberCode

\* No step of Next disturbs the invariant: one lemma for each of the actions.
LEMMA InvStep == IInv /\ [Next]_vars => IInv'
  <1> SUFFICES ASSUME IInv, [Next]_vars PROVE IInv'
    OBVIOUS
  <1>1. ASSUME NEW r \in Requests, StartSignIn(r) PROVE IInv'
    BY <1>1, StartSignInStep
  <1>2. ASSUME NEW r \in Requests, VerifyMemberCode(r) PROVE IInv'
    BY <1>2, VerifyMemberCodeStep
  <1>3. CASE Administration
    <2>1. ASSUME NEW m \in Members, UnlockMember(m) PROVE IInv'
      BY <2>1, UnlockMemberStep
    <2>2. ASSUME NEW m \in Members, NEW new \in {"active", "deactivated"}, SetMemberStatus(m, new) PROVE IInv'
      BY <2>2, SetMemberStatusStep
    <2>. QED
      BY <1>3, <2>1, <2>2, RotateSigningKeyStep DEF Administration
  <1>4. CASE Tick
    BY <1>4, TickStep
  <1>5. CASE UNCHANGED vars
    <2>1. UNCHANGED <<shared, changes>> /\ UNCHANGED <<now, requests>>
      BY <1>5 DEF vars
    <2>2. now' \in Times /\ requests' \in [Requests -> {Idle} \cup Handlers]
      BY <2>1 DEF IInv, Typed, TypeOK
    <2>. QED
      BY <2>1, <2>2, QuietFrame
  <1>. QED
    BY <1>1, <1>2, <1>3, <1>4, <1>5 DEF Next

\* Whatever requests overlap, in whichever order their transactions come, the
\* conjuncts of the invariant hold (all of StartSignIn, VerifyMemberCode and the
\* administration's operations).
THEOREM Invariance == Spec => []IInv
  BY InvInit, InvStep, PTL DEF Spec

\* The state keeps its types: no counter of failures passes the threshold that resets
\* it (RecordFailure), and every row belongs to a member.
THEOREM TypeCorrect == Spec => []TypeOK
  <1>1. IInv => TypeOK
    BY DEF IInv, Typed
  <1>. QED
    BY Invariance, <1>1, PTL

\* SetMemberStatus ends a member's access at once, for good until the owner restores
\* it: a request that was under way leaves a deactivated member no session and no code.
THEOREM OutAtOnce == Spec => []DeactivatedMembersAreOut
  <1>1. IInv => DeactivatedMembersAreOut
    BY DEF IInv
  <1>. QED
    BY Invariance, <1>1, PTL

\* VerifyMemberChallenge opens at most one session for a code, although several
\* requests may hold it.
THEOREM OneSessionPerCode == Spec => []CodesOpenOneSession
  <1>1. IInv => CodesOpenOneSession
    BY DEF IInv
  <1>. QED
    BY Invariance, <1>1, PTL

\* The limits of RecordFailure and AllowRate hold whatever the order of the requests:
\* a code is never tried wrongly more than BlockThreshold times, no lockout window
\* holds more than LockThreshold failures, no rate window is overdrawn.
THEOREM HeldBack == Spec => []AttemptsAreHeldBack
  <1>1. IInv => GuessesAreBounded
    BY DEF IInv, GuessesHold, GuessesAreBounded
  <1>2. IInv => LockoutHolds
    BY DEF IInv, LockHolds, LockoutHolds
  <1>3. IInv => RatesAreHeld
    BY DEF IInv, RatesHold, RatesAreHeld
  <1>4. IInv => AttemptsAreHeldBack
    BY <1>1, <1>2, <1>3 DEF AttemptsAreHeldBack
  <1>. QED
    BY Invariance, <1>4, PTL
=============================================================================

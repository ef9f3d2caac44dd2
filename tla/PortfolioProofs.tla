--------------------------- MODULE PortfolioProofs ---------------------------
(***************************************************************************)
(* What a person's record of trades guarantees for every number of         *)
(* requests, instruments, trades and versions.                             *)
(***************************************************************************)
EXTENDS Portfolio, FiniteSetTheorems, WellFoundedInduction, TLAPS

VersionRows == [instrument: Instruments, direction: {"buy", "sell"}, quantity: Nat \ {0},
                price: Nat \ {0}, costs: Nat, date: Nat,
                sequence: Nat, supersededBy: Nat, withdrawn: BOOLEAN]

Doing == [phase: {"idle", "judged", "creating", "ready"}, op: {"none", "record", "correct", "withdraw"},
          entry: Entries \cup {<<>>}, target: Nat]

(***************************************************************************)
(* The stored versions, whatever requests are in progress: t is a value of *)
(* trades.                                                                 *)
(***************************************************************************)
Counts(v) == v.supersededBy = 0 /\ ~ v.withdrawn

Rows(t) ==
    /\ t \in Seq(VersionRows)
    /\ \A n \in DOMAIN t : t[n].sequence \in 1..n /\ t[n].supersededBy \in 0..Len(t)

\* VersionsFormChains.
Chains(t) ==
    /\ \A m, n \in DOMAIN t : Counts(t[m]) /\ Counts(t[n]) /\ t[m].sequence = t[n].sequence => m = n
    /\ \A n \in DOMAIN t : t[n].supersededBy # 0 =>
          t[n].supersededBy > n /\ t[t[n].supersededBy].sequence = t[n].sequence
    /\ \A n \in DOMAIN t : t[n].withdrawn => t[n].supersededBy = 0
    /\ \A m, n \in DOMAIN t :
          t[m].supersededBy = t[n].supersededBy /\ t[m].supersededBy # 0 => m = n

\* The versions of an instrument that count, without one of them; and the trade asserted.
Kept(t, i, n) == {t[m] : m \in {k \in DOMAIN t \ {n} : Counts(t[k]) /\ t[k].instrument = i}}

Added(entry) == {[instrument |-> e.instrument, direction |-> e.direction,
                  quantity |-> e.quantity, sequence |-> 0] : e \in {entry} \ {<<>>}}

\* A correction moved a trade away from the instrument.
MovedFrom(t, i) == \E n \in DOMAIN t : /\ t[n].supersededBy # 0 /\ t[n].instrument = i
                                       /\ t[t[n].supersededBy].instrument # i

Whole(t) == \A i \in Instruments : MovedFrom(t, i) \/ HeldAfter(Kept(t, i, 0)) >= 0

(***************************************************************************)
(* What a request asserts, and which version it replaces or withdraws.     *)
(***************************************************************************)
Carries(q, t) ==
    /\ q.phase = "idle" => q = Idle
    /\ q.phase # "idle" => q.op # "none"
    /\ q.op \in {"record", "correct"} => q.entry \in Entries
    /\ q.op = "record" => q.target = 0
    /\ q.op = "withdraw" => q.entry = <<>>
    /\ q.op \in {"correct", "withdraw"} => q.target \in DOMAIN t

\* The instrument a request was judged for.
Subject(q, t) == IF q.op = "withdraw" THEN t[q.target].instrument ELSE q.entry.instrument

\* What it was judged by.
Passes(q, t) == HeldAfter(Kept(t, Subject(q, t), q.target) \cup Added(q.entry)) >= 0

Busy(q) == q.phase # "idle"

RequestsHold ==
    /\ request \in [Requests -> Doing]
    /\ \A r \in Requests : Carries(request[r], trades)

\* As long as requests come one after another, what one was judged by still holds
\* when it writes.
AloneHolds ==
    ~overlapped =>
       /\ \A q, r \in Requests : Busy(request[q]) /\ Busy(request[r]) => q = r
       /\ \A r \in Requests : Busy(request[r]) => Passes(request[r], trades)
       /\ Whole(trades)

IInv == Rows(trades) /\ Chains(trades) /\ RequestsHold /\ AloneHolds

-----------------------------------------------------------------------------
(***************************************************************************)
(* What HeldAfter sums.  It folds over a set in an order of its own; these *)
(* lemmas show that the order does not matter.                             *)
(***************************************************************************)
Signed(t) == IF t.direction = "buy" THEN t.quantity ELSE -t.quantity

Pick(s) == CHOOSE t \in s : TRUE

\* One level of the fold, over the function of the levels below.
Level(g, s) == IF s = {} THEN 0 ELSE Signed(Pick(s)) + g[s \ {Pick(s)}]

SumsUp(g, S) == g = [s \in SUBSET S |-> Level(g, s)]

LEMMA FoldIsChosen ==
    ASSUME NEW S
    PROVE  HeldAfter(S) = (CHOOSE g : SumsUp(g, S))[S]
  BY Zenon DEF HeldAfter, MapThenSumSet, MapThenFoldSet, SumsUp, Level, Pick, Signed

LEMMA SmallestSize ==
    ASSUME NEW S \in SUBSET Nat, S # {}
    PROVE  \E s \in S : \A t \in S : s <= t
  <1> DEFINE R == OpToRel(<, Nat)
  <1>1. IsWellFoundedOn(R, Nat)
    BY NatLessThanWellFounded
  <1>2. \A y, x \in Nat : y < x => <<y, x>> \in R
    BY DEF OpToRel
  <1>. HIDE DEF R
  <1>3. PICK s \in S : \A t \in S : ~(<<t, s>> \in R)
    BY <1>1, WFMin
  <1>4. ASSUME NEW t \in S PROVE s <= t
    <2>1. ~(t < s)
      BY <1>2, <1>3, Zenon
    <2>. QED
      BY <2>1
  <1>. QED
    BY <1>4

\* Induction over the subsets of a finite set.
LEMMA SubsetInduction ==
    ASSUME NEW T, IsFiniteSet(T), NEW P,
           \A s \in SUBSET T : (\A u \in SUBSET s : u # s => u \in P) => s \in P
    PROVE  \A s \in SUBSET T : s \in P
  <1> SUFFICES ASSUME NEW b \in SUBSET T, b \notin P PROVE FALSE
    OBVIOUS
  <1> DEFINE bad   == {s \in SUBSET T : s \notin P}
             sizes == {Cardinality(s) : s \in bad}
  <1>1. \A s \in bad : IsFiniteSet(s) /\ Cardinality(s) \in Nat
    BY FS_Subset, FS_CardinalityType
  <1>2. sizes \in SUBSET Nat /\ sizes # {}
    BY <1>1
  <1>. HIDE DEF sizes
  <1>3. PICK n \in sizes : \A m \in sizes : n <= m
    BY <1>2, SmallestSize
  <1>4. PICK s \in bad : n = Cardinality(s)
    BY <1>3 DEF sizes
  <1>5. ASSUME NEW u \in SUBSET s, u # s PROVE u \in P
    <2>1. IsFiniteSet(s) /\ Cardinality(s) \in Nat
      BY <1>1, <1>4
    <2>2. Cardinality(u) \in Nat /\ Cardinality(u) < Cardinality(s)
      BY <1>5, <2>1, FS_Subset, FS_CardinalityType
    <2>3. Cardinality(u) \notin sizes
      BY <1>3, <1>4, <2>1, <2>2
    <2>. QED
      BY <1>4, <2>3 DEF sizes
  <1>. QED
    BY <1>4, <1>5

\* The fold's recursion has a solution.
LEMMA SumExists ==
    ASSUME NEW T, IsFiniteSet(T)
    PROVE  \E g : SumsUp(g, T)
  <1> DEFINE Upto(g, n) == \A s \in SUBSET T : Cardinality(s) <= n => g[s] = Level(g, s)
             reached == {n \in Nat : \E g : Upto(g, n)}
  <1>1. \A s \in SUBSET T : IsFiniteSet(s) /\ Cardinality(s) \in Nat
    BY FS_Subset, FS_CardinalityType
  <1>2. \A s \in SUBSET T : s # {} => Pick(s) \in s
    BY DEF Pick
  <1>3. ASSUME NEW n \in Nat, NEW g, Upto(g, n)
        PROVE  Upto([s \in SUBSET T |-> Level(g, s)], n + 1)
    <2> DEFINE h == [s \in SUBSET T |-> Level(g, s)]
    <2> SUFFICES ASSUME NEW s \in SUBSET T, Cardinality(s) <= n + 1 PROVE h[s] = Level(h, s)
      OBVIOUS
    <2>1. CASE s = {}
      BY <2>1 DEF Level
    <2>2. CASE s # {}
      <3> DEFINE u == s \ {Pick(s)}
      <3>1. u \in SUBSET T /\ Cardinality(u) = Cardinality(s) - 1
        BY <1>1, <1>2, <2>2, FS_RemoveElement
      <3>2. Cardinality(u) <= n
        BY <1>1, <3>1
      <3>3. h[u] = g[u]
        BY <1>3, <3>1, <3>2
      <3>. QED
        BY <2>2, <3>3 DEF Level
    <2>. QED
      BY <2>1, <2>2
  <1>4. 0 \in reached
    <2>1. Upto([s \in SUBSET T |-> 0], 0)
      <3> SUFFICES ASSUME NEW s \in SUBSET T, Cardinality(s) <= 0
                   PROVE  0 = Level([u \in SUBSET T |-> 0], s)
        OBVIOUS
      <3>1. s = {}
        BY <1>1, FS_EmptySet
      <3>. QED
        BY <3>1 DEF Level
    <2>. QED
      BY <2>1
  <1>5. reached = Nat
    <2> SUFFICES ASSUME Nat \ reached # {} PROVE FALSE
      OBVIOUS
    <2>1. PICK n \in Nat \ reached : \A m \in Nat \ reached : n <= m
      BY SmallestSize
    <2>2. n # 0 /\ n - 1 \in Nat
      BY <1>4, <2>1
    <2>3. n - 1 \in reached
      BY <2>1, <2>2
    <2>4. PICK g : Upto(g, n - 1)
      BY <2>3
    <2>5. Upto([s \in SUBSET T |-> Level(g, s)], (n - 1) + 1)
      BY <1>3, <2>2, <2>4
    <2>6. (n - 1) + 1 = n
      OBVIOUS
    <2>. HIDE DEF Upto
    <2>. QED
      BY <2>1, <2>5, <2>6
  <1>6. Cardinality(T) \in Nat /\ \A s \in SUBSET T : Cardinality(s) <= Cardinality(T)
    BY FS_Subset, FS_CardinalityType
  <1>7. PICK g : Upto(g, Cardinality(T))
    BY <1>5, <1>6
  <1> DEFINE h == [s \in SUBSET T |-> Level(g, s)]
  <1>8. Upto(h, Cardinality(T) + 1)
    BY <1>3, <1>6, <1>7
  <1>9. ASSUME NEW s \in SUBSET T PROVE h[s] = Level(h, s)
    <2>. HIDE DEF h
    <2>1. Cardinality(s) <= Cardinality(T) + 1
      BY <1>1, <1>6
    <2>. QED
      BY <1>8, <2>1
  <1>10. h = [s \in SUBSET T |-> Level(h, s)]
    BY <1>9
  <1>. QED
    BY <1>10 DEF SumsUp

\* What is held after a set of trades is one of them and what is held after the others.
LEMMA HeldLevel ==
    ASSUME NEW T, IsFiniteSet(T)
    PROVE  \E g : \A s \in SUBSET T : g[s] = HeldAfter(s) /\ g[s] = Level(g, s)
  <1> DEFINE Chosen(s) == CHOOSE g : SumsUp(g, s)
             g == Chosen(T)
  <1>1. \A s \in SUBSET T : SumsUp(Chosen(s), s)
    BY FS_Subset, SumExists
  <1>2. \A s \in SUBSET T : HeldAfter(s) = Chosen(s)[s]
    BY FoldIsChosen
  <1>3. SumsUp(g, T)
    BY <1>1
  <1>. HIDE DEF Chosen
  <1>4. ASSUME NEW s \in SUBSET T PROVE g[s] = Chosen(s)[s]
    <2> DEFINE P == {u \in SUBSET s : g[u] = Chosen(s)[u]}
    <2>1. IsFiniteSet(s)
      BY FS_Subset
    <2>2. ASSUME NEW u \in SUBSET s, \A v \in SUBSET u : v # u => v \in P
          PROVE  u \in P
      <3>1. g[u] = Level(g, u) /\ Chosen(s)[u] = Level(Chosen(s), u)
        <4>1. Chosen(s)[u] = Level(Chosen(s), u)
          BY <1>1, <1>4 DEF SumsUp
        <4>2. g[u] = Level(g, u)
          BY <1>3 DEF SumsUp
        <4>. QED
          BY <4>1, <4>2
      <3>2. CASE u = {}
        BY <3>1, <3>2 DEF Level
      <3>3. CASE u # {}
        <4>1. u \ {Pick(u)} \in P
          BY <2>2, <3>3 DEF Pick
        <4>. QED
          BY <3>1, <3>3, <4>1 DEF Level
      <3>. QED
        BY <3>2, <3>3
    <2>3. \A u \in SUBSET s : u \in P
      <3>. HIDE DEF P
      <3>. QED
        BY <2>1, <2>2, SubsetInduction
    <2>. QED
      BY <2>3
  <1>5. \A s \in SUBSET T : g[s] = Level(g, s)
    BY <1>3 DEF SumsUp
  <1>. QED
    BY <1>2, <1>4, <1>5

\* HeldAfter is a number, and it does not matter which trade is counted first.
LEMMA HeldFacts ==
    ASSUME NEW T, IsFiniteSet(T), \A t \in T : Signed(t) \in Int
    PROVE  /\ HeldAfter({}) = 0
           /\ \A s \in SUBSET T : HeldAfter(s) \in Int
           /\ \A s \in SUBSET T : \A x \in s : HeldAfter(s) = Signed(x) + HeldAfter(s \ {x})
  <1>1. PICK g : \A s \in SUBSET T : g[s] = HeldAfter(s) /\ g[s] = Level(g, s)
    BY HeldLevel
  <1>2. HeldAfter({}) = 0
    BY <1>1 DEF Level
  <1>3. \A s \in SUBSET T : s # {} => Pick(s) \in s /\ s \ {Pick(s)} \in SUBSET T
    BY DEF Pick
  <1>4. \A s \in SUBSET T : s # {} => HeldAfter(s) = Signed(Pick(s)) + HeldAfter(s \ {Pick(s)})
    BY <1>1, <1>3 DEF Level
  <1> DEFINE P == {s \in SUBSET T :
                     /\ HeldAfter(s) \in Int
                     /\ \A x \in s : HeldAfter(s) = Signed(x) + HeldAfter(s \ {x})}
  <1>5. ASSUME NEW s \in SUBSET T, \A u \in SUBSET s : u # s => u \in P
        PROVE  s \in P
    <2>1. CASE s = {}
      BY <1>2, <2>1
    <2>2. CASE s # {}
      <3> DEFINE p == Pick(s)
      <3>1. p \in s /\ s \ {p} \in P /\ HeldAfter(s) = Signed(p) + HeldAfter(s \ {p})
        BY <1>3, <1>4, <1>5, <2>2
      <3>2. Signed(p) \in Int /\ HeldAfter(s \ {p}) \in Int /\ HeldAfter(s) \in Int
        BY <3>1
      <3>3. ASSUME NEW x \in s, x # p
            PROVE  HeldAfter(s) = Signed(x) + HeldAfter(s \ {x})
        <4>1. s \ {x} \in P /\ x \in s \ {p} /\ p \in s \ {x}
          BY <1>5, <3>1, <3>3
        <4>2. HeldAfter(s \ {p}) = Signed(x) + HeldAfter((s \ {p}) \ {x})
          BY <3>1, <4>1
        <4>3. HeldAfter(s \ {x}) = Signed(p) + HeldAfter((s \ {x}) \ {p})
          BY <4>1
        <4>4. (s \ {p}) \ {x} = (s \ {x}) \ {p} /\ (s \ {x}) \ {p} \in P
          <5>1. (s \ {p}) \ {x} = (s \ {x}) \ {p}
            OBVIOUS
          <5>2. (s \ {x}) \ {p} \in SUBSET s /\ (s \ {x}) \ {p} # s
            BY <3>1
          <5>. QED
            BY <1>5, <5>1, <5>2
        <4> DEFINE rest  == HeldAfter((s \ {x}) \ {p})
                   left  == HeldAfter(s \ {p})
                   right == HeldAfter(s \ {x})
        <4>5. rest \in Int /\ Signed(x) \in Int
          BY <4>4
        <4>6. left = Signed(x) + rest /\ right = Signed(p) + rest /\ HeldAfter(s) = Signed(p) + left
          BY <3>1, <4>2, <4>3, <4>4
        <4>. HIDE DEF p, rest, left
        <4>7. HeldAfter(s) = Signed(x) + (Signed(p) + rest)
          BY <3>2, <4>5, <4>6
        <4>. QED
          BY <4>6, <4>7
      <3>. HIDE DEF p
      <3>4. \A x \in s : HeldAfter(s) = Signed(x) + HeldAfter(s \ {x})
        BY <3>1, <3>3
      <3>. QED
        BY <3>2, <3>4
    <2>. QED
      BY <2>1, <2>2
  <1>6. \A s \in SUBSET T : s \in P
    <2>. HIDE DEF P
    <2>. QED
      BY <1>5, SubsetInduction
  <1>. QED
    BY <1>2, <1>6

\* Two records that say the same of quantity and direction add the same to what is held.
LEMMA HeldWith ==
    ASSUME NEW S, IsFiniteSet(S), \A t \in S : Signed(t) \in Int,
           NEW x, NEW y, x \notin S, y \notin S, Signed(x) \in Int, Signed(y) = Signed(x)
    PROVE  HeldAfter(S \cup {x}) = HeldAfter(S \cup {y})
  <1>1. ASSUME NEW z, z \notin S, Signed(z) \in Int
        PROVE  HeldAfter(S \cup {z}) = Signed(z) + HeldAfter(S)
    <2> DEFINE T == S \cup {z}
    <2>1. IsFiniteSet(T) /\ \A t \in T : Signed(t) \in Int
      BY <1>1, FS_AddElement
    <2>2. z \in T /\ T \ {z} = S
      BY <1>1
    <2>. HIDE DEF T
    <2>3. HeldAfter(T) = Signed(z) + HeldAfter(T \ {z})
      BY <2>1, <2>2, HeldFacts
    <2>. QED
      BY <2>2, <2>3 DEF T
  <1>. QED
    BY <1>1

-----------------------------------------------------------------------------
(***************************************************************************)
(* The operators of the model, in terms of the stored versions.            *)
(***************************************************************************)
LEMMA RowFacts ==
    ASSUME NEW t, Rows(t)
    PROVE  /\ DOMAIN t = 1..Len(t) /\ Len(t) \in Nat
           /\ \A m \in DOMAIN t : t[m] \in VersionRows /\ Signed(t[m]) \in Int
           /\ \A i, n : /\ IsFiniteSet(Kept(t, i, n))
                        /\ \A v \in Kept(t, i, n) : Signed(v) \in Int /\ v.sequence # 0
  <1>1. DOMAIN t = 1..Len(t) /\ Len(t) \in Nat
    BY DEF Rows
  <1>2. \A m \in DOMAIN t : t[m] \in VersionRows /\ t[m].sequence # 0
    BY DEF Rows
  <1>3. \A v \in VersionRows : Signed(v) \in Int
    BY DEF VersionRows, Signed
  <1>4. ASSUME NEW i, NEW n
        PROVE  /\ IsFiniteSet(Kept(t, i, n))
               /\ \A v \in Kept(t, i, n) : Signed(v) \in Int /\ v.sequence # 0
    <2> DEFINE chosen == {k \in DOMAIN t \ {n} : Counts(t[k]) /\ t[k].instrument = i}
    <2>1. chosen \in SUBSET (1..Len(t))
      BY <1>1
    <2>2. chosen \in SUBSET DOMAIN t /\ Kept(t, i, n) = {t[m] : m \in chosen}
      BY DEF Kept
    <2>. HIDE DEF chosen
    <2>3. IsFiniteSet(1..Len(t))
      BY <1>1, FS_Interval
    <2>4. IsFiniteSet(chosen)
      BY <2>1, <2>3, FS_Subset, Zenon
    <2>5. IsFiniteSet({t[m] : m \in chosen})
      <3> DEFINE f == [m \in chosen |-> t[m]]
      <3>1. f \in Surjection(chosen, {t[m] : m \in chosen})
        BY DEF Surjection
      <3>. QED
        BY <2>4, <3>1, FS_Surjection
    <2>. QED
      BY <1>2, <1>3, <2>2, <2>5, Zenon
  <1>. QED
    BY <1>1, <1>2, <1>3, <1>4

LEMMA RefusesIs ==
    ASSUME NEW i, NEW n, NEW e
    PROVE  RefusesForPosition(i, n, e) <=> HeldAfter(Kept(trades, i, n) \cup Added(e)) < 0
  <1>1. {m \in Current \ {n} : trades[m].instrument = i}
            = {k \in DOMAIN trades \ {n} : Counts(trades[k]) /\ trades[k].instrument = i}
    BY DEF Current, IsCurrent, Counts
  <1>. QED
    BY <1>1 DEF RefusesForPosition, Kept, Added

LEMMA HoldingIs ==
    ASSUME Rows(trades), NEW i
    PROVE  Of(i, CurrentTrades) = Kept(trades, i, 0)
  <1>1. 0 \notin DOMAIN trades
    BY RowFacts
  <1>. QED
    BY <1>1 DEF Of, CurrentTrades, Current, IsCurrent, Kept, Counts

LEMMA HighestIs ==
    ASSUME NEW l \in Nat, NEW S \in SUBSET (0..l)
    PROVE  Highest(S) \in 0..l /\ \A m \in S : m <= Highest(S)
  <1> DEFINE all  == S \cup {0}
             gaps == {l - m : m \in all}
  <1>1. gaps \in SUBSET Nat /\ gaps # {}
    <2>1. all \in SUBSET (0..l) /\ 0 \in all /\ \A m \in 0..l : l - m \in Nat
      OBVIOUS
    <2>. QED
      BY <2>1, Zenon
  <1>2. PICK g \in gaps : \A h \in gaps : g <= h
    BY <1>1, SmallestSize
  <1>3. PICK n \in all : g = l - n
    BY <1>2
  <1>4. \A m \in all : l - n <= l - m
    BY <1>2, <1>3
  <1>5. \A m \in S : m <= n
    BY <1>3, <1>4
  <1>6. Highest(S) \in all /\ \A m \in S : m <= Highest(S)
    <2>. HIDE DEF all, gaps
    <2>1. \E x \in all : \A m \in S : m <= x
      BY <1>3, <1>5, Zenon
    <2>2. Highest(S) = CHOOSE x \in all : \A m \in S : m <= x
      BY DEF Highest, all
    <2>. QED
      BY <2>1, <2>2, Zenon
  <1>7. all \in SUBSET (0..l)
    OBVIOUS
  <1>. QED
    BY <1>6, <1>7, Zenon

LEMMA VersionIs ==
    ASSUME Rows(trades), NEW e \in Entries, NEW n \in {0} \cup DOMAIN trades
    PROVE  /\ Version(e, n) \in VersionRows /\ Counts(Version(e, n))
           /\ Version(e, n).instrument = e.instrument
           /\ Signed(Version(e, n)) = Signed(e)
           /\ n # 0 => Version(e, n).sequence = trades[n].sequence
           /\ n = 0 => /\ Version(e, n).sequence \in 1..(Len(trades) + 1)
                       /\ \A m \in DOMAIN trades : trades[m].sequence # Version(e, n).sequence
  <1> DEFINE used == {trades[m].sequence : m \in DOMAIN trades}
  <1>1. Len(trades) \in Nat /\ used \in SUBSET (0..Len(trades)) /\ 0 \notin DOMAIN trades
    BY RowFacts DEF Rows
  <1>2. Highest(used) \in 0..Len(trades) /\ \A s \in used : s <= Highest(used)
    BY <1>1, HighestIs
  <1>3. \A m \in DOMAIN trades : trades[m].sequence \in used /\ trades[m].sequence \in Nat
    BY <1>1
  <1>4. e \in [instrument: Instruments, direction: {"buy", "sell"}, quantity: Nat \ {0},
               price: Nat \ {0}, costs: Nat, date: Nat]
    BY PortfolioAssumption
  <1> DEFINE s == IF n = 0 THEN 1 + Highest(used) ELSE trades[n].sequence
  <1>5. s \in Nat /\ (n = 0 => s \in 1..(Len(trades) + 1) /\ \A m \in DOMAIN trades : trades[m].sequence # s)
    <2> DEFINE h == Highest(used)
    <2>1. h \in 0..Len(trades) /\ \A m \in DOMAIN trades : trades[m].sequence <= h
      BY <1>2, <1>3
    <2>. HIDE DEF h, used
    <2>2. CASE n = 0
      <3>1. s = 1 + h
        BY <2>2 DEF h
      <3>2. \A m \in DOMAIN trades : trades[m].sequence # 1 + h
        BY <1>3, <2>1
      <3>. QED
        BY <1>1, <2>1, <2>2, <3>1, <3>2
    <2>3. CASE n # 0
      BY <1>3, <2>3
    <2>. QED
      BY <2>2, <2>3
  <1>6. Version(e, n) = [instrument |-> e.instrument, direction |-> e.direction, quantity |-> e.quantity,
                         price |-> e.price, costs |-> e.costs, date |-> e.date,
                         sequence |-> s, supersededBy |-> 0, withdrawn |-> FALSE]
    BY DEF Version
  <1>. HIDE DEF used, s
  <1>7. Version(e, n) \in VersionRows
    BY <1>4, <1>5, <1>6 DEF VersionRows
  <1>8. Counts(Version(e, n)) /\ Version(e, n).instrument = e.instrument /\ Version(e, n).sequence = s
    BY <1>6 DEF Counts
  <1>9. Signed(Version(e, n)) = Signed(e)
    BY <1>6 DEF Signed
  <1>. QED
    BY <1>1, <1>5, <1>7, <1>8, <1>9 DEF s

-----------------------------------------------------------------------------
(***************************************************************************)
(* What the three writes make of the stored versions.                      *)
(***************************************************************************)
Insertion(t, v) == Append(t, v)

Correction(t, n, v) == Append([t EXCEPT ![n].supersededBy = Len(t) + 1], v)

Withdrawal(t, n) == [t EXCEPT ![n].withdrawn = TRUE]

Only(v, i) == IF v.instrument = i THEN {v} ELSE {}

LEMMA Inserted ==
    ASSUME NEW t, Rows(t), Chains(t), NEW v \in VersionRows, Counts(v),
           v.sequence \in 1..(Len(t) + 1), \A m \in DOMAIN t : t[m].sequence # v.sequence,
           NEW u, u = Insertion(t, v)
    PROVE  /\ Rows(u) /\ Chains(u) /\ DOMAIN t \subseteq DOMAIN u
           /\ \A m \in DOMAIN t : u[m].instrument = t[m].instrument
           /\ \A i : MovedFrom(t, i) => MovedFrom(u, i)
           /\ \A i : Kept(u, i, 0) = Kept(t, i, 0) \cup Only(v, i)
  <1> DEFINE l == Len(t)
  <1>1. l \in Nat /\ DOMAIN t = 1..l /\ t \in Seq(VersionRows)
    BY RowFacts DEF Rows
  <1>2. u \in Seq(VersionRows) /\ Len(u) = l + 1 /\ DOMAIN u = 1..(l + 1)
    BY <1>1 DEF Insertion
  <1>3. u[l + 1] = v /\ \A m \in 1..l : u[m] = t[m]
    BY <1>1 DEF Insertion
  <1>4. \A m \in 1..l : t[m].sequence \in 1..m /\ t[m].supersededBy \in 0..l
    BY <1>1 DEF Rows
  <1>5. v.supersededBy = 0 /\ ~v.withdrawn
    BY DEF Counts
  <1>. HIDE DEF l
  <1>6. Rows(u)
    <2>1. \A m \in 1..(l + 1) : m \in 1..l \/ m = l + 1
      BY <1>1
    <2>2. \A m \in 1..(l + 1) : u[m].sequence \in 1..m /\ u[m].supersededBy \in 0..(l + 1)
      BY <1>1, <1>3, <1>4, <1>5, <2>1 DEF l
    <2>. QED
      BY <1>2, <2>2 DEF Rows
  <1>7. \A m \in DOMAIN u : m \in DOMAIN t \/ m = l + 1
    BY <1>1, <1>2
  <1>8. \A m \in DOMAIN t : m \in DOMAIN u /\ u[m] = t[m] /\ (t[m].supersededBy # 0 => t[m].supersededBy \in DOMAIN t)
    BY <1>1, <1>2, <1>3, <1>4
  <1>9. Chains(u)
    <2>1. \A m, n \in DOMAIN u : Counts(u[m]) /\ Counts(u[n]) /\ u[m].sequence = u[n].sequence => m = n
      BY <1>3, <1>7, <1>8 DEF Chains
    <2>2. \A n \in DOMAIN u : u[n].supersededBy # 0 =>
             u[n].supersededBy > n /\ u[u[n].supersededBy].sequence = u[n].sequence
      BY <1>3, <1>5, <1>7, <1>8 DEF Chains
    <2>3. ASSUME NEW n \in DOMAIN u, u[n].withdrawn PROVE u[n].supersededBy = 0
      <3>1. CASE n \in DOMAIN t
        <4>1. u[n] = t[n]
          BY <1>8, <3>1
        <4>. QED
          BY <2>3, <3>1, <4>1, Zenon DEF Chains
      <3>2. CASE n = l + 1
        BY <1>3, <1>5, <3>2
      <3>. QED
        BY <1>7, <3>1, <3>2
    <2>4. \A m, n \in DOMAIN u : u[m].supersededBy = u[n].supersededBy /\ u[m].supersededBy # 0 => m = n
      BY <1>3, <1>5, <1>7, <1>8 DEF Chains
    <2>. QED
      BY <2>1, <2>2, <2>3, <2>4, Zenon DEF Chains
  <1>10. \A i : MovedFrom(t, i) => MovedFrom(u, i)
    BY <1>8 DEF MovedFrom
  <1>11. ASSUME NEW i PROVE Kept(u, i, 0) = Kept(t, i, 0) \cup Only(v, i)
    <2>1. 0 \notin DOMAIN t /\ 0 \notin DOMAIN u /\ l + 1 \in DOMAIN u
      BY <1>1, <1>2
    <2>2. Kept(u, i, 0) = {u[m] : m \in {k \in DOMAIN u : Counts(u[k]) /\ u[k].instrument = i}}
      BY <2>1 DEF Kept
    <2>3. Kept(t, i, 0) = {t[m] : m \in {k \in DOMAIN t : Counts(t[k]) /\ t[k].instrument = i}}
      BY <2>1 DEF Kept
    <2>4. \A x : x \in Kept(u, i, 0) <=> \E k \in DOMAIN u : Counts(u[k]) /\ u[k].instrument = i /\ x = u[k]
      BY <2>2, Zenon
    <2>5. \A x : x \in Kept(t, i, 0) <=> \E k \in DOMAIN t : Counts(t[k]) /\ t[k].instrument = i /\ x = t[k]
      BY <2>3, Zenon
    <2>6. \A x : x \in Only(v, i) <=> v.instrument = i /\ x = v
      BY DEF Only
    <2>7. ASSUME NEW x \in Kept(u, i, 0) PROVE x \in Kept(t, i, 0) \/ x \in Only(v, i)
      <3>1. PICK k \in DOMAIN u : Counts(u[k]) /\ u[k].instrument = i /\ x = u[k]
        BY <2>4, <2>7
      <3>2. CASE k \in DOMAIN t
        <4>1. u[k] = t[k]
          BY <1>8, <3>2
        <4>. QED
          BY <2>5, <3>1, <3>2, <4>1, Zenon
      <3>3. CASE k = l + 1
        <4>1. u[k] = v
          BY <1>3, <3>3
        <4>. QED
          BY <2>6, <3>1, <4>1, Zenon
      <3>. QED
        BY <1>7, <3>2, <3>3
    <2>8. ASSUME NEW x \in Kept(t, i, 0) PROVE x \in Kept(u, i, 0)
      <3>1. PICK k \in DOMAIN t : Counts(t[k]) /\ t[k].instrument = i /\ x = t[k]
        BY <2>5, <2>8
      <3>2. k \in DOMAIN u /\ u[k] = t[k]
        BY <1>8
      <3>. QED
        BY <2>4, <3>1, <3>2, Zenon
    <2>9. ASSUME NEW x \in Only(v, i) PROVE x \in Kept(u, i, 0)
      BY <1>3, <2>1, <2>4, <2>6, <2>9, Zenon
    <2>. QED
      BY <2>7, <2>8, <2>9, Zenon
  <1>. QED
    BY <1>6, <1>8, <1>9, <1>10, <1>11, Zenon

LEMMA Replaced ==
    ASSUME NEW t, Rows(t), Chains(t), NEW n \in DOMAIN t, Counts(t[n]),
           NEW v \in VersionRows, Counts(v), v.sequence = t[n].sequence,
           NEW u, u = Correction(t, n, v)
    PROVE  /\ Rows(u) /\ Chains(u) /\ DOMAIN t \subseteq DOMAIN u
           /\ \A m \in DOMAIN t : u[m].instrument = t[m].instrument
           /\ \A i : MovedFrom(t, i) => MovedFrom(u, i)
           /\ v.instrument # t[n].instrument => MovedFrom(u, t[n].instrument)
           /\ \A i : Kept(u, i, 0) = Kept(t, i, n) \cup Only(v, i)
  <1> DEFINE l == Len(t)
             w == [t[n] EXCEPT !.supersededBy = l + 1]
             c == [t EXCEPT ![n] = w]
  <1>1. l \in Nat /\ DOMAIN t = 1..l /\ t \in Seq(VersionRows) /\ t[n] \in VersionRows
    BY RowFacts DEF Rows
  <1>2. /\ w \in VersionRows /\ w.supersededBy = l + 1 /\ w.sequence = t[n].sequence
        /\ w.instrument = t[n].instrument
    <2>1. l + 1 \in Nat
      BY <1>1
    <2>. HIDE DEF l
    <2>. QED
      BY <1>1, <2>1, Zenon DEF VersionRows
  <1>3. ~w.withdrawn
    BY <1>1, Zenon DEF VersionRows, Counts
  <1>4. u = Append(c, v)
    BY Zenon DEF Correction
  <1>. HIDE DEF w
  <1>5. c \in Seq(VersionRows) /\ Len(c) = l /\ c[n] = w /\ \A m \in 1..l \ {n} : c[m] = t[m]
    BY <1>1, <1>2
  <1>. HIDE DEF c, l
  <1>6. u \in Seq(VersionRows) /\ Len(u) = l + 1 /\ DOMAIN u = 1..(l + 1)
    <2>1. Append(c, v) \in Seq(VersionRows) /\ Len(Append(c, v)) = Len(c) + 1
      BY <1>5
    <2>2. u \in Seq(VersionRows) /\ Len(u) = l + 1
      BY <1>4, <1>5, <2>1, Zenon
    <2>. QED
      BY <2>2
  <1>7. u[l + 1] = v /\ u[n] = w /\ \A m \in 1..l \ {n} : u[m] = t[m]
    BY <1>1, <1>4, <1>5
  <1>8. \A m \in 1..l : t[m].sequence \in 1..m /\ t[m].supersededBy \in 0..l
    BY <1>1 DEF Rows, l
  <1>9. v.supersededBy = 0 /\ ~v.withdrawn /\ t[n].supersededBy = 0 /\ ~t[n].withdrawn
    BY DEF Counts
  <1>10. \A m \in DOMAIN u : m \in DOMAIN t \ {n} \/ m = n \/ m = l + 1
    BY <1>1, <1>6
  <1>11. /\ \A m \in DOMAIN t : m \in DOMAIN u /\ m # l + 1
         /\ \A m \in DOMAIN t \ {n} : /\ u[m] = t[m] /\ t[m].supersededBy # l + 1
         /\ \A m \in DOMAIN t : t[m].supersededBy # 0 => t[m].supersededBy \in DOMAIN t
         /\ l + 1 > n /\ l + 1 \in DOMAIN u /\ l + 1 # 0
    BY <1>1, <1>6, <1>7, <1>8
  <1>12. \A m \in DOMAIN t : u[m].sequence = t[m].sequence /\ u[m].instrument = t[m].instrument
    BY <1>2, <1>7, <1>11
  <1>13. ~Counts(w)
    BY <1>2, <1>11 DEF Counts
  <1>14. Rows(u)
    <2>1. \A m \in 1..(l + 1) : m \in 1..l \/ m = l + 1
      BY <1>1
    <2>2. \A m \in 1..(l + 1) : u[m].sequence \in 1..m
      <3>1. v.sequence \in 1..(l + 1)
        BY <1>1, <1>8
      <3>. QED
        BY <1>1, <1>7, <1>8, <1>12, <2>1, <3>1
    <2>3. \A m \in 1..(l + 1) : u[m].supersededBy \in 0..(l + 1)
      BY <1>1, <1>2, <1>7, <1>8, <1>9, <2>1
    <2>. QED
      BY <1>6, <2>2, <2>3 DEF Rows
  <1>15. Chains(u)
    <2>1. \A m, k \in DOMAIN u : Counts(u[m]) /\ Counts(u[k]) /\ u[m].sequence = u[k].sequence => m = k
      <3>1. \A m \in DOMAIN t \ {n} : Counts(t[m]) => t[m].sequence # v.sequence
        BY DEF Chains
      <3>2. \A m \in DOMAIN u : Counts(u[m]) => m \in DOMAIN t \ {n} \/ m = l + 1
        BY <1>7, <1>10, <1>13
      <3>. QED
        BY <1>7, <1>11, <3>1, <3>2 DEF Chains
    <2>2. \A m \in DOMAIN u : u[m].supersededBy # 0 =>
             u[m].supersededBy > m /\ u[u[m].supersededBy].sequence = u[m].sequence
      <3>1. ASSUME NEW m \in DOMAIN t \ {n}, u[m].supersededBy # 0
            PROVE  u[m].supersededBy > m /\ u[u[m].supersededBy].sequence = u[m].sequence
        BY <1>11, <1>12, <3>1 DEF Chains
      <3>2. u[n].supersededBy > n /\ u[u[n].supersededBy].sequence = u[n].sequence
        BY <1>2, <1>7, <1>11
      <3>3. u[l + 1].supersededBy = 0
        BY <1>7, <1>9
      <3>. QED
        BY <1>10, <3>1, <3>2, <3>3
    <2>3. ASSUME NEW m \in DOMAIN u, u[m].withdrawn PROVE u[m].supersededBy = 0
      <3>1. CASE m \in DOMAIN t \ {n}
        <4>1. u[m] = t[m] /\ m \in DOMAIN t
          BY <1>11, <3>1
        <4>. QED
          BY <2>3, <4>1, Zenon DEF Chains
      <3>2. CASE m = n
        BY <1>3, <1>7, <2>3, <3>2, Zenon
      <3>3. CASE m = l + 1
        BY <1>7, <1>9, <3>3
      <3>. QED
        BY <1>10, <3>1, <3>2, <3>3
    <2>4. \A m, k \in DOMAIN u : u[m].supersededBy = u[k].supersededBy /\ u[m].supersededBy # 0 => m = k
      BY <1>2, <1>7, <1>9, <1>10, <1>11 DEF Chains
    <2>. QED
      BY <2>1, <2>2, <2>3, <2>4, Zenon DEF Chains
  <1>16. /\ \A i : MovedFrom(t, i) => MovedFrom(u, i)
         /\ v.instrument # t[n].instrument => MovedFrom(u, t[n].instrument)
    <2>1. CASE v.instrument # t[n].instrument
      BY <1>2, <1>7, <1>11, <2>1 DEF MovedFrom
    <2>2. ASSUME NEW i, MovedFrom(t, i) PROVE MovedFrom(u, i)
      <3>1. PICK m \in DOMAIN t : /\ t[m].supersededBy # 0 /\ t[m].instrument = i
                                  /\ t[t[m].supersededBy].instrument # i
        BY <2>2 DEF MovedFrom
      <3>2. m # n /\ t[m].supersededBy \in DOMAIN t
        BY <1>9, <1>11, <3>1
      <3>. QED
        BY <1>11, <1>12, <3>1, <3>2 DEF MovedFrom
    <2>. QED
      BY <2>1, <2>2
  <1>17. ASSUME NEW i PROVE Kept(u, i, 0) = Kept(t, i, n) \cup Only(v, i)
    <2>1. 0 \notin DOMAIN u
      BY <1>1, <1>6
    <2>2. Kept(u, i, 0) = {u[m] : m \in {k \in DOMAIN u : Counts(u[k]) /\ u[k].instrument = i}}
      BY <2>1 DEF Kept
    <2>3. \A x : x \in Kept(u, i, 0) <=> \E k \in DOMAIN u : Counts(u[k]) /\ u[k].instrument = i /\ x = u[k]
      BY <2>2, Zenon
    <2>4. \A x : x \in Kept(t, i, n) <=> \E k \in DOMAIN t \ {n} : Counts(t[k]) /\ t[k].instrument = i /\ x = t[k]
      BY Zenon DEF Kept
    <2>5. \A x : x \in Only(v, i) <=> v.instrument = i /\ x = v
      BY DEF Only
    <2>6. \A x : x \in Kept(u, i, 0) <=> x \in Kept(t, i, n) \/ x \in Only(v, i)
      <3>1. ASSUME NEW x \in Kept(u, i, 0) PROVE x \in Kept(t, i, n) \/ x \in Only(v, i)
        <4>1. PICK k \in DOMAIN u : Counts(u[k]) /\ u[k].instrument = i /\ x = u[k]
          BY <2>3, <3>1
        <4>2. k \in DOMAIN t \ {n} \/ k = l + 1
          BY <1>7, <1>10, <1>13, <4>1
        <4>3. CASE k \in DOMAIN t \ {n}
          BY <1>11, <2>4, <4>1, <4>3, Zenon
        <4>4. CASE k = l + 1
          BY <1>7, <2>5, <4>1, <4>4, Zenon
        <4>. QED
          BY <4>2, <4>3, <4>4
      <3>2. ASSUME NEW x \in Kept(t, i, n) PROVE x \in Kept(u, i, 0)
        <4>1. PICK k \in DOMAIN t \ {n} : Counts(t[k]) /\ t[k].instrument = i /\ x = t[k]
          BY <2>4, <3>2
        <4>2. k \in DOMAIN u /\ u[k] = t[k]
          BY <1>11
        <4>. QED
          BY <2>3, <4>1, <4>2, Zenon
      <3>3. ASSUME NEW x \in Only(v, i) PROVE x \in Kept(u, i, 0)
        BY <1>7, <1>11, <2>3, <2>5, <3>3, Zenon
      <3>. QED
        BY <3>1, <3>2, <3>3, Zenon
    <2>. QED
      BY <2>6
  <1>18. \A m \in DOMAIN t : m \in DOMAIN u
    BY <1>11
  <1>. QED
    BY <1>12, <1>14, <1>15, <1>16, <1>17, <1>18, Zenon

LEMMA TakenBack ==
    ASSUME NEW t, Rows(t), Chains(t), NEW n \in DOMAIN t, Counts(t[n]),
           NEW u, u = Withdrawal(t, n)
    PROVE  /\ Rows(u) /\ Chains(u) /\ DOMAIN t = DOMAIN u
           /\ \A m \in DOMAIN t : u[m].instrument = t[m].instrument
           /\ \A i : MovedFrom(t, i) => MovedFrom(u, i)
           /\ \A i : Kept(u, i, 0) = Kept(t, i, n)
  <1> DEFINE w == [t[n] EXCEPT !.withdrawn = TRUE]
  <1>1. DOMAIN t = 1..Len(t) /\ Len(t) \in Nat /\ t \in Seq(VersionRows) /\ t[n] \in VersionRows
    BY RowFacts DEF Rows
  <1>2. w \in VersionRows /\ w.withdrawn
    BY <1>1, Zenon DEF VersionRows
  <1>3. w.supersededBy = t[n].supersededBy /\ w.sequence = t[n].sequence /\ w.instrument = t[n].instrument
    BY <1>1 DEF VersionRows
  <1>4. u = [t EXCEPT ![n] = w]
    BY Zenon DEF Withdrawal
  <1>5. ~Counts(w) /\ t[n].supersededBy = 0
    BY <1>2, Zenon DEF Counts
  <1>. HIDE DEF w
  <1>6. u \in Seq(VersionRows) /\ Len(u) = Len(t) /\ DOMAIN u = DOMAIN t
    <2>1. [t EXCEPT ![n] = w] \in Seq(VersionRows) /\ Len([t EXCEPT ![n] = w]) = Len(t)
      BY <1>1, <1>2
    <2>2. u \in Seq(VersionRows) /\ Len(u) = Len(t)
      BY <1>4, <2>1, Zenon
    <2>. QED
      BY <1>1, <2>2
  <1>7. u[n] = w /\ \A m \in DOMAIN t \ {n} : u[m] = t[m]
    BY <1>1, <1>4
  <1>8. \A m \in DOMAIN t : /\ u[m].supersededBy = t[m].supersededBy
                            /\ u[m].sequence = t[m].sequence /\ u[m].instrument = t[m].instrument
    BY <1>3, <1>7
  <1>9. \A m \in DOMAIN t : t[m].supersededBy # 0 => t[m].supersededBy \in DOMAIN t
    BY <1>1 DEF Rows
  <1>10. Rows(u)
    BY <1>6, <1>8 DEF Rows
  <1>11. Chains(u)
    <2>1. \A m, k \in DOMAIN u : Counts(u[m]) /\ Counts(u[k]) /\ u[m].sequence = u[k].sequence => m = k
      <3>1. \A m \in DOMAIN u : Counts(u[m]) => Counts(t[m])
        BY <1>5, <1>6, <1>7, Zenon
      <3>. QED
        BY <1>6, <1>8, <3>1 DEF Chains
    <2>2. \A m \in DOMAIN u : u[m].supersededBy # 0 =>
             u[m].supersededBy > m /\ u[u[m].supersededBy].sequence = u[m].sequence
      BY <1>6, <1>8, <1>9 DEF Chains
    <2>3. ASSUME NEW m \in DOMAIN u, u[m].withdrawn PROVE u[m].supersededBy = 0
      <3>1. CASE m \in DOMAIN t \ {n}
        <4>1. u[m] = t[m] /\ m \in DOMAIN t
          BY <1>7, <3>1
        <4>. QED
          BY <2>3, <4>1, Zenon DEF Chains
      <3>2. CASE m = n
        BY <1>5, <1>8, <3>2
      <3>. QED
        BY <1>6, <3>1, <3>2
    <2>4. \A m, k \in DOMAIN u : u[m].supersededBy = u[k].supersededBy /\ u[m].supersededBy # 0 => m = k
      BY <1>6, <1>8 DEF Chains
    <2>. QED
      BY <2>1, <2>2, <2>3, <2>4, Zenon DEF Chains
  <1>12. \A i : MovedFrom(t, i) => MovedFrom(u, i)
    BY <1>6, <1>8, <1>9 DEF MovedFrom
  <1>13. ASSUME NEW i PROVE Kept(u, i, 0) = Kept(t, i, n)
    <2>1. 0 \notin DOMAIN u
      BY <1>1, <1>6
    <2>2. Kept(u, i, 0) = {u[m] : m \in {k \in DOMAIN u : Counts(u[k]) /\ u[k].instrument = i}}
      BY <2>1 DEF Kept
    <2>3. \A x : x \in Kept(u, i, 0) <=> \E k \in DOMAIN u : Counts(u[k]) /\ u[k].instrument = i /\ x = u[k]
      BY <2>2, Zenon
    <2>4. \A x : x \in Kept(t, i, n) <=> \E k \in DOMAIN t \ {n} : Counts(t[k]) /\ t[k].instrument = i /\ x = t[k]
      BY Zenon DEF Kept
    <2>5. \A k \in DOMAIN u : Counts(u[k]) => k \in DOMAIN t \ {n}
      BY <1>5, <1>6, <1>7
    <2>6. ASSUME NEW x \in Kept(u, i, 0) PROVE x \in Kept(t, i, n)
      <3>1. PICK k \in DOMAIN u : Counts(u[k]) /\ u[k].instrument = i /\ x = u[k]
        BY <2>3, <2>6
      <3>2. k \in DOMAIN t \ {n} /\ u[k] = t[k]
        BY <1>7, <2>5, <3>1
      <3>. QED
        BY <2>4, <3>1, <3>2, Zenon
    <2>7. ASSUME NEW x \in Kept(t, i, n) PROVE x \in Kept(u, i, 0)
      <3>1. PICK k \in DOMAIN t \ {n} : Counts(t[k]) /\ t[k].instrument = i /\ x = t[k]
        BY <2>4, <2>7
      <3>2. k \in DOMAIN u /\ u[k] = t[k]
        BY <1>6, <1>7
      <3>. QED
        BY <2>3, <3>1, <3>2, Zenon
    <2>. QED
      BY <2>6, <2>7, Zenon
  <1>. QED
    BY <1>6, <1>8, <1>10, <1>11, <1>12, <1>13, Zenon

-----------------------------------------------------------------------------
(***************************************************************************)
(* What is held after a write is what the request was judged by.           *)
(***************************************************************************)
LEMMA EntriesAreRecords ==
    ASSUME NEW e \in Entries
    PROVE  e # <<>> /\ Signed(e) \in Int
  <1>1. e \in [instrument: Instruments, direction: {"buy", "sell"}, quantity: Nat \ {0},
               price: Nat \ {0}, costs: Nat, date: Nat]
    BY PortfolioAssumption
  <1>2. "instrument" \in DOMAIN e
    BY <1>1
  <1>3. DOMAIN <<>> = {}
    OBVIOUS
  <1>4. e # <<>>
    BY <1>2, <1>3
  <1>5. Signed(e) \in Int
    BY <1>1 DEF Signed
  <1>. QED
    BY <1>4, <1>5

LEMMA Exchange ==
    ASSUME NEW t, Rows(t), NEW i, NEW n, NEW e \in Entries, NEW v, Signed(v) = Signed(e),
           v \notin Kept(t, i, n)
    PROVE  HeldAfter(Kept(t, i, n) \cup {v}) = HeldAfter(Kept(t, i, n) \cup Added(e))
  <1> DEFINE a == [instrument |-> e.instrument, direction |-> e.direction,
                   quantity |-> e.quantity, sequence |-> 0]
             K == Kept(t, i, n)
  <1>1. Added(e) = {a}
    BY EntriesAreRecords DEF Added
  <1>2. Signed(a) = Signed(e) /\ Signed(e) \in Int /\ a.sequence = 0
    BY EntriesAreRecords DEF Signed
  <1>3. IsFiniteSet(K) /\ \A x \in K : Signed(x) \in Int /\ x.sequence # 0
    BY RowFacts
  <1>. HIDE DEF a, K
  <1>4. a \notin K
    BY <1>2, <1>3
  <1>5. HeldAfter(K \cup {v}) = HeldAfter(K \cup {a})
    BY <1>2, <1>3, <1>4, HeldWith DEF K
  <1>. QED
    BY <1>1, <1>5 DEF K

LEMMA KeptOther ==
    ASSUME NEW t, Rows(t), NEW n \in DOMAIN t, NEW i, t[n].instrument # i
    PROVE  Kept(t, i, n) = Kept(t, i, 0)
  <1>1. {k \in DOMAIN t \ {n} : Counts(t[k]) /\ t[k].instrument = i}
            = {k \in DOMAIN t \ {0} : Counts(t[k]) /\ t[k].instrument = i}
    <2>1. 0 \notin DOMAIN t
      BY RowFacts
    <2>. QED
      BY <2>1
  <1>. QED
    BY <1>1, Zenon DEF Kept

LEMMA WholeInserted ==
    ASSUME Rows(trades), Whole(trades), NEW e \in Entries,
           HeldAfter(Kept(trades, e.instrument, 0) \cup Added(e)) >= 0,
           NEW u, \A i : MovedFrom(trades, i) => MovedFrom(u, i),
           \A i : Kept(u, i, 0) = Kept(trades, i, 0) \cup Only(Version(e, 0), i)
    PROVE  Whole(u)
  <1> SUFFICES ASSUME NEW i \in Instruments, ~MovedFrom(u, i) PROVE HeldAfter(Kept(u, i, 0)) >= 0
    BY DEF Whole
  <1> DEFINE v == Version(e, 0)
  <1>1. /\ v.instrument = e.instrument /\ Signed(v) = Signed(e)
        /\ \A m \in DOMAIN trades : trades[m].sequence # v.sequence
    BY VersionIs
  <1>. HIDE DEF v
  <1>2. CASE i = e.instrument
    <2>1. v \notin Kept(trades, i, 0)
      BY <1>1 DEF Kept
    <2>2. HeldAfter(Kept(trades, i, 0) \cup {v}) = HeldAfter(Kept(trades, i, 0) \cup Added(e))
      BY <1>1, <2>1, Exchange
    <2>3. Kept(u, i, 0) = Kept(trades, i, 0) \cup {v}
      BY <1>1, <1>2 DEF Only, v
    <2>. QED
      BY <1>2, <2>2, <2>3
  <1>3. CASE i # e.instrument
    <2>1. Kept(u, i, 0) = Kept(trades, i, 0)
      BY <1>1, <1>3 DEF Only, v
    <2>. QED
      BY <2>1 DEF Whole
  <1>. QED
    BY <1>2, <1>3

LEMMA WholeReplaced ==
    ASSUME Rows(trades), Chains(trades), Whole(trades), NEW e \in Entries,
           NEW n \in DOMAIN trades, Counts(trades[n]),
           HeldAfter(Kept(trades, e.instrument, n) \cup Added(e)) >= 0,
           NEW u, \A i : MovedFrom(trades, i) => MovedFrom(u, i),
           e.instrument # trades[n].instrument => MovedFrom(u, trades[n].instrument),
           \A i : Kept(u, i, 0) = Kept(trades, i, n) \cup Only(Version(e, n), i)
    PROVE  Whole(u)
  <1> SUFFICES ASSUME NEW i \in Instruments, ~MovedFrom(u, i) PROVE HeldAfter(Kept(u, i, 0)) >= 0
    BY DEF Whole
  <1> DEFINE v == Version(e, n)
  <1>1. /\ v.instrument = e.instrument /\ Signed(v) = Signed(e)
        /\ v.sequence = trades[n].sequence
    <2>1. n # 0
      BY RowFacts
    <2>. QED
      BY <2>1, VersionIs
  <1>. HIDE DEF v
  <1>2. CASE i = e.instrument
    <2>1. v \notin Kept(trades, i, n)
      BY <1>1 DEF Kept, Chains
    <2>2. HeldAfter(Kept(trades, i, n) \cup {v}) = HeldAfter(Kept(trades, i, n) \cup Added(e))
      BY <1>1, <2>1, Exchange
    <2>3. Kept(u, i, 0) = Kept(trades, i, n) \cup {v}
      BY <1>1, <1>2 DEF Only, v
    <2>. QED
      BY <1>2, <2>2, <2>3
  <1>3. CASE i # e.instrument
    <2>1. Kept(u, i, 0) = Kept(trades, i, n)
      BY <1>1, <1>3 DEF Only, v
    <2>2. trades[n].instrument # i
      BY <1>3
    <2>3. Kept(trades, i, n) = Kept(trades, i, 0)
      BY <2>2, KeptOther
    <2>. QED
      BY <2>1, <2>3 DEF Whole
  <1>. QED
    BY <1>2, <1>3

LEMMA WholeTakenBack ==
    ASSUME Rows(trades), Whole(trades), NEW n \in DOMAIN trades,
           HeldAfter(Kept(trades, trades[n].instrument, n) \cup Added(<<>>)) >= 0,
           NEW u, \A i : MovedFrom(trades, i) => MovedFrom(u, i),
           \A i : Kept(u, i, 0) = Kept(trades, i, n)
    PROVE  Whole(u)
  <1> SUFFICES ASSUME NEW i \in Instruments, ~MovedFrom(u, i) PROVE HeldAfter(Kept(u, i, 0)) >= 0
    BY DEF Whole
  <1>1. CASE i = trades[n].instrument
    <2>1. Added(<<>>) = {}
      BY DEF Added
    <2>. QED
      BY <1>1, <2>1
  <1>2. CASE i # trades[n].instrument
    BY <1>2, KeptOther DEF Whole
  <1>. QED
    BY <1>1, <1>2

-----------------------------------------------------------------------------
(***************************************************************************)
(* The invariant, action by action.                                        *)
(***************************************************************************)
LEMMA InvInit == Init => IInv
  <1> SUFFICES ASSUME Init PROVE IInv
    OBVIOUS
  <1>1. trades = <<>> /\ request = [r \in Requests |-> Idle]
    BY DEF Init
  <1>2. DOMAIN trades = {} /\ trades \in Seq(VersionRows)
    BY <1>1
  <1>3. Rows(trades) /\ Chains(trades)
    BY <1>2 DEF Rows, Chains
  <1>4. \A i : Kept(trades, i, 0) = {}
    BY <1>2 DEF Kept
  <1>5. HeldAfter({}) = 0
    BY HeldFacts, FS_EmptySet
  <1>6. Whole(trades)
    BY <1>4, <1>5 DEF Whole
  <1>7. RequestsHold
    BY <1>1 DEF RequestsHold, Doing, Carries, Idle
  <1>8. AloneHolds
    BY <1>1, <1>6 DEF AloneHolds, Busy, Idle
  <1>. QED
    BY <1>3, <1>7, <1>8 DEF IInv

\* A step of a request that writes no trade.
LEMMA RequestStep ==
    ASSUME IInv, NEW r \in Requests, NEW q \in Doing, Carries(q, trades),
           request' = [request EXCEPT ![r] = q], trades' = trades,
           ~overlapped' => ~overlapped,
           ~overlapped' /\ Busy(q) => /\ Passes(q, trades)
                                      /\ \A p \in Requests \ {r} : ~Busy(request[p])
    PROVE  IInv'
  <1>1. request \in [Requests -> Doing] /\ \A p \in Requests : Carries(request[p], trades)
    BY DEF IInv, RequestsHold
  <1>2. request' \in [Requests -> Doing] /\ request'[r] = q /\ \A p \in Requests \ {r} : request'[p] = request[p]
    BY <1>1
  <1>3. RequestsHold'
    BY <1>1, <1>2 DEF RequestsHold
  <1>4. AloneHolds'
    <2> SUFFICES ASSUME ~overlapped'
                 PROVE  /\ \A p, o \in Requests : Busy(request'[p]) /\ Busy(request'[o]) => p = o
                        /\ \A p \in Requests : Busy(request'[p]) => Passes(request'[p], trades')
                        /\ Whole(trades')
      BY DEF AloneHolds
    <2>1. /\ \A p, o \in Requests : Busy(request[p]) /\ Busy(request[o]) => p = o
          /\ \A p \in Requests : Busy(request[p]) => Passes(request[p], trades)
          /\ Whole(trades)
      BY DEF IInv, AloneHolds
    <2>. QED
      BY <1>2, <2>1
  <1>. QED
    BY <1>3, <1>4 DEF IInv

\* A step of a request that writes one.
LEMMA TradeStep ==
    ASSUME IInv, NEW r \in Requests, Busy(request[r]),
           request' = [request EXCEPT ![r] = Idle], overlapped' = overlapped,
           Rows(trades'), Chains(trades'), DOMAIN trades \subseteq DOMAIN trades',
           ~overlapped => Whole(trades')
    PROVE  IInv'
  <1>1. request \in [Requests -> Doing] /\ \A p \in Requests : Carries(request[p], trades)
    BY DEF IInv, RequestsHold
  <1>2. Idle \in Doing /\ Carries(Idle, trades') /\ ~Busy(Idle)
    BY DEF Idle, Doing, Carries, Busy
  <1>3. request' \in [Requests -> Doing] /\ request'[r] = Idle /\ \A p \in Requests \ {r} : request'[p] = request[p]
    BY <1>1, <1>2
  <1>4. \A p \in Requests : Carries(request'[p], trades')
    BY <1>1, <1>2, <1>3 DEF Carries
  <1>5. RequestsHold'
    BY <1>3, <1>4 DEF RequestsHold
  <1>6. ~overlapped => \A p \in Requests : ~Busy(request'[p])
    BY <1>2, <1>3 DEF IInv, AloneHolds
  <1>7. AloneHolds'
    BY <1>6 DEF AloneHolds
  <1>. QED
    BY <1>5, <1>7 DEF IInv

LEMMA StartStep ==
    ASSUME IInv, NEW r \in Requests, NEW op \in {"record", "correct", "withdraw"},
           NEW e \in Entries \cup {<<>>}, NEW n \in {0} \cup DOMAIN trades,
           op # "withdraw" => e \in Entries, op = "withdraw" => e = <<>>,
           op = "record" => n = 0, op # "record" => n # 0,
           ~RefusesForPosition(IF op = "withdraw" THEN trades[n].instrument ELSE e.instrument, n, e),
           Start(r, op, e, n)
    PROVE  IInv'
  <1> DEFINE q == [phase |-> IF op = "withdraw" THEN "ready" ELSE "judged",
                   op |-> op, entry |-> e, target |-> n]
             i == IF op = "withdraw" THEN trades[n].instrument ELSE e.instrument
  <1>1. /\ request' = [request EXCEPT ![r] = q] /\ trades' = trades
        /\ overlapped' = (overlapped \/ \E p \in Requests \ {r} : request[p].phase # "idle")
    BY DEF Start
  <1>2. DOMAIN trades \subseteq Nat
    BY RowFacts DEF IInv
  <1>3. q \in Doing /\ Carries(q, trades)
    BY <1>2 DEF Doing, Carries
  <1>4. Subject(q, trades) = i /\ q.target = n /\ q.entry = e
    BY DEF Subject
  <1>. HIDE DEF q, i
  <1>5. ~(HeldAfter(Kept(trades, i, n) \cup Added(e)) < 0)
    BY RefusesIs DEF i
  <1>6. HeldAfter(Kept(trades, i, n) \cup Added(e)) \in Int
    <2>1. IsFiniteSet(Kept(trades, i, n)) /\ \A v \in Kept(trades, i, n) : Signed(v) \in Int
      BY RowFacts DEF IInv
    <2>2. IsFiniteSet(Added(e)) /\ \A v \in Added(e) : Signed(v) \in Int
      <3>1. CASE e = <<>>
        <4>1. Added(e) = {}
          BY <3>1 DEF Added
        <4>. QED
          BY <4>1, FS_EmptySet
      <3>2. CASE e \in Entries
        <4> DEFINE a == [instrument |-> e.instrument, direction |-> e.direction,
                         quantity |-> e.quantity, sequence |-> 0]
        <4>1. Added(e) = {a}
          BY <3>2, EntriesAreRecords DEF Added
        <4>2. Signed(a) \in Int
          BY <3>2, EntriesAreRecords DEF Signed
        <4>. QED
          BY <4>1, <4>2, FS_Singleton
      <3>. QED
        BY <3>1, <3>2
    <2>3. IsFiniteSet(Kept(trades, i, n) \cup Added(e))
      BY <2>1, <2>2, FS_Union
    <2>. QED
      BY <2>1, <2>2, <2>3, HeldFacts
  <1>7. Passes(q, trades)
    BY <1>4, <1>5, <1>6 DEF Passes
  <1>8. ~overlapped' => ~overlapped /\ \A p \in Requests \ {r} : ~Busy(request[p])
    BY <1>1 DEF Busy
  <1>. QED
    BY <1>1, <1>3, <1>7, <1>8, RequestStep

\* The next phase of a request that goes on: what it asserts stays.
LEMMA PhaseStep ==
    ASSUME IInv, NEW r \in Requests, Busy(request[r]), NEW ph \in {"creating", "ready"},
           request' = [request EXCEPT ![r].phase = ph], trades' = trades, overlapped' = overlapped
    PROVE  IInv'
  <1> DEFINE q == [request[r] EXCEPT !.phase = ph]
  <1>1. request[r] \in Doing /\ Carries(request[r], trades)
    BY DEF IInv, RequestsHold
  <1>2. request' = [request EXCEPT ![r] = q]
    BY Zenon
  <1>3. /\ q \in Doing /\ q.op = request[r].op /\ q.entry = request[r].entry
        /\ q.target = request[r].target /\ q.phase = ph
    BY <1>1 DEF Doing
  <1>. HIDE DEF q
  <1>4. Carries(q, trades)
    BY <1>1, <1>3 DEF Carries, Busy
  <1>5. Passes(request[r], trades) <=> Passes(q, trades)
    BY <1>3 DEF Passes, Subject
  <1>6. ~overlapped => Passes(request[r], trades) /\ \A p \in Requests \ {r} : ~Busy(request[p])
    BY DEF IInv, AloneHolds
  <1>. QED
    BY <1>2, <1>3, <1>4, <1>5, <1>6, RequestStep

LEMMA IdleStep ==
    ASSUME IInv, NEW r \in Requests, request' = [request EXCEPT ![r] = Idle],
           trades' = trades, overlapped' = overlapped
    PROVE  IInv'
  <1>1. Idle \in Doing /\ Carries(Idle, trades) /\ ~Busy(Idle)
    BY DEF Idle, Doing, Carries, Busy
  <1>. QED
    BY <1>1, RequestStep

LEMMA OtherStep ==
    ASSUME IInv, trades' = trades, request' = request, overlapped' = overlapped
    PROVE  IInv'
  BY DEF IInv, RequestsHold, AloneHolds

LEMMA WriteTradeStep ==
    ASSUME IInv, NEW r \in Requests, WriteTrade(r)
    PROVE  IInv'
  <1> DEFINE q == request[r]
             n == q.target
             e == q.entry
  <1>1. /\ q.phase = "ready" /\ request' = [request EXCEPT ![r] = Idle] /\ overlapped' = overlapped
        /\ Busy(q)
    BY DEF WriteTrade, Busy
  <1>2. q \in Doing /\ Carries(q, trades)
    BY DEF IInv, RequestsHold
  <1>3. Rows(trades) /\ Chains(trades) /\ 0 \notin DOMAIN trades
    BY RowFacts DEF IInv
  <1>4. ~overlapped => Passes(q, trades) /\ Whole(trades)
    BY <1>1 DEF IInv, AloneHolds
  <1>5. q.op \in {"record", "correct", "withdraw"}
    BY <1>1, <1>2 DEF Doing, Carries
  <1>6. CASE n # 0 /\ ~IsCurrent(n)
    <2>1. trades' = trades
      BY <1>6 DEF WriteTrade
    <2>. QED
      BY <1>1, <2>1, IdleStep
  <1>7. CASE q.op = "record"
    <2>1. e \in Entries /\ n = 0
      BY <1>2, <1>7 DEF Carries
    <2>2. trades' = Insertion(trades, Version(e, 0))
      BY <1>7, <2>1 DEF WriteTrade, Insertion
    <2>3. /\ Rows(trades') /\ Chains(trades') /\ DOMAIN trades \subseteq DOMAIN trades'
          /\ \A i : MovedFrom(trades, i) => MovedFrom(trades', i)
          /\ \A i : Kept(trades', i, 0) = Kept(trades, i, 0) \cup Only(Version(e, 0), i)
      <3> DEFINE v == Version(e, 0)
      <3>1. /\ v \in VersionRows /\ Counts(v) /\ v.sequence \in 1..(Len(trades) + 1)
            /\ \A m \in DOMAIN trades : trades[m].sequence # v.sequence
        BY <1>3, <2>1, VersionIs
      <3>. HIDE DEF v, n, e, q
      <3>2. trades' = Insertion(trades, v)
        BY <2>2 DEF v
      <3>3. /\ Rows(trades') /\ Chains(trades') /\ DOMAIN trades \subseteq DOMAIN trades'
            /\ \A i : MovedFrom(trades, i) => MovedFrom(trades', i)
            /\ \A i : Kept(trades', i, 0) = Kept(trades, i, 0) \cup Only(v, i)
        BY <1>3, <3>1, <3>2, Inserted
      <3>. QED
        BY <3>3 DEF v
    <2>4. ASSUME ~overlapped PROVE Whole(trades')
      <3>1. Whole(trades) /\ HeldAfter(Kept(trades, e.instrument, 0) \cup Added(e)) >= 0
        BY <1>4, <1>7, <2>1, <2>3, <2>4 DEF Passes, Subject
      <3>. QED
        BY <1>3, <2>1, <2>3, <3>1, WholeInserted
    <2>. QED
      BY <1>1, <2>3, <2>4, TradeStep
  <1>8. CASE q.op = "correct" /\ IsCurrent(n)
    <2>1. e \in Entries /\ n \in DOMAIN trades /\ Counts(trades[n])
      BY <1>2, <1>8 DEF Carries, IsCurrent, Counts
    <2>2. trades' = Correction(trades, n, Version(e, n))
      BY <1>8 DEF WriteTrade, Correction
    <2>3. /\ Rows(trades') /\ Chains(trades') /\ DOMAIN trades \subseteq DOMAIN trades'
          /\ \A i : MovedFrom(trades, i) => MovedFrom(trades', i)
          /\ e.instrument # trades[n].instrument => MovedFrom(trades', trades[n].instrument)
          /\ \A i : Kept(trades', i, 0) = Kept(trades, i, n) \cup Only(Version(e, n), i)
      <3>1. /\ Version(e, n) \in VersionRows /\ Counts(Version(e, n))
            /\ Version(e, n).sequence = trades[n].sequence /\ Version(e, n).instrument = e.instrument
        BY <1>3, <2>1, VersionIs
      <3> DEFINE v == Version(e, n)
      <3>. HIDE DEF v, n, e, q
      <3>2. trades' = Correction(trades, n, v)
        BY <2>2 DEF v
      <3>3. v \in VersionRows /\ Counts(v) /\ v.sequence = trades[n].sequence /\ v.instrument = e.instrument
        BY <3>1 DEF v
      <3>4. /\ Rows(trades') /\ Chains(trades') /\ DOMAIN trades \subseteq DOMAIN trades'
            /\ \A i : MovedFrom(trades, i) => MovedFrom(trades', i)
            /\ v.instrument # trades[n].instrument => MovedFrom(trades', trades[n].instrument)
            /\ \A i : Kept(trades', i, 0) = Kept(trades, i, n) \cup Only(v, i)
        BY <1>3, <2>1, <3>2, <3>3, Replaced
      <3>. QED
        BY <3>3, <3>4 DEF v
    <2>4. ASSUME ~overlapped PROVE Whole(trades')
      <3>1. /\ Whole(trades)
            /\ HeldAfter(Kept(trades, e.instrument, n) \cup Added(e)) >= 0
        BY <1>4, <1>8, <2>3, <2>4 DEF Passes, Subject
      <3>. QED
        BY <1>3, <2>1, <2>3, <3>1, WholeReplaced
    <2>. QED
      BY <1>1, <2>3, <2>4, TradeStep
  <1>9. CASE q.op = "withdraw" /\ IsCurrent(n)
    <2>1. e = <<>> /\ n \in DOMAIN trades /\ Counts(trades[n])
      BY <1>2, <1>9 DEF Carries, IsCurrent, Counts
    <2>2. trades' = Withdrawal(trades, n)
      BY <1>9 DEF WriteTrade, Withdrawal
    <2>3. /\ Rows(trades') /\ Chains(trades') /\ DOMAIN trades \subseteq DOMAIN trades'
          /\ \A i : MovedFrom(trades, i) => MovedFrom(trades', i)
          /\ \A i : Kept(trades', i, 0) = Kept(trades, i, n)
      <3>. HIDE DEF n, e, q
      <3>. QED
        BY <1>3, <2>1, <2>2, TakenBack
    <2>4. ASSUME ~overlapped PROVE Whole(trades')
      <3>1. Whole(trades) /\ HeldAfter(Kept(trades, trades[n].instrument, n) \cup Added(<<>>)) >= 0
        BY <1>4, <1>9, <2>1, <2>3, <2>4 DEF Passes, Subject
      <3>. QED
        BY <1>3, <2>1, <2>3, <3>1, WholeTakenBack
    <2>. QED
      BY <1>1, <2>3, <2>4, TradeStep
  <1>10. q.op = "record" => n = 0
    BY <1>2 DEF Carries
  <1>11. q.op # "record" => n # 0
    BY <1>2, <1>3, <1>5 DEF Carries
  <1>. QED
    BY <1>5, <1>6, <1>7, <1>8, <1>9, <1>11

LEMMA InvNext == IInv /\ [Next]_vars => IInv'
  <1> SUFFICES ASSUME IInv, [Next]_vars PROVE IInv'
    OBVIOUS
  <1>1. 0 \notin DOMAIN trades
    BY RowFacts DEF IInv
  <1>2. ASSUME NEW r \in Requests, NEW e \in Entries, Record(r, e) PROVE IInv'
    <2>1. ~RefusesForPosition(e.instrument, 0, e) /\ Start(r, "record", e, 0)
      BY <1>2 DEF Record
    <2>. QED
      BY <1>2, <2>1, StartStep
  <1>3. ASSUME NEW r \in Requests, NEW e \in Entries, NEW n \in DOMAIN trades, Correct(r, n, e) PROVE IInv'
    <2>1. ~RefusesForPosition(e.instrument, n, e) /\ Start(r, "correct", e, n)
      BY <1>3 DEF Correct
    <2>. QED
      BY <1>1, <1>3, <2>1, StartStep
  <1>4. ASSUME NEW r \in Requests, NEW n \in DOMAIN trades, Withdraw(r, n) PROVE IInv'
    <2>1. ~RefusesForPosition(trades[n].instrument, n, <<>>) /\ Start(r, "withdraw", <<>>, n)
      BY <1>4 DEF Withdraw
    <2>. QED
      BY <1>1, <1>4, <2>1, StartStep
  <1>5. ASSUME NEW r \in Requests, FindPortfolio(r) PROVE IInv'
    BY <1>5, PhaseStep DEF FindPortfolio, Busy
  <1>6. ASSUME NEW r \in Requests, EnsurePortfolio(r) PROVE IInv'
    BY <1>6, PhaseStep DEF EnsurePortfolio, Busy
  <1>7. ASSUME NEW r \in Requests, WriteTrade(r) PROVE IInv'
    BY <1>7, WriteTradeStep
  <1>8. ASSUME NEW r \in Requests, Fail(r) PROVE IInv'
    BY <1>8, IdleStep DEF Fail
  <1>9. ASSUME NEW c \in Currencies, SetCurrency(c) PROVE IInv'
    BY <1>9, OtherStep DEF SetCurrency
  <1>10. ASSUME NEW s \in Statements, StateLimit(s) PROVE IInv'
    BY <1>10, OtherStep DEF StateLimit
  <1>11. ASSUME NEW k \in Kinds, RemoveLimit(k) PROVE IInv'
    BY <1>11, OtherStep DEF RemoveLimit
  <1>12. CASE UNCHANGED vars
    BY <1>12, OtherStep DEF vars
  <1>. QED
    BY <1>2, <1>3, <1>4, <1>5, <1>6, <1>7, <1>8, <1>9, <1>10, <1>11, <1>12 DEF Next

LEMMA InvProperties ==
    ASSUME IInv
    PROVE  VersionsFormChains /\ PositionsStayWhole
  <1>1. VersionsFormChains
    <2>1. \A m, n \in Current : trades[m].sequence = trades[n].sequence => m = n
      BY DEF IInv, Chains, Counts, Current, IsCurrent
    <2>2. ASSUME NEW n \in DOMAIN trades
          PROVE  /\ trades[n].supersededBy # 0 =>
                       /\ trades[n].supersededBy > n
                       /\ trades[trades[n].supersededBy].sequence = trades[n].sequence
                 /\ trades[n].withdrawn => trades[n].supersededBy = 0
      BY Zenon DEF IInv, Chains
    <2>3. \A m, n \in DOMAIN trades :
             trades[m].supersededBy = trades[n].supersededBy /\ trades[m].supersededBy # 0 => m = n
      BY DEF IInv, Chains
    <2>. QED
      BY <2>1, <2>2, <2>3, Zenon DEF VersionsFormChains
  <1>2. PositionsStayWhole
    <2>1. \A i : MovedFrom(trades, i) <=> i \in Left
      BY DEF MovedFrom, Left
    <2>2. \A i : Of(i, CurrentTrades) = Kept(trades, i, 0)
      BY HoldingIs DEF IInv
    <2>. QED
      BY <2>1, <2>2 DEF IInv, AloneHolds, Whole, PositionsStayWhole
  <1>. QED
    BY <1>1, <1>2

-----------------------------------------------------------------------------
(***************************************************************************)
(* The decimal arithmetic a valuation and a share of it are rounded by.    *)
(***************************************************************************)
\* A rounded quotient is a number.
LEMMA RoundHalfEvenType ==
    ASSUME NEW n \in Nat, NEW d \in Nat \ {0}
    PROVE  RoundHalfEven(n, d) \in Nat
  <1>1. n \div d \in Nat /\ n % d \in 0..(d - 1)
    OBVIOUS
  <1>. QED
    BY <1>1 DEF RoundHalfEven

LEMMA DivideHalfEvenType ==
    ASSUME NEW n \in Int, NEW d \in Int \ {0}
    PROVE  DivideHalfEven(n, d) \in Int
  <1>1. Magnitude(n) \in Nat /\ Magnitude(d) \in Nat \ {0}
    BY DEF Magnitude
  <1>2. RoundHalfEven(Magnitude(n), Magnitude(d)) \in Nat
    BY <1>1, RoundHalfEvenType
  <1>. QED
    BY <1>2 DEF DivideHalfEven

\* Products and quotients are numbers.
LEMMA MulType == \A a, b \in Int : Mul(a, b) \in Int
  <1>1. SUFFICES ASSUME NEW a \in Int, NEW b \in Int PROVE Mul(a, b) \in Int
    OBVIOUS
  <1>2. a * b \in Int /\ Scale \in Int \ {0}
    BY ScaleAssumption
  <1>. QED
    BY <1>2, DivideHalfEvenType DEF Mul

LEMMA DivType == \A a \in Int, b \in Int \ {0} : Div(a, b) \in Int
  <1>1. SUFFICES ASSUME NEW a \in Int, NEW b \in Int \ {0} PROVE Div(a, b) \in Int
    OBVIOUS
  <1>2. a * Scale \in Int
    BY ScaleAssumption
  <1>. QED
    BY <1>2, DivideHalfEvenType DEF Div

\* RoundHalfEven returns the integer nearest to n / d, of two the even one.
LEMMA RoundHalfEvenNearest ==
    ASSUME NEW n \in Nat, NEW d \in Nat \ {0}
    PROVE  LET q == RoundHalfEven(n, d)
               error == 2 * Magnitude(n - q * d)
           IN  error < d \/ (error = d /\ q % 2 = 0)
  <1> DEFINE q == n \div d
             r == n % d
  <1>1. q \in Nat /\ r \in Nat /\ r < d
    OBVIOUS
  <1>2. n = q * d + r
    OBVIOUS
  <1>3. (q + 1) * d = q * d + d /\ q * d \in Int
    BY <1>1
  <1>4. n - q * d = r /\ n - (q + 1) * d = r - d
    BY <1>1, <1>2, <1>3
  <1>5. q % 2 = 0 \/ (q % 2 = 1 /\ (q + 1) % 2 = 0)
    BY <1>1
  <1>6. CASE 2 * r > d \/ (2 * r = d /\ q % 2 = 1)
    <2>1. RoundHalfEven(n, d) = q + 1
      BY <1>6 DEF RoundHalfEven
    <2>. HIDE DEF q, r
    <2>. QED
      BY <1>1, <1>4, <1>5, <1>6, <2>1 DEF Magnitude
  <1>7. CASE ~(2 * r > d \/ (2 * r = d /\ q % 2 = 1))
    <2>1. RoundHalfEven(n, d) = q
      BY <1>7 DEF RoundHalfEven
    <2>. HIDE DEF q, r
    <2>. QED
      BY <1>1, <1>4, <1>5, <1>7, <2>1 DEF Magnitude
  <1>. QED
    BY <1>6, <1>7

\* A quotient is within half a unit of the last place.
LEMMA DivNearest ==
    ASSUME NEW n \in Int, NEW d \in Nat \ {0}
    PROVE  LET q == Div(n, d)
           IN  /\ q \in Int
               /\ 2 * (q * d) - d <= 2 * (n * Scale)
               /\ 2 * (n * Scale) <= 2 * (q * d) + d
  <1> DEFINE m == n * Scale
             a == Magnitude(m)
             p == RoundHalfEven(a, d)
             q == Div(n, d)
  <1>1. m \in Int
    BY ScaleAssumption
  <1>2. Magnitude(d) = d
    BY DEF Magnitude
  <1>3. a \in Nat
    <2>. HIDE DEF m
    <2>. QED
      BY <1>1 DEF Magnitude
  <1>4. p \in Nat
    <2>. HIDE DEF a
    <2>. QED
      BY <1>3, RoundHalfEvenType
  <1>5. 2 * Magnitude(a - p * d) <= d
    <2>. HIDE DEF a
    <2>1. LET q2 == RoundHalfEven(a, d)
              error == 2 * Magnitude(a - q2 * d)
          IN  error < d \/ (error = d /\ q2 % 2 = 0)
      BY <1>3, RoundHalfEvenNearest
    <2>. HIDE DEF p
    <2>2. p * d \in Int
      BY <1>4
    <2>3. Magnitude(a - p * d) \in Nat
      BY <1>3, <2>2 DEF Magnitude
    <2>. QED
      BY <2>1, <2>3 DEF p
  <1>6. q = IF m < 0 THEN -p ELSE p
    <2>1. q = DivideHalfEven(m, d)
      BY DEF Div
    <2>2. ~(d < 0)
      OBVIOUS
    <2>. HIDE DEF m, q
    <2>. QED
      BY <1>1, <1>2, <2>1, <2>2 DEF DivideHalfEven
  <1>7. p * d \in Int /\ (-p) * d = -(p * d)
    <2>. HIDE DEF p
    <2>. QED
      BY <1>4
  <1> DEFINE e == p * d
  <1>8. 2 * e - d <= 2 * a /\ 2 * a <= 2 * e + d
    <2>1. e \in Int /\ 2 * Magnitude(a - e) <= d
      BY <1>5, <1>7
    <2>. HIDE DEF e, a
    <2>. QED
      BY <1>3, <2>1 DEF Magnitude
  <1>9. q \in Int
    <2>. HIDE DEF p, q, m
    <2>. QED
      BY <1>4, <1>6
  <1>10. 2 * (q * d) - d <= 2 * m /\ 2 * m <= 2 * (q * d) + d
    <2>1. a = IF m < 0 THEN -m ELSE m
      BY DEF Magnitude
    <2>2. q * d = IF m < 0 THEN -e ELSE e
      <3>. HIDE DEF p, q, m
      <3>. QED
        BY <1>6, <1>7
    <2>3. e \in Int
      BY <1>7
    <2> DEFINE x == q * d
    <2>4. x = IF m < 0 THEN -e ELSE e
      BY <2>2
    <2>. HIDE DEF a, e, q, m, p, x
    <2>5. 2 * x - d <= 2 * m /\ 2 * m <= 2 * x + d
      BY <1>1, <1>8, <2>1, <2>3, <2>4
    <2>. QED
      BY <2>5 DEF x
  <1>. HIDE DEF q
  <1>. QED
    BY <1>9, <1>10 DEF q

\* So a quotient is above a whole number only if the fraction is, and not above it
\* only if the fraction is below the next.
LEMMA DivAgainst ==
    ASSUME NEW n \in Int, NEW d \in Nat \ {0}, NEW t \in Nat
    PROVE  /\ Div(n, d) > t => Scale * n > t * d
           /\ ~(Div(n, d) > t) => Scale * n < (t + 1) * d
  <1> DEFINE q == Div(n, d)
             m == n * Scale
             x == q * d
             y == t * d
  <1>1. q \in Int /\ 2 * x - d <= 2 * m /\ 2 * m <= 2 * x + d
    BY DivNearest
  <1>2. m \in Int /\ y \in Int /\ m = Scale * n /\ (t + 1) * d = y + d
    BY ScaleAssumption
  <1>. HIDE DEF q, m
  <1>3. x \in Int
    BY <1>1
  <1>4. q >= t + 1 => x >= y + d
    <2> SUFFICES ASSUME q >= t + 1 PROVE x >= y + d
      OBVIOUS
    <2>1. PICK k \in Nat : q = t + 1 + k
      <3>1. q - t - 1 \in Nat /\ q = t + 1 + (q - t - 1)
        BY <1>1
      <3>. QED
        BY <3>1
    <2>2. x = y + d + k * d /\ k * d \in Nat
      BY <2>1
    <2>. QED
      BY <1>2, <2>2
  <1>5. q <= t => x <= y
    <2> SUFFICES ASSUME q <= t PROVE x <= y
      OBVIOUS
    <2>1. PICK k \in Nat : t = q + k
      <3>1. t - q \in Nat /\ t = q + (t - q)
        BY <1>1
      <3>. QED
        BY <3>1
    <2>2. y = x + k * d /\ k * d \in Nat
      BY <1>1, <2>1
    <2>. QED
      BY <1>3, <2>2
  <1>. HIDE DEF x, y
  <1>6. q > t => m > y
    BY <1>1, <1>2, <1>3, <1>4
  <1>7. ~(q > t) => m < y + d
    BY <1>1, <1>2, <1>3, <1>5
  <1>. QED
    BY <1>2, <1>6, <1>7 DEF q, y

-----------------------------------------------------------------------------
(***************************************************************************)
(* Folds.  A fold over a finite set T takes a member of each subset with   *)
(* next and a step with it; step and next are functions here.              *)
(***************************************************************************)
Foldable(T, A, base, step, next) ==
    /\ IsFiniteSet(T)
    /\ base \in A
    /\ step \in [T -> [A -> A]]
    /\ \A s \in SUBSET T : s # {} => next[s] \in s

FoldOf(h, T, A, base, step, next) ==
    /\ h \in [SUBSET T -> A]
    /\ \A s \in SUBSET T : h[s] = IF s = {} THEN base ELSE step[next[s]][h[s \ {next[s]}]]

\* A fold's recursion has a solution.
LEMMA FoldExists ==
    \A T, A, base, step, next :
        Foldable(T, A, base, step, next) => \E h : FoldOf(h, T, A, base, step, next)
  <1> SUFFICES ASSUME NEW T, NEW A, NEW base, NEW step, NEW next, Foldable(T, A, base, step, next)
               PROVE  \E h : FoldOf(h, T, A, base, step, next)
    OBVIOUS
  <1>0. /\ IsFiniteSet(T) /\ base \in A /\ step \in [T -> [A -> A]]
        /\ \A s \in SUBSET T : s # {} => next[s] \in s
    BY DEF Foldable
  <1>. USE <1>0
  <1> DEFINE Up(g, s) == IF s = {} THEN base ELSE step[next[s]][g[s \ {next[s]}]]
             Upto(g, n) == \A s \in SUBSET T : Cardinality(s) <= n => g[s] = Up(g, s)
             Maps == [SUBSET T -> A]
             reached == {n \in Nat : \E g \in Maps : Upto(g, n)}
  <1>1. \A s \in SUBSET T : IsFiniteSet(s) /\ Cardinality(s) \in Nat
    BY FS_Subset, FS_CardinalityType
  <1>2. \A g \in Maps, s \in SUBSET T : Up(g, s) \in A
    <2> SUFFICES ASSUME NEW g \in Maps, NEW s \in SUBSET T, s # {} PROVE Up(g, s) \in A
      OBVIOUS
    <2>1. next[s] \in T /\ s \ {next[s]} \in SUBSET T
      OBVIOUS
    <2>2. g[s \ {next[s]}] \in A /\ step[next[s]] \in [A -> A]
      BY <2>1
    <2>. QED
      BY <2>2
  <1>3. ASSUME NEW n \in Nat, NEW g \in Maps, Upto(g, n)
        PROVE  \E h \in Maps : Upto(h, n + 1)
    <2> DEFINE h == [s \in SUBSET T |-> Up(g, s)]
    <2>1. h \in Maps
      BY <1>2
    <2>2. ASSUME NEW s \in SUBSET T, Cardinality(s) <= n + 1 PROVE h[s] = Up(h, s)
      <3>1. CASE s = {}
        BY <3>1
      <3>2. CASE s # {}
        <4> DEFINE u == s \ {next[s]}
        <4>1. u \in SUBSET T /\ Cardinality(u) = Cardinality(s) - 1
          BY <1>1, <3>2, FS_RemoveElement
        <4>2. Cardinality(u) <= n
          BY <1>1, <2>2, <4>1
        <4>3. h[u] = g[u]
          BY <1>3, <4>1, <4>2
        <4>. QED
          BY <3>2, <4>3
      <3>. QED
        BY <3>1, <3>2
    <2>. QED
      BY <2>1, <2>2
  <1>4. 0 \in reached
    <2> DEFINE h == [s \in SUBSET T |-> base]
    <2>1. h \in Maps
      OBVIOUS
    <2>2. ASSUME NEW s \in SUBSET T, Cardinality(s) <= 0 PROVE h[s] = Up(h, s)
      <3>1. s = {}
        BY <1>1, <2>2, FS_EmptySet
      <3>. QED
        BY <3>1
    <2>. QED
      BY <2>1, <2>2
  <1>5. ASSUME NEW n \in Nat, n \in reached PROVE n + 1 \in reached
    <2>1. PICK g \in Maps : Upto(g, n)
      BY <1>5
    <2>2. \E h \in Maps : Upto(h, n + 1)
      <3>. HIDE DEF Maps, Upto
      <3>. QED
        BY <1>3, <2>1
    <2>3. n + 1 \in Nat
      OBVIOUS
    <2>. HIDE DEF Maps, Upto
    <2>. QED
      BY <2>2, <2>3
  <1>6. Cardinality(T) \in Nat /\ \A s \in SUBSET T : Cardinality(s) <= Cardinality(T)
    BY FS_Subset, FS_CardinalityType
  <1>8. reached = Nat
    <2>. HIDE DEF reached
    <2> SUFFICES ASSUME Nat \ reached # {} PROVE FALSE
      BY DEF reached
    <2>1. PICK n \in Nat \ reached : \A m \in Nat \ reached : n <= m
      BY SmallestSize
    <2>2. n # 0 /\ n - 1 \in Nat /\ (n - 1) + 1 = n
      BY <1>4, <2>1
    <2>3. n - 1 \in reached
      BY <2>1, <2>2
    <2>. QED
      BY <1>5, <2>1, <2>2, <2>3
  <1>7. PICK h \in Maps : Upto(h, Cardinality(T))
    BY <1>6, <1>8
  <1>9. \A s \in SUBSET T : h[s] = Up(h, s)
    BY <1>6, <1>7
  <1>. QED
    BY <1>7, <1>9 DEF FoldOf

\* A function that steps as the fold does, as far as its values are of the type.
Steps(it, T, A, base, step, next) ==
    /\ it[{}] = base
    /\ \A s \in SUBSET T : s # {} /\ it[s \ {next[s]}] \in A
           => it[s] = step[next[s]][it[s \ {next[s]}]]

\* What a fold returns is of the type its steps keep.
LEMMA FoldTyped ==
    \A T, A, base, step, next, it :
        Foldable(T, A, base, step, next) /\ Steps(it, T, A, base, step, next) => it[T] \in A
  <1> SUFFICES ASSUME NEW T, NEW A, NEW base, NEW step, NEW next, NEW it,
                      Foldable(T, A, base, step, next), Steps(it, T, A, base, step, next)
               PROVE  it[T] \in A
    OBVIOUS
  <1> DEFINE P == {s \in SUBSET T : it[s] \in A}
  <1>0. /\ IsFiniteSet(T) /\ base \in A /\ step \in [T -> [A -> A]]
        /\ \A s \in SUBSET T : s # {} => next[s] \in s
        /\ it[{}] = base
        /\ \A s \in SUBSET T : s # {} /\ it[s \ {next[s]}] \in A
               => it[s] = step[next[s]][it[s \ {next[s]}]]
    BY DEF Foldable, Steps
  <1>1. ASSUME NEW s \in SUBSET T, \A u \in SUBSET s : u # s => u \in P
        PROVE  s \in P
    <2>1. CASE s = {}
      BY <1>0, <2>1
    <2>2. CASE s # {}
      <3>1. next[s] \in T /\ s \ {next[s]} \in P
        BY <1>0, <1>1, <2>2
      <3>2. it[s] = step[next[s]][it[s \ {next[s]}]] /\ step[next[s]] \in [A -> A]
        BY <1>0, <2>2, <3>1
      <3>. QED
        BY <3>1, <3>2
    <2>. QED
      BY <2>1, <2>2
  <1>2. \A s \in SUBSET T : s \in P
    <2>. HIDE DEF P
    <2>. QED
      BY <1>0, <1>1, SubsetInduction
  <1>. QED
    BY <1>2

\* A fold over a sequence comes from the last element down.
LEMMA SequenceFoldable ==
    ASSUME NEW n \in Nat, NEW A, NEW base \in A, NEW step \in [1..n -> [A -> A]]
    PROVE  /\ \A s \in SUBSET (1..n) : s # {} => Max(s) \in s
           /\ Foldable(1..n, A, base, step, [s \in SUBSET (1..n) |-> Max(s)])
  <1>1. ASSUME NEW s \in SUBSET (1..n), s # {} PROVE Max(s) \in s
    <2> DEFINE D == {n - x : x \in s}
    <2>1. D \in SUBSET Nat /\ D # {}
      <3>1. \A x \in s : n - x \in Nat
        OBVIOUS
      <3>. QED
        BY <1>1, <3>1
    <2>2. PICK d \in D : \A e \in D : d <= e
      BY <2>1, SmallestSize
    <2>3. PICK m \in s : d = n - m
      BY <2>2
    <2>4. ASSUME NEW x \in s PROVE m >= x
      <3>1. n - x \in D /\ d <= n - x
        BY <2>2
      <3>. QED
        BY <2>3, <3>1
    <2>5. \E y \in s : \A x \in s : y >= x
      BY <2>3, <2>4
    <2>. QED
      BY <2>5 DEF Max
  <1>2. IsFiniteSet(1..n)
    BY FS_Interval
  <1>. QED
    BY <1>1, <1>2 DEF Foldable

-----------------------------------------------------------------------------
(***************************************************************************)
(* The walk.  A lot holds something; a sale in progress owes a number of   *)
(* shares.                                                                 *)
(***************************************************************************)
Lots == [quantity: Nat \ {0}, cost: Int, date: Nat]

Sales == [open: Seq(Lots), remaining: Nat, consumed: Int]

\* One lot of a sale keeps the types.
LEMMA ConsumeType ==
    ASSUME NEW sale \in Sales, NEW lot \in Lots
    PROVE  Consume(sale, lot) \in Sales
  <1> DEFINE take == Smaller(sale.remaining, lot.quantity)
             taken == Taken(lot, take)
             left == [quantity |-> lot.quantity - take, cost |-> lot.cost - taken, date |-> lot.date]
  <1>1. /\ sale.open \in Seq(Lots) /\ sale.remaining \in Nat /\ sale.consumed \in Int
        /\ lot.quantity \in Nat \ {0} /\ lot.cost \in Int /\ lot.date \in Nat
    BY DEF Sales, Lots
  <1>2. take \in Nat /\ take <= sale.remaining /\ take <= lot.quantity
    BY <1>1 DEF Smaller
  <1>3. taken \in Int
    <2> DEFINE cost == lot.cost
    <2>0. cost \in Int /\ take \in Int /\ lot.quantity \in Int \ {0}
      BY <1>1, <1>2
    <2>1. Mul(cost, take) \in Int
      <3>. HIDE DEF take, cost
      <3>. QED
        BY <2>0, MulType
    <2>2. Div(Mul(lot.cost, take), lot.quantity) \in Int
      <3> DEFINE part == Mul(cost, take)
                 whole == lot.quantity
      <3>1. part \in Int /\ whole \in Int \ {0}
        BY <2>0, <2>1
      <3>2. Div(part, whole) \in Int
        <4>. HIDE DEF part, whole
        <4>. QED
          BY <3>1, DivType
      <3>. QED
        BY <3>2
    <2>. QED
      BY <1>1, <2>2 DEF Taken
  <1>4. Consume(sale, lot) =
          IF take = 0 THEN [sale EXCEPT !.open = Append(sale.open, lot)]
          ELSE [open |-> IF take = lot.quantity THEN sale.open ELSE Append(sale.open, left),
                remaining |-> sale.remaining - take, consumed |-> sale.consumed + taken]
    BY DEF Consume
  <1>5. take # lot.quantity => left \in Lots
    BY <1>1, <1>2, <1>3 DEF Lots
  <1>6. [sale EXCEPT !.open = Append(sale.open, lot)] \in Sales
    BY <1>1 DEF Sales
  <1>. HIDE DEF take, taken, left
  <1>7. [open |-> IF take = lot.quantity THEN sale.open ELSE Append(sale.open, left),
         remaining |-> sale.remaining - take, consumed |-> sale.consumed + taken] \in Sales
    BY <1>1, <1>2, <1>3, <1>5 DEF Sales
  <1>. QED
    BY <1>4, <1>6, <1>7

\* What FoldLeft folds a sale with, as a recursion over the positions of the lots.
LEMMA ConsumeIsChosen ==
    ASSUME NEW lots, NEW base
    PROVE  FoldLeft(Consume, base, lots) =
             (CHOOSE it : it = [s \in SUBSET DOMAIN lots |->
                 IF s = {} THEN base ELSE Consume(it[s \ {Max(s)}], lots[Max(s)])])[DOMAIN lots]
  BY Zenon DEF FoldLeft, MapThenFoldSet

\* it is what is left of a sale after the lots at each set of positions.
Consuming(it, base, lots) ==
    \A s \in SUBSET DOMAIN lots :
        it[s] = IF s = {} THEN base ELSE Consume(it[s \ {Max(s)}], lots[Max(s)])

\* A sale leaves lots and consumed a cost.
LEMMA ConsumptionType ==
    ASSUME NEW lots \in Seq(Lots), NEW base \in Sales
    PROVE  /\ FoldLeft(Consume, base, lots) \in Sales
           /\ \E it : Consuming(it, base, lots) /\ FoldLeft(Consume, base, lots) = it[DOMAIN lots]
  <1> DEFINE n == Len(lots)
             Rec(f) == f = [s \in SUBSET DOMAIN lots |->
                              IF s = {} THEN base ELSE Consume(f[s \ {Max(s)}], lots[Max(s)])]
             step == [k \in 1..n |-> [a \in Sales |-> Consume(a, lots[k])]]
             next == [s \in SUBSET (1..n) |-> Max(s)]
             it == CHOOSE f : Rec(f)
  <1>1. n \in Nat /\ DOMAIN lots = 1..n /\ \A k \in 1..n : lots[k] \in Lots
    OBVIOUS
  <1>2. step \in [1..n -> [Sales -> Sales]]
    BY <1>1, ConsumeType
  <1>3. /\ \A s \in SUBSET (1..n) : s # {} => Max(s) \in s
        /\ Foldable(1..n, Sales, base, step, next)
    <2>. HIDE DEF n, step
    <2>. QED
      BY <1>1, <1>2, SequenceFoldable
  <1>4. PICK h : FoldOf(h, 1..n, Sales, base, step, next)
    <2>. HIDE DEF n, step, next
    <2>. QED
      BY <1>3, FoldExists, Zenon
  <1>5. ASSUME NEW g, NEW s \in SUBSET (1..n), s # {}, g[s \ {Max(s)}] \in Sales
        PROVE  step[next[s]][g[s \ {next[s]}]] = Consume(g[s \ {Max(s)}], lots[Max(s)])
    BY <1>3, <1>5
  <1>6. Rec(h)
    <2>1. ASSUME NEW s \in SUBSET (1..n)
          PROVE  h[s] = IF s = {} THEN base ELSE Consume(h[s \ {Max(s)}], lots[Max(s)])
      <3>1. h[s] = IF s = {} THEN base ELSE step[next[s]][h[s \ {next[s]}]]
        BY <1>4, Zenon DEF FoldOf
      <3>2. h[s \ {Max(s)}] \in Sales
        BY <1>4 DEF FoldOf
      <3>. HIDE DEF step, next
      <3>. QED
        BY <1>5, <3>1, <3>2
    <2>2. h \in [SUBSET (1..n) -> Sales]
      BY <1>4 DEF FoldOf
    <2>. HIDE DEF n
    <2>. QED
      BY <1>1, <2>1, <2>2
  <1>7. Rec(it)
    BY <1>6
  <1>. HIDE DEF it
  <1>8. it[{}] = base /\ \A s \in SUBSET (1..n) : s # {} => it[s] = Consume(it[s \ {Max(s)}], lots[Max(s)])
    BY <1>1, <1>7
  <1>9. it[1..n] \in Sales
    <2>. HIDE DEF n, step, next
    <2>1. ASSUME NEW s \in SUBSET (1..n), s # {}, it[s \ {next[s]}] \in Sales
          PROVE  it[s] = step[next[s]][it[s \ {next[s]}]]
      <3>1. next[s] = Max(s)
        BY DEF next
      <3>. QED
        BY <1>5, <1>8, <2>1, <3>1
    <2>2. Steps(it, 1..n, Sales, base, step, next)
      BY <1>8, <2>1 DEF Steps
    <2>. QED
      BY <1>3, <2>2, FoldTyped, Zenon
  <1>10. Consuming(it, base, lots)
    BY <1>1, <1>8 DEF Consuming
  <1>11. FoldLeft(Consume, base, lots) = it[DOMAIN lots]
    BY ConsumeIsChosen, Zenon DEF it
  <1>12. FoldLeft(Consume, base, lots) \in Sales
    BY <1>1, <1>9, <1>11, Zenon
  <1>. QED
    BY <1>10, <1>11, <1>12

\* A finite set of numbers has a largest.
LEMMA LargestExists ==
    ASSUME NEW S, IsFiniteSet(S), S # {}, S \in SUBSET Int
    PROVE  \E m \in S : \A x \in S : x <= m
  <1> DEFINE P == {s \in SUBSET S : s = {} \/ \E m \in s : \A x \in s : x <= m}
  <1>1. ASSUME NEW s \in SUBSET S, \A u \in SUBSET s : u # s => u \in P
        PROVE  s \in P
    <2>1. CASE s = {}
      BY <2>1
    <2>2. CASE s # {}
      <3>1. PICK y \in s : TRUE
        BY <2>2
      <3>2. s \ {y} \in P
        BY <1>1, <3>1
      <3>3. CASE s \ {y} = {}
        <4>1. \A x \in s : x <= y
          BY <3>1, <3>3
        <4>. QED
          BY <3>1, <4>1
      <3>4. CASE s \ {y} # {}
        <4>1. PICK m \in s \ {y} : \A x \in s \ {y} : x <= m
          BY <3>2, <3>4
        <4>2. CASE m <= y
          <5>1. \A x \in s : x <= y
            BY <3>1, <4>1, <4>2
          <5>. QED
            BY <3>1, <5>1
        <4>3. CASE ~(m <= y)
          <5>1. \A x \in s : x <= m
            BY <3>1, <4>1, <4>3
          <5>. QED
            BY <4>1, <5>1
        <4>. QED
          BY <4>2, <4>3
      <3>. QED
        BY <3>3, <3>4
    <2>. QED
      BY <2>1, <2>2
  <1>2. \A s \in SUBSET S : s \in P
    <2>. HIDE DEF P
    <2>. QED
      BY <1>1, SubsetInduction
  <1>. QED
    BY <1>2

\* As many values as arguments, at most.
LEMMA ImageIsFinite ==
    ASSUME NEW S, IsFiniteSet(S), NEW f
    PROVE  IsFiniteSet({f[x] : x \in S})
  <1> DEFINE T == {f[x] : x \in S}
             g == [x \in S |-> f[x]]
  <1>1. g \in Surjection(S, T)
    BY DEF Surjection
  <1>. HIDE DEF T, g
  <1>2. IsFiniteSet(T)
    BY <1>1, FS_Surjection
  <1>. QED
    BY <1>2 DEF T

\* A walk comes to one of the trades last.
LEMMA LastWalkedIn ==
    ASSUME NEW s, IsFiniteSet(s), s # {}, \A t \in s : t.date \in Nat /\ t.sequence \in Nat
    PROVE  /\ LastWalked(s) \in s
           /\ \A u \in s : LET last == LastWalked(s)
                           IN  u.date < last.date \/ (u.date = last.date /\ u.sequence <= last.sequence)
  <1> DEFINE dates == {t.date : t \in s}
  <1>1. PICK d \in dates : \A e \in dates : e <= d
    <2> DEFINE f == [t \in s |-> t.date]
    <2>1. dates = {f[t] : t \in s}
      OBVIOUS
    <2>2. IsFiniteSet(dates)
      <3>. HIDE DEF f, dates
      <3>. QED
        BY <2>1, ImageIsFinite
    <2>3. dates # {} /\ dates \in SUBSET Int
      OBVIOUS
    <2>. QED
      <3>. HIDE DEF dates
      <3>1. \E d \in dates : \A e \in dates : e <= d
        BY <2>2, <2>3, LargestExists
      <3>. QED
        BY <3>1
  <1> DEFINE latest == {t \in s : t.date = d}
             numbers == {t.sequence : t \in latest}
  <1>2. PICK q \in numbers : \A p \in numbers : p <= q
    <2>1. IsFiniteSet(latest)
      BY FS_Subset
    <2> DEFINE f == [t \in latest |-> t.sequence]
    <2>4. numbers = {f[t] : t \in latest}
      OBVIOUS
    <2>2. IsFiniteSet(numbers)
      <3>. HIDE DEF f, numbers, latest
      <3>. QED
        BY <2>1, <2>4, ImageIsFinite
    <2>3. numbers # {} /\ numbers \in SUBSET Int
      BY <1>1
    <2>. QED
      <3>. HIDE DEF numbers
      <3>1. \E q \in numbers : \A p \in numbers : p <= q
        BY <2>2, <2>3, LargestExists
      <3>. QED
        BY <3>1
  <1>3. PICK t \in s : t.date = d /\ t.sequence = q
    BY <1>2
  <1>4. \A u \in s : u.date < t.date \/ (u.date = t.date /\ u.sequence <= t.sequence)
    <2> SUFFICES ASSUME NEW u \in s
                 PROVE  u.date < t.date \/ (u.date = t.date /\ u.sequence <= t.sequence)
      OBVIOUS
    <2>1. u.date \in dates /\ u.date <= d /\ u.date \in Nat /\ d \in Nat
      BY <1>1
    <2>2. u.date = d => u.sequence <= q
      BY <1>2
    <2>. QED
      BY <1>3, <2>1, <2>2
  <1>5. \E v \in s : \A u \in s : u.date < v.date \/ (u.date = v.date /\ u.sequence <= v.sequence)
    BY <1>4
  <1>6. /\ LastWalked(s) \in s
        /\ \A u \in s : u.date < LastWalked(s).date
               \/ (u.date = LastWalked(s).date /\ u.sequence <= LastWalked(s).sequence)
    BY <1>5, Zenon DEF LastWalked
  <1>. QED
    BY <1>6

\* InWalkOrder as a recursion over subsets of the trades.
LEMMA OrderIsChosen ==
    ASSUME NEW S
    PROVE  InWalkOrder(S) =
             (CHOOSE it : it = [s \in SUBSET S |->
                 IF s = {} THEN <<>> ELSE Append(it[s \ {LastWalked(s)}], LastWalked(s))])[S]
  BY Zenon DEF InWalkOrder, MapThenFoldSet

\* it is each subset of the trades in the order of the walk.
Ordering(it, S) ==
    \A s \in SUBSET S : it[s] = IF s = {} THEN <<>> ELSE Append(it[s \ {LastWalked(s)}], LastWalked(s))

\* The walk comes to the trades of the set and to nothing else.
LEMMA OrderType ==
    ASSUME NEW S, IsFiniteSet(S), \A t \in S : t.date \in Nat /\ t.sequence \in Nat
    PROVE  /\ InWalkOrder(S) \in Seq(S)
           /\ \E it : Ordering(it, S) /\ InWalkOrder(S) = it[S]
  <1> DEFINE Rec(f) == f = [s \in SUBSET S |->
                              IF s = {} THEN <<>> ELSE Append(f[s \ {LastWalked(s)}], LastWalked(s))]
             A == Seq(S)
             base == <<>>
             step == [t \in S |-> [a \in A |-> Append(a, t)]]
             next == [s \in SUBSET S |-> LastWalked(s)]
             it == CHOOSE f : Rec(f)
  <1>2. step \in [S -> [A -> A]] /\ base \in A
    OBVIOUS
  <1>3. \A s \in SUBSET S : s # {} => LastWalked(s) \in s
    BY FS_Subset, LastWalkedIn
  <1>4. Foldable(S, A, base, step, next)
    <2>. HIDE DEF A, base, step
    <2>. QED
      BY <1>2, <1>3 DEF Foldable
  <1>5. PICK h : FoldOf(h, S, A, base, step, next)
    <2>. HIDE DEF A, base, step, next
    <2>. QED
      BY <1>4, FoldExists, Zenon
  <1>6. ASSUME NEW g, NEW s \in SUBSET S, s # {}, g[s \ {LastWalked(s)}] \in A
        PROVE  step[next[s]][g[s \ {next[s]}]] = Append(g[s \ {LastWalked(s)}], LastWalked(s))
    BY <1>3, <1>6
  <1>7. Rec(h)
    <2>1. ASSUME NEW s \in SUBSET S
          PROVE  h[s] = IF s = {} THEN <<>> ELSE Append(h[s \ {LastWalked(s)}], LastWalked(s))
      <3>1. h[s] = IF s = {} THEN base ELSE step[next[s]][h[s \ {next[s]}]]
        BY <1>5, Zenon DEF FoldOf
      <3>2. h[s \ {LastWalked(s)}] \in A
        BY <1>5 DEF FoldOf
      <3>. HIDE DEF step, next, A
      <3>. QED
        BY <1>6, <3>1, <3>2
    <2>2. h \in [SUBSET S -> A]
      BY <1>5 DEF FoldOf
    <2>. QED
      BY <2>1, <2>2
  <1>8. Rec(it)
    BY <1>7
  <1>. HIDE DEF it
  <1>9. it[{}] = base /\ \A s \in SUBSET S : s # {} => it[s] = Append(it[s \ {LastWalked(s)}], LastWalked(s))
    BY <1>8
  <1>10. it[S] \in A
    <2>. HIDE DEF A, step, next, base
    <2>1. ASSUME NEW s \in SUBSET S, s # {}, it[s \ {next[s]}] \in A
          PROVE  it[s] = step[next[s]][it[s \ {next[s]}]]
      <3>1. next[s] = LastWalked(s)
        BY DEF next
      <3>. QED
        BY <1>6, <1>9, <2>1, <3>1
    <2>2. Steps(it, S, A, base, step, next)
      BY <1>9, <2>1 DEF Steps
    <2>. QED
      BY <1>4, <2>2, FoldTyped, Zenon
  <1>11. Ordering(it, S)
    BY <1>9 DEF Ordering
  <1>12. InWalkOrder(S) = it[S]
    BY OrderIsChosen, Zenon DEF it
  <1>13. InWalkOrder(S) \in Seq(S)
    BY <1>10, <1>12, Zenon
  <1>. QED
    BY <1>11, <1>12, <1>13

\* SumSeq as a recursion over positions.
LEMMA SumIsChosen ==
    ASSUME NEW values
    PROVE  SumSeq(values) =
             (CHOOSE it : it = [s \in SUBSET DOMAIN values |->
                 IF s = {} THEN 0 ELSE it[s \ {Max(s)}] + values[Max(s)]])[DOMAIN values]
  BY Zenon DEF SumSeq, FoldLeft, MapThenFoldSet

\* it is the sum of the values at each set of positions.
Adding(it, values) ==
    \A s \in SUBSET DOMAIN values :
        it[s] = IF s = {} THEN 0 ELSE it[s \ {Max(s)}] + values[Max(s)]

\* A sum of numbers is a number.
LEMMA SumType ==
    ASSUME NEW values \in Seq(Int)
    PROVE  /\ SumSeq(values) \in Int
           /\ \E it : Adding(it, values) /\ SumSeq(values) = it[DOMAIN values]
  <1> DEFINE n == Len(values)
             Rec(f) == f = [s \in SUBSET DOMAIN values |->
                              IF s = {} THEN 0 ELSE f[s \ {Max(s)}] + values[Max(s)]]
             step == [k \in 1..n |-> [a \in Int |-> a + values[k]]]
             next == [s \in SUBSET (1..n) |-> Max(s)]
             it == CHOOSE f : Rec(f)
  <1>1. n \in Nat /\ DOMAIN values = 1..n /\ \A k \in 1..n : values[k] \in Int
    OBVIOUS
  <1>2. step \in [1..n -> [Int -> Int]]
    BY <1>1
  <1>3. /\ \A s \in SUBSET (1..n) : s # {} => Max(s) \in s
        /\ Foldable(1..n, Int, 0, step, next)
    <2>1. 0 \in Int
      OBVIOUS
    <2>. HIDE DEF n, step
    <2>. QED
      BY <1>1, <1>2, <2>1, SequenceFoldable, Zenon
  <1>4. PICK h : FoldOf(h, 1..n, Int, 0, step, next)
    <2>. HIDE DEF n, step, next
    <2>. QED
      BY <1>3, FoldExists, Zenon
  <1>5. ASSUME NEW g, NEW s \in SUBSET (1..n), s # {}, g[s \ {Max(s)}] \in Int
        PROVE  step[next[s]][g[s \ {next[s]}]] = g[s \ {Max(s)}] + values[Max(s)]
    BY <1>3, <1>5
  <1>6. Rec(h)
    <2>1. ASSUME NEW s \in SUBSET (1..n)
          PROVE  h[s] = IF s = {} THEN 0 ELSE h[s \ {Max(s)}] + values[Max(s)]
      <3>1. h[s] = IF s = {} THEN 0 ELSE step[next[s]][h[s \ {next[s]}]]
        BY <1>4, Zenon DEF FoldOf
      <3>2. h[s \ {Max(s)}] \in Int
        BY <1>4 DEF FoldOf
      <3>. HIDE DEF step, next
      <3>. QED
        BY <1>5, <3>1, <3>2
    <2>2. h \in [SUBSET (1..n) -> Int]
      BY <1>4 DEF FoldOf
    <2>. HIDE DEF n
    <2>. QED
      BY <1>1, <2>1, <2>2
  <1>7. Rec(it)
    BY <1>6
  <1>. HIDE DEF it
  <1>8. it[{}] = 0 /\ \A s \in SUBSET (1..n) : s # {} => it[s] = it[s \ {Max(s)}] + values[Max(s)]
    BY <1>1, <1>7
  <1>9. it[1..n] \in Int
    <2>. HIDE DEF n, step, next
    <2>1. ASSUME NEW s \in SUBSET (1..n), s # {}, it[s \ {next[s]}] \in Int
          PROVE  it[s] = step[next[s]][it[s \ {next[s]}]]
      <3>1. next[s] = Max(s)
        BY DEF next
      <3>. QED
        BY <1>5, <1>8, <2>1, <3>1
    <2>2. Steps(it, 1..n, Int, 0, step, next)
      BY <1>8, <2>1 DEF Steps
    <2>. QED
      BY <1>3, <2>2, FoldTyped, Zenon
  <1>10. Adding(it, values)
    BY <1>1, <1>8 DEF Adding
  <1>11. SumSeq(values) = it[DOMAIN values]
    BY SumIsChosen, Zenon DEF it
  <1>12. SumSeq(values) \in Int
    BY <1>1, <1>9, <1>11, Zenon
  <1>. QED
    BY <1>10, <1>11, <1>12

\* What the walk has come to.
Walks == [open: Seq(Lots), realised: Seq([cost: Int, realised: Int])]

\* One trade of the walk.
WalkStep(f, t) ==
    IF t.direction = "buy"
    THEN [f EXCEPT !.open = Append(@, [quantity |-> t.quantity, cost |-> Paid(t), date |-> t.date])]
    ELSE [open |-> Consumption(f.open, t.quantity).open,
          realised |-> Append(f.realised,
              [cost |-> Consumption(f.open, t.quantity).consumed,
               realised |-> Proceeds(t) - Consumption(f.open, t.quantity).consumed])]

\* The lots and results after the trades at each set of positions, and at the end.
Walking(it, order) ==
    \A s \in SUBSET DOMAIN order :
        it[s] = IF s = {} THEN [open |-> <<>>, realised |-> <<>>]
                ELSE WalkStep(it[s \ {Max(s)}], order[Max(s)])

WalkedAlong(order) ==
    (CHOOSE it : it = [s \in SUBSET DOMAIN order |->
        IF s = {} THEN [open |-> <<>>, realised |-> <<>>]
        ELSE WalkStep(it[s \ {Max(s)}], order[Max(s)])])[DOMAIN order]

Walked(set) == WalkedAlong(InWalkOrder(set))

\* The walk as a recursion over positions, and its totals.
LEMMA WalkIsChosen ==
    ASSUME NEW set
    PROVE  LET f == Walked(set)
           IN  Walk(set) =
                  [open |-> f.open, realised |-> f.realised,
                   quantity |-> SumSeq([n \in DOMAIN f.open |-> f.open[n].quantity]),
                   cost |-> SumSeq([n \in DOMAIN f.open |-> f.open[n].cost])]
  BY Zenon DEF Walk, Walked, WalkedAlong, WalkStep, FoldLeft, MapThenFoldSet

\* One trade of the walk keeps the types.
LEMMA WalkStepType ==
    ASSUME NEW f \in Walks, NEW t \in VersionRows
    PROVE  WalkStep(f, t) \in Walks
  <1>1. /\ f.open \in Seq(Lots) /\ f.realised \in Seq([cost: Int, realised: Int])
        /\ t.quantity \in Nat \ {0} /\ t.price \in Nat /\ t.costs \in Nat /\ t.date \in Nat
    BY DEF Walks, VersionRows
  <1>2. Mul(t.price, t.quantity) \in Int
    <2> DEFINE a == t.price
               b == t.quantity
    <2>1. a \in Int /\ b \in Int
      BY <1>1
    <2>. HIDE DEF a, b
    <2>2. Mul(a, b) \in Int
      BY <2>1, MulType
    <2>. QED
      BY <2>2 DEF a, b
  <1>3. Paid(t) \in Int /\ Proceeds(t) \in Int
    BY <1>1, <1>2 DEF Paid, Proceeds
  <1>4. CASE t.direction = "buy"
    <2>1. [quantity |-> t.quantity, cost |-> Paid(t), date |-> t.date] \in Lots
      BY <1>1, <1>3 DEF Lots
    <2>2. Append(f.open, [quantity |-> t.quantity, cost |-> Paid(t), date |-> t.date]) \in Seq(Lots)
      BY <1>1, <2>1
    <2>. QED
      BY <1>4, <2>2 DEF WalkStep, Walks
  <1>5. CASE t.direction # "buy"
    <2> DEFINE sale == Consumption(f.open, t.quantity)
    <2>1. sale \in Sales
      <3>1. [open |-> <<>>, remaining |-> t.quantity, consumed |-> 0] \in Sales
        BY <1>1 DEF Sales
      <3>. QED
        BY <1>1, <3>1, ConsumptionType DEF Consumption
    <2>. HIDE DEF sale
    <2>2. sale.open \in Seq(Lots) /\ sale.consumed \in Int
      BY <2>1 DEF Sales
    <2>3. [cost |-> sale.consumed, realised |-> Proceeds(t) - sale.consumed] \in [cost: Int, realised: Int]
      BY <1>3, <2>2
    <2>4. Append(f.realised, [cost |-> sale.consumed, realised |-> Proceeds(t) - sale.consumed])
            \in Seq([cost: Int, realised: Int])
      BY <1>1, <2>3
    <2>5. WalkStep(f, t) = [open |-> sale.open,
            realised |-> Append(f.realised, [cost |-> sale.consumed, realised |-> Proceeds(t) - sale.consumed])]
      BY <1>5 DEF WalkStep, sale
    <2>. QED
      BY <2>2, <2>4, <2>5 DEF Walks
  <1>. QED
    BY <1>4, <1>5

\* So does the walk.
LEMMA WalkedAlongType ==
    ASSUME NEW order \in Seq(VersionRows)
    PROVE  /\ WalkedAlong(order) \in Walks
           /\ \E it : Walking(it, order) /\ WalkedAlong(order) = it[DOMAIN order]
  <1> DEFINE n == Len(order)
             base == [open |-> <<>>, realised |-> <<>>]
             Rec(f) == f = [s \in SUBSET DOMAIN order |->
                              IF s = {} THEN base ELSE WalkStep(f[s \ {Max(s)}], order[Max(s)])]
             step == [k \in 1..n |-> [a \in Walks |-> WalkStep(a, order[k])]]
             next == [s \in SUBSET (1..n) |-> Max(s)]
             it == CHOOSE f : Rec(f)
  <1>1. n \in Nat /\ DOMAIN order = 1..n /\ \A k \in 1..n : order[k] \in VersionRows
    OBVIOUS
  <1>2. step \in [1..n -> [Walks -> Walks]]
    BY <1>1, WalkStepType
  <1>10. base \in Walks
    BY DEF Walks
  <1>3. /\ \A s \in SUBSET (1..n) : s # {} => Max(s) \in s
        /\ Foldable(1..n, Walks, base, step, next)
    <2>. HIDE DEF n, step, base
    <2>. QED
      BY <1>1, <1>2, <1>10, SequenceFoldable
  <1>4. PICK h : FoldOf(h, 1..n, Walks, base, step, next)
    <2>. HIDE DEF n, step, next, base
    <2>. QED
      BY <1>3, FoldExists, Zenon
  <1>5. ASSUME NEW g, NEW s \in SUBSET (1..n), s # {}, g[s \ {Max(s)}] \in Walks
        PROVE  step[next[s]][g[s \ {next[s]}]] = WalkStep(g[s \ {Max(s)}], order[Max(s)])
    BY <1>3, <1>5
  <1>6. Rec(h)
    <2>1. ASSUME NEW s \in SUBSET (1..n)
          PROVE  h[s] = IF s = {} THEN base ELSE WalkStep(h[s \ {Max(s)}], order[Max(s)])
      <3>1. h[s] = IF s = {} THEN base ELSE step[next[s]][h[s \ {next[s]}]]
        BY <1>4, Zenon DEF FoldOf
      <3>2. h[s \ {Max(s)}] \in Walks
        BY <1>4 DEF FoldOf
      <3>. HIDE DEF step, next, base
      <3>. QED
        BY <1>5, <3>1, <3>2
    <2>2. h \in [SUBSET (1..n) -> Walks]
      BY <1>4 DEF FoldOf
    <2>. HIDE DEF n, base
    <2>. QED
      BY <1>1, <2>1, <2>2
  <1>7. Rec(it)
    BY <1>6
  <1>. HIDE DEF it
  <1>8. it[{}] = base /\ \A s \in SUBSET (1..n) : s # {} => it[s] = WalkStep(it[s \ {Max(s)}], order[Max(s)])
    BY <1>1, <1>7
  <1>9. it[1..n] \in Walks
    <2>. HIDE DEF n, step, next, base
    <2>1. ASSUME NEW s \in SUBSET (1..n), s # {}, it[s \ {next[s]}] \in Walks
          PROVE  it[s] = step[next[s]][it[s \ {next[s]}]]
      <3>1. next[s] = Max(s)
        BY DEF next
      <3>. QED
        BY <1>5, <1>8, <2>1, <3>1
    <2>2. Steps(it, 1..n, Walks, base, step, next)
      BY <1>8, <2>1 DEF Steps
    <2>. QED
      BY <1>3, <2>2, FoldTyped, Zenon
  <1>11. Walking(it, order)
    BY <1>1, <1>8 DEF Walking
  <1>12. WalkedAlong(order) = it[DOMAIN order]
    BY Zenon DEF it, WalkedAlong
  <1>13. WalkedAlong(order) \in Walks
    BY <1>1, <1>9, <1>12, Zenon
  <1>. QED
    BY <1>11, <1>12, <1>13

\* A walk over stored versions keeps the types.
LEMMA WalkedType ==
    ASSUME NEW set \in SUBSET VersionRows, IsFiniteSet(set)
    PROVE  /\ InWalkOrder(set) \in Seq(VersionRows)
           /\ Walked(set) \in Walks
  <1>1. \A t \in set : t.date \in Nat /\ t.sequence \in Nat
    BY DEF VersionRows
  <1>2. InWalkOrder(set) \in Seq(set)
    BY <1>1, OrderType
  <1>3. InWalkOrder(set) \in Seq(VersionRows)
    BY <1>2
  <1>. QED
    BY <1>3, WalkedAlongType DEF Walked

\* What a walk leaves is a number of shares and a number for their cost.
LEMMA WalkType ==
    ASSUME NEW set \in SUBSET VersionRows, IsFiniteSet(set)
    PROVE  Walk(set).quantity \in Int /\ Walk(set).cost \in Int
  <1> DEFINE f == Walked(set)
  <1>1. f.open \in Seq(Lots)
    BY WalkedType DEF Walks
  <1>2. [n \in DOMAIN f.open |-> f.open[n].quantity] \in Seq(Int)
        /\ [n \in DOMAIN f.open |-> f.open[n].cost] \in Seq(Int)
    <2> DEFINE open == f.open
    <2>1. open \in Seq(Lots)
      BY <1>1
    <2>. HIDE DEF open
    <2>2. \A n \in 1..Len(open) : open[n].quantity \in Int /\ open[n].cost \in Int
      <3>1. \A n \in 1..Len(open) : open[n] \in Lots
        BY <2>1
      <3>. QED
        BY <3>1 DEF Lots
    <2>3. DOMAIN open = 1..Len(open) /\ Len(open) \in Nat
      BY <2>1
    <2>4. [n \in DOMAIN open |-> open[n].quantity] \in Seq(Int)
      BY <2>2, <2>3
    <2>5. [n \in DOMAIN open |-> open[n].cost] \in Seq(Int)
      BY <2>2, <2>3
    <2>. QED
      BY <2>4, <2>5 DEF open
  <1>3. SumSeq([n \in DOMAIN f.open |-> f.open[n].quantity]) \in Int
        /\ SumSeq([n \in DOMAIN f.open |-> f.open[n].cost]) \in Int
    BY <1>2, SumType, Zenon
  <1>. QED
    BY <1>3, WalkIsChosen

-----------------------------------------------------------------------------
\* The value of a set of holdings.
Worth(holdings) == MapThenSumSet(LAMBDA h : h.valuation.value, holdings)

\* What holdings are worth, as a recursion over subsets.
LEMMA WorthIsChosen ==
    ASSUME NEW S
    PROVE  Worth(S) =
             (CHOOSE it : it = [s \in SUBSET S |->
                 IF s = {} THEN 0 ELSE Pick(s).valuation.value + it[s \ {Pick(s)}]])[S]
  BY Zenon DEF Worth, MapThenSumSet, MapThenFoldSet, Pick

\* What valued holdings are worth is a number.
LEMMA WorthType ==
    ASSUME NEW S, IsFiniteSet(S), \A h \in S : h.valuation.value \in Int
    PROVE  Worth(S) \in Int
  <1> DEFINE Rec(f) == f = [s \in SUBSET S |->
                              IF s = {} THEN 0 ELSE Pick(s).valuation.value + f[s \ {Pick(s)}]]
             step == [t \in S |-> [a \in Int |-> t.valuation.value + a]]
             next == [s \in SUBSET S |-> Pick(s)]
             it == CHOOSE f : Rec(f)
  <1>1. 0 \in Int /\ step \in [S -> [Int -> Int]]
    OBVIOUS
  <1>2. \A s \in SUBSET S : s # {} => Pick(s) \in s
    BY DEF Pick
  <1>3. Foldable(S, Int, 0, step, next)
    <2>. HIDE DEF step
    <2>. QED
      BY <1>1, <1>2 DEF Foldable
  <1>4. PICK h : FoldOf(h, S, Int, 0, step, next)
    <2>. HIDE DEF step, next
    <2>. QED
      BY <1>3, FoldExists, Zenon
  <1>5. ASSUME NEW g, NEW s \in SUBSET S, s # {}, g[s \ {Pick(s)}] \in Int
        PROVE  step[next[s]][g[s \ {next[s]}]] = Pick(s).valuation.value + g[s \ {Pick(s)}]
    BY <1>2, <1>5
  <1>6. Rec(h)
    <2>1. ASSUME NEW s \in SUBSET S
          PROVE  h[s] = IF s = {} THEN 0 ELSE Pick(s).valuation.value + h[s \ {Pick(s)}]
      <3>1. h[s] = IF s = {} THEN 0 ELSE step[next[s]][h[s \ {next[s]}]]
        BY <1>4, Zenon DEF FoldOf
      <3>2. h[s \ {Pick(s)}] \in Int
        BY <1>4 DEF FoldOf
      <3>. HIDE DEF step, next
      <3>. QED
        BY <1>5, <3>1, <3>2
    <2>2. h \in [SUBSET S -> Int]
      BY <1>4 DEF FoldOf
    <2>. QED
      BY <2>1, <2>2
  <1>7. Rec(it)
    BY <1>6
  <1>. HIDE DEF it
  <1>8. it[{}] = 0 /\ \A s \in SUBSET S : s # {} => it[s] = Pick(s).valuation.value + it[s \ {Pick(s)}]
    BY <1>7
  <1>9. it[S] \in Int
    <2>. HIDE DEF step, next
    <2>1. ASSUME NEW s \in SUBSET S, s # {}, it[s \ {next[s]}] \in Int
          PROVE  it[s] = step[next[s]][it[s \ {next[s]}]]
      <3>1. next[s] = Pick(s)
        BY DEF next
      <3>. QED
        BY <1>5, <1>8, <2>1, <3>1
    <2>2. Steps(it, S, Int, 0, step, next)
      BY <1>8, <2>1 DEF Steps
    <2>. QED
      BY <1>3, <2>2, FoldTyped, Zenon
  <1>. QED
    BY <1>9, WorthIsChosen, Zenon DEF it

\* Nothing is worth nothing.
LEMMA WorthOfNothing == Worth({}) = 0
  <1> DEFINE Rec(f) == f = [s \in SUBSET {} |->
                              IF s = {} THEN 0 ELSE Pick(s).valuation.value + f[s \ {Pick(s)}]]
             it == CHOOSE f : Rec(f)
  <1>1. Rec([s \in SUBSET {} |-> 0])
    OBVIOUS
  <1>2. Rec(it)
    BY <1>1
  <1>. HIDE DEF it
  <1>3. it[{}] = 0
    BY <1>2
  <1>. QED
    BY <1>3, WorthIsChosen, Zenon DEF it

-----------------------------------------------------------------------------
(***************************************************************************)
(* The limits that are stated and the currency a portfolio is kept in.     *)
(***************************************************************************)
\* The currencies a portfolio is kept in.
Settled == Currencies \cup {"EUR"}

SettingsHold ==
    /\ limits \in [Kinds -> Nat]
    /\ portfolio \in Settled \cup {""}
    /\ trades # <<>> => portfolio \in Settled
    /\ \A r \in Requests : request[r].phase = "ready" /\ request[r].op # "withdraw" => portfolio \in Settled

\* Nothing is stated at first.
LEMMA SettingsInit == Init => SettingsHold
  <1> SUFFICES ASSUME Init PROVE SettingsHold
    OBVIOUS
  <1>1. /\ trades = <<>> /\ portfolio = "" /\ limits = [k \in Kinds |-> 0]
        /\ request = [r \in Requests |-> Idle]
    BY DEF Init
  <1>2. \A r \in Requests : request[r].phase = "idle"
    BY <1>1 DEF Idle
  <1>3. limits \in [Kinds -> Nat]
    BY <1>1
  <1>. QED
    BY <1>1, <1>2, <1>3 DEF SettingsHold

\* A request is ready to write only when there is a portfolio, and portfolios stay.
LEMMA SettingsNext == IInv /\ SettingsHold /\ [Next]_vars => SettingsHold'
  <1> SUFFICES ASSUME IInv, SettingsHold, [Next]_vars PROVE SettingsHold'
    OBVIOUS
  <1>0. /\ limits \in [Kinds -> Nat] /\ portfolio \in Settled \cup {""}
        /\ trades # <<>> => portfolio \in Settled
        /\ \A r \in Requests : request[r].phase = "ready" /\ request[r].op # "withdraw" => portfolio \in Settled
        /\ request \in [Requests -> Doing] /\ trades \in Seq(VersionRows)
    BY DEF SettingsHold, IInv, RequestsHold, Rows
  <1>1. ASSUME NEW r \in Requests, NEW op, NEW e, NEW n, Start(r, op, e, n)
        PROVE  SettingsHold'
    <2>1. request' = [request EXCEPT ![r] = [phase |-> IF op = "withdraw" THEN "ready" ELSE "judged",
                                             op |-> op, entry |-> e, target |-> n]]
      BY <1>1 DEF Start
    <2>2. /\ request'[r].op = op /\ request'[r].phase = "ready" => op = "withdraw"
          /\ \A q \in Requests \ {r} : request'[q] = request[q]
      BY <1>0, <2>1
    <2>. QED
      BY <1>0, <1>1, <2>2 DEF Start, SettingsHold
  <1>2. ASSUME NEW r \in Requests, NEW e \in Entries, Record(r, e) PROVE SettingsHold'
    BY <1>1, <1>2 DEF Record
  <1>3. ASSUME NEW r \in Requests, NEW e \in Entries, NEW n \in DOMAIN trades, Correct(r, n, e)
        PROVE  SettingsHold'
    BY <1>1, <1>3 DEF Correct
  <1>4. ASSUME NEW r \in Requests, NEW n \in DOMAIN trades, Withdraw(r, n) PROVE SettingsHold'
    BY <1>1, <1>4 DEF Withdraw
  <1>5. ASSUME NEW r \in Requests, FindPortfolio(r) PROVE SettingsHold'
    <2>1. /\ request' = [request EXCEPT ![r].phase = IF portfolio = "" THEN "creating" ELSE "ready"]
          /\ UNCHANGED <<trades, portfolio, limits>>
      BY <1>5 DEF FindPortfolio
    <2>2. /\ request'[r].phase = "ready" => portfolio # ""
          /\ \A q \in Requests \ {r} : request'[q] = request[q]
      BY <1>0, <2>1 DEF Doing
    <2>3. portfolio # "" => portfolio \in Settled
      BY <1>0
    <2>. QED
      BY <1>0, <2>1, <2>2, <2>3 DEF SettingsHold
  <1>6. ASSUME NEW r \in Requests, EnsurePortfolio(r) PROVE SettingsHold'
    BY <1>0, <1>6 DEF EnsurePortfolio, SettingsHold, Settled
  <1>7. ASSUME NEW r \in Requests, request' = [request EXCEPT ![r] = Idle]
        PROVE  \A q \in Requests : request'[q].phase = "ready" => request'[q] = request[q]
    BY <1>0, <1>7 DEF Idle
  <1>8. ASSUME NEW r \in Requests, WriteTrade(r) PROVE SettingsHold'
    <2>1. trades' # <<>> => trades # <<>> \/ request[r].op # "withdraw"
      <3>1. request[r].op = "withdraw" => request[r].target \in DOMAIN trades
        BY DEF IInv, RequestsHold, Carries
      <3>2. request[r].op = "withdraw" => trades # <<>>
        BY <3>1
      <3>. QED
        BY <3>2
    <2>2. trades' # <<>> => portfolio \in Settled
      BY <1>0, <1>8, <2>1 DEF WriteTrade
    <2>3. UNCHANGED <<portfolio, limits>> /\ request' = [request EXCEPT ![r] = Idle]
      BY <1>8 DEF WriteTrade
    <2>. QED
      BY <1>0, <1>7, <2>2, <2>3 DEF SettingsHold
  <1>9. ASSUME NEW r \in Requests, Fail(r) PROVE SettingsHold'
    BY <1>0, <1>7, <1>9 DEF Fail, SettingsHold
  <1>10. ASSUME NEW c \in Currencies, SetCurrency(c) PROVE SettingsHold'
    BY <1>0, <1>10 DEF SetCurrency, SettingsHold, Settled
  <1>11. ASSUME NEW s \in Statements, StateLimit(s) PROVE SettingsHold'
    <2>1. s.threshold \in Nat
      BY <1>11, MarketAssumption DEF StateLimit, Statable
    <2>2. limits' \in [Kinds -> Nat]
      BY <1>0, <1>11, <2>1 DEF StateLimit
    <2>. QED
      BY <1>0, <1>11, <2>2 DEF StateLimit, SettingsHold
  <1>12. ASSUME NEW k \in Kinds, RemoveLimit(k) PROVE SettingsHold'
    BY <1>0, <1>12 DEF RemoveLimit, SettingsHold
  <1>13. CASE UNCHANGED vars
    BY <1>0, <1>13 DEF vars, SettingsHold
  <1>. QED
    BY <1>2, <1>3, <1>4, <1>5, <1>6, <1>8, <1>9, <1>10, <1>11, <1>12, <1>13 DEF Next

-----------------------------------------------------------------------------
(***************************************************************************)
(* The view and the judgement of a limit against it.                       *)
(***************************************************************************)
\* A valuation is a number, whatever is known.
LEMMA ValuationType ==
    ASSUME NEW quantity \in Int, NEW currency, NEW accounting, NEW price, NEW quoted,
           price.close \in Nat,
           currency # "EUR" => quoted[currency] \in Nat,
           accounting # "EUR" => quoted[accounting] \in Nat
    PROVE  Valuation(quantity, currency, accounting, price, quoted).value \in Int
  <1> DEFINE amount == Mul(quantity, price.close)
  <1>1. amount \in Int
    <2> DEFINE close == price.close
    <2>1. close \in Int
      OBVIOUS
    <2>. HIDE DEF close
    <2>2. Mul(quantity, close) \in Int
      BY <2>1, MulType
    <2>. QED
      BY <2>2 DEF close
  <1>. HIDE DEF amount
  <1>2. ASSUME Convertible(currency, accounting, quoted)
        PROVE  Convert(amount, currency, accounting, quoted) \in Int
    <2>1. CASE currency = accounting
      BY <1>1, <2>1 DEF Convert
    <2>2. CASE currency # accounting
      <3> DEFINE inEuro == IF currency = "EUR" THEN amount ELSE Div(amount, quoted[currency])
      <3>1. \A c \in {currency, accounting} \ {"EUR"} : quoted[c] > 0
        BY <1>2, <2>2 DEF Convertible
      <3>2. inEuro \in Int
        <4>1. CASE currency = "EUR"
          BY <1>1, <4>1
        <4>2. CASE currency # "EUR"
          <5> DEFINE d == quoted[currency]
          <5>1. d \in Int \ {0}
            BY <3>1, <4>2
          <5>. HIDE DEF d
          <5>2. Div(amount, d) \in Int
            BY <1>1, <5>1, DivType
          <5>. QED
            BY <4>2, <5>2 DEF d
        <4>. QED
          BY <4>1, <4>2
      <3>3. Convert(amount, currency, accounting, quoted) =
               IF accounting = "EUR" THEN inEuro ELSE Mul(inEuro, quoted[accounting])
        BY <2>2 DEF Convert
      <3>. HIDE DEF inEuro
      <3>4. CASE accounting = "EUR"
        BY <3>2, <3>3, <3>4
      <3>5. CASE accounting # "EUR"
        <4> DEFINE r == quoted[accounting]
        <4>1. r \in Int
          BY <3>5
        <4>. HIDE DEF r
        <4>2. Mul(inEuro, r) \in Int
          BY <3>2, <4>1, MulType
        <4>. QED
          BY <3>3, <3>5, <4>2 DEF r
      <3>. QED
        BY <3>4, <3>5
    <2>. QED
      BY <2>1, <2>2
  <1>. QED
    BY <1>2 DEF Valuation, amount

\* A view of finitely many holdings, each with a number for its value.
ViewHolds(v) ==
    /\ IsFiniteSet(v.holdings)
    /\ \A h \in v.holdings : h.instrument \in Instruments /\ h.valuation.value \in Int
    /\ v.value = Worth(v.holdings)
    /\ v.complete <=> \A h \in v.holdings : h.valuation.absent = ""

\* A holding of a view has its instrument and a number for a value: its trades are
\* stored versions, and there is a currency as soon as there is a trade.
LEMMA HoldingType ==
    ASSUME IInv, SettingsHold, NEW data \in Stored, NEW i \in Instruments, Of(i, CurrentTrades) # {}
    PROVE  LET h == HoldingOf(i, Of(i, CurrentTrades), portfolio, CurrencyOf, data)
           IN  h.instrument = i /\ h.valuation.value \in Int
  <1> DEFINE set == Of(i, CurrentTrades)
             walked == Walk(set)
             price == data.prices[i]
             quoted == data.rates[price.session]
  <1>1. set \in SUBSET VersionRows /\ IsFiniteSet(set)
    <2>1. Rows(trades)
      BY DEF IInv
    <2>2. set = Kept(trades, i, 0) /\ IsFiniteSet(Kept(trades, i, 0))
      BY <2>1, HoldingIs, RowFacts
    <2>3. Kept(trades, i, 0) \in SUBSET VersionRows
      BY <2>1, RowFacts DEF Kept
    <2>. QED
      BY <2>2, <2>3
  <1>2. walked.quantity \in Int
    <2>. HIDE DEF set
    <2>. QED
      BY <1>1, WalkType
  <1>3. trades # <<>>
    BY DEF Of, CurrentTrades, Current
  <1>4. portfolio \in Currencies \cup {"EUR"}
    BY <1>3 DEF SettingsHold, Settled
  <1>5. price.close \in Nat /\ \A c \in Currencies \cup {CurrencyOf[i]} : quoted[c] \in Nat
    BY MarketAssumption
  <1>6. Valuation(walked.quantity, CurrencyOf[i], portfolio, price, quoted).value \in Int
    <2>. HIDE DEF walked, price, quoted
    <2>. QED
      BY <1>2, <1>4, <1>5, ValuationType
  <1>7. HoldingOf(i, set, portfolio, CurrencyOf, data).instrument = i
        /\ HoldingOf(i, set, portfolio, CurrencyOf, data).valuation
              = Valuation(walked.quantity, CurrencyOf[i], portfolio, price, quoted)
    <2>. HIDE DEF set
    <2>. QED
      BY DEF HoldingOf
  <1>. QED
    BY <1>6, <1>7

\* Every view of stored prices and rates holds finitely many valued holdings.
LEMMA ViewIs ==
    ASSUME IInv, SettingsHold, NEW data \in Stored
    PROVE  ViewHolds(View(data))
  <1> DEFINE traded == {i \in Instruments : \E t \in CurrentTrades : t.instrument = i}
             Made(i) == HoldingOf(i, Of(i, CurrentTrades), portfolio, CurrencyOf, data)
             derived == {Made(i) : i \in traded}
             shown == {h \in derived : h.quantity > 0}
  <1>1. /\ View(data).holdings = shown
        /\ View(data).value = Worth(shown)
        /\ View(data).complete = (\A h \in shown : h.valuation.absent = "")
    <2>1. derived = {HoldingOf(i, {t \in CurrentTrades : t.instrument = i}, portfolio, CurrencyOf, data) :
                       i \in traded}
      BY DEF Of
    <2>. HIDE DEF derived
    <2>. QED
      BY <2>1 DEF View, ViewOf, Worth
  <1>2. IsFiniteSet(traded)
    <2>1. DOMAIN trades = 1..Len(trades) /\ Len(trades) \in Nat
      BY RowFacts DEF IInv
    <2> DEFINE f == [n \in 1..Len(trades) |-> trades[n].instrument]
    <2>2. IsFiniteSet({f[n] : n \in 1..Len(trades)})
      <3> DEFINE T == 1..Len(trades)
      <3>1. IsFiniteSet(T)
        BY <2>1, FS_Interval
      <3>. HIDE DEF f, T
      <3>2. IsFiniteSet({f[n] : n \in T})
        BY <3>1, ImageIsFinite
      <3>. QED
        BY <3>2 DEF T
    <2>3. traded \in SUBSET {f[n] : n \in 1..Len(trades)}
      <3> SUFFICES ASSUME NEW i \in traded PROVE i \in {f[n] : n \in 1..Len(trades)}
        OBVIOUS
      <3>1. PICK n \in DOMAIN trades : trades[n].instrument = i
        BY DEF CurrentTrades, Current
      <3>2. n \in 1..Len(trades) /\ f[n] = i
        BY <2>1, <3>1
      <3>. QED
        BY <3>2
    <2>. HIDE DEF f, traded
    <2>. QED
      BY <2>2, <2>3, FS_Subset
  <1>3. IsFiniteSet(derived)
    <2> DEFINE f == [i \in traded |-> Made(i)]
    <2>1. derived = {f[i] : i \in traded}
      OBVIOUS
    <2>. HIDE DEF f, derived, traded
    <2>. QED
      BY <1>2, <2>1, ImageIsFinite
  <1>4. IsFiniteSet(shown)
    <2>1. shown \in SUBSET derived
      OBVIOUS
    <2>. HIDE DEF shown, derived
    <2>. QED
      BY <1>3, <2>1, FS_Subset
  <1>5. \A i \in traded : Made(i).instrument = i /\ Made(i).valuation.value \in Int
    <2> SUFFICES ASSUME NEW i \in traded PROVE Made(i).instrument = i /\ Made(i).valuation.value \in Int
      OBVIOUS
    <2>1. Of(i, CurrentTrades) # {} /\ i \in Instruments
      BY DEF Of
    <2>. QED
      BY <2>1, HoldingType
  <1>. HIDE DEF Made
  <1>6. \A h \in shown : h.instrument \in Instruments /\ h.valuation.value \in Int
    BY <1>5
  <1>. HIDE DEF shown
  <1>. QED
    BY <1>1, <1>4, <1>6 DEF ViewHolds

\* What the holdings of a label are worth together.
Together(v, labels, l) == Worth({h \in v.holdings : labels[h.instrument] = l})

\* The largest group of a view is one of its labels', and no label's is larger.
LEMMA LargestGroup ==
    ASSUME NEW v, ViewHolds(v), v.holdings # {}, NEW labels
    PROVE  LET groups  == Groups(v, labels)
               largest == CHOOSE g \in groups : \A h \in groups : h.value <= g.value
           IN  /\ largest.value \in Int
               /\ \E h \in v.holdings : largest.value = Together(v, labels, labels[h.instrument])
               /\ \A h \in v.holdings : Together(v, labels, labels[h.instrument]) <= largest.value
  <1> DEFINE T == v.holdings
             f == [h \in T |-> Together(v, labels, labels[h.instrument])]
             values == {f[h] : h \in T}
             groups == Groups(v, labels)
  <1>1. IsFiniteSet(T) /\ T # {} /\ \A h \in T : h.valuation.value \in Int
    BY DEF ViewHolds
  <1>2. \A h \in T : f[h] \in Int
    <2> SUFFICES ASSUME NEW h \in T PROVE Together(v, labels, labels[h.instrument]) \in Int
      OBVIOUS
    <2> DEFINE part == {x \in T : labels[x.instrument] = labels[h.instrument]}
    <2>1. part \in SUBSET T
      OBVIOUS
    <2>2. Together(v, labels, labels[h.instrument]) = Worth(part)
      BY DEF Together
    <2>. HIDE DEF part, T
    <2>3. IsFiniteSet(part) /\ \A x \in part : x.valuation.value \in Int
      BY <1>1, <2>1, FS_Subset
    <2>. QED
      BY <2>2, <2>3, WorthType
  <1>3. groups = {[label |-> l, value |-> Together(v, labels, l)] : l \in {labels[h.instrument] : h \in T}}
    BY Zenon DEF Groups, Together, Worth
  <1>4. \E m \in values : \A x \in values : x <= m
    <2>1. IsFiniteSet(values)
      <3>. HIDE DEF f, T
      <3>. QED
        BY <1>1, ImageIsFinite
    <2>2. values # {} /\ values \in SUBSET Int
      <3>. HIDE DEF f, T
      <3>. QED
        BY <1>1, <1>2
    <2>. HIDE DEF values
    <2>. QED
      BY <2>1, <2>2, LargestExists
  <1>5. \A g \in groups : \E h \in T : g.value = f[h]
    <2> SUFFICES ASSUME NEW g \in groups PROVE \E h \in T : g.value = f[h]
      OBVIOUS
    <2>1. PICK h \in T : g = [label |-> labels[h.instrument], value |-> Together(v, labels, labels[h.instrument])]
      <3>. HIDE DEF T, groups
      <3>. QED
        BY <1>3
    <2>. HIDE DEF T
    <2>. QED
      BY <2>1
  <1>6. \A h \in T : \E g \in groups : g.value = f[h]
    <2> SUFFICES ASSUME NEW h \in T PROVE \E g \in groups : g.value = f[h]
      OBVIOUS
    <2> DEFINE g == [label |-> labels[h.instrument], value |-> Together(v, labels, labels[h.instrument])]
    <2>1. g \in groups
      <3>. HIDE DEF T, groups
      <3>. QED
        BY <1>3
    <2>2. g.value = f[h]
      OBVIOUS
    <2>. QED
      BY <2>1, <2>2
  <1> DEFINE largest == CHOOSE g \in groups : \A h \in groups : h.value <= g.value
  <1>. HIDE DEF groups, f
  <1>7. \E g \in groups : \A h \in groups : h.value <= g.value
    <2>1. PICK h \in T : \A x \in values : x <= f[h]
      BY <1>4
    <2>2. PICK g \in groups : g.value = f[h]
      BY <1>6
    <2>3. ASSUME NEW e \in groups PROVE e.value <= g.value
      <3>1. PICK x \in T : e.value = f[x]
        BY <1>5
      <3>. QED
        BY <2>1, <2>2, <3>1
    <2>. QED
      BY <2>3
  <1>8. largest \in groups /\ \A h \in groups : h.value <= largest.value
    BY <1>7, Zenon
  <1>. HIDE DEF largest
  <1>9. PICK h \in T : largest.value = f[h]
    BY <1>5, <1>8
  <1>10. \A x \in T : f[x] <= largest.value
    BY <1>6, <1>8
  <1>11. \A x \in T : f[x] = Together(v, labels, labels[x.instrument])
    BY DEF f
  <1>12. largest.value \in Int
    BY <1>2, <1>9
  <1>13. \E x \in T : largest.value = Together(v, labels, labels[x.instrument])
    BY <1>9, <1>11
  <1>14. \A x \in T : Together(v, labels, labels[x.instrument]) <= largest.value
    BY <1>10, <1>11
  <1>. QED
    BY <1>12, <1>13, <1>14 DEF largest, groups

\* A judgement of a limit against a view, as LimitsAreNeverFlattered has it.
Sound(k, threshold, v, state) ==
    /\ v.holdings = {} => state = "unevaluable"
    /\ k = "holding_count" => (state = "exceeded" <=> Cardinality(v.holdings) * Scale > threshold)
    /\ k # "holding_count" /\ state # "unevaluable" => \A h \in v.holdings : h.valuation.absent = ""
    /\ k # "holding_count" /\ state = "within" =>
          \A l \in {LabelOf[k][i] : i \in Instruments} :
              Scale * Together(v, LabelOf[k], l) < (threshold + 1) * v.value
    /\ k # "holding_count" /\ state = "exceeded" =>
          \E l \in {LabelOf[k][i] : i \in Instruments} :
              Scale * Together(v, LabelOf[k], l) > threshold * v.value

\* Evaluate judges soundly.
LEMMA JudgementIsSound ==
    ASSUME NEW v, ViewHolds(v), NEW k \in Kinds, NEW threshold \in Nat \ {0}
    PROVE  Sound(k, threshold, v, Evaluate(k, threshold, v, LabelOf[k]).state)
  <1> DEFINE labels == LabelOf[k]
             judged == Evaluate(k, threshold, v, labels)
             groups  == Groups(v, labels)
             largest == CHOOSE g \in groups : \A h \in groups : h.value <= g.value
  <1>1. CASE v.holdings = {}
    <2>1. judged.state = "unevaluable"
      BY <1>1 DEF Evaluate, Unevaluable
    <2>2. Cardinality(v.holdings) * Scale = 0
      BY <1>1, FS_EmptySet, ScaleAssumption
    <2>. QED
      BY <2>1, <2>2 DEF Sound
  <1>2. CASE v.holdings # {} /\ k = "holding_count"
    <2>1. judged.state = IF Cardinality(v.holdings) * Scale > threshold THEN "exceeded" ELSE "within"
      BY <1>2 DEF Evaluate, Against
    <2>. QED
      BY <1>2, <2>1 DEF Sound
  <1>3. CASE v.holdings # {} /\ k # "holding_count" /\ (~v.complete \/ v.value <= 0)
    <2>1. judged.state = "unevaluable"
      BY <1>3 DEF Evaluate, Unevaluable
    <2>. QED
      BY <1>3, <2>1 DEF Sound
  <1>4. CASE v.holdings # {} /\ k # "holding_count" /\ v.complete /\ ~(v.value <= 0)
    <2> DEFINE whole == v.value
               most == largest.value
    <2>1. judged.state = IF Div(most, whole) > threshold THEN "exceeded" ELSE "within"
      BY <1>4 DEF Evaluate, LargestShare, Against
    <2>2. whole \in Nat \ {0}
      <3>1. whole \in Int
        BY WorthType DEF ViewHolds
      <3>. QED
        BY <1>4, <3>1
    <2>3. /\ most \in Int
          /\ \E h \in v.holdings : most = Together(v, labels, labels[h.instrument])
          /\ \A h \in v.holdings : Together(v, labels, labels[h.instrument]) <= most
      BY <1>4, LargestGroup
    <2>. HIDE DEF most
    <2>4. /\ Div(most, whole) > threshold => Scale * most > threshold * whole
          /\ ~(Div(most, whole) > threshold) => Scale * most < (threshold + 1) * whole
      <3>. HIDE DEF whole
      <3>. QED
        BY <2>2, <2>3, DivAgainst
    <2>5. \A h \in v.holdings : h.valuation.absent = ""
      BY <1>4 DEF ViewHolds
    <2>6. ASSUME judged.state = "exceeded"
          PROVE  \E l \in {labels[i] : i \in Instruments} : Scale * Together(v, labels, l) > threshold * whole
      <3>1. PICK h \in v.holdings : most = Together(v, labels, labels[h.instrument])
        BY <2>3
      <3>2. h.instrument \in Instruments
        BY DEF ViewHolds
      <3>3. Scale * most > threshold * whole
        BY <2>1, <2>4, <2>6
      <3>. HIDE DEF judged, labels, whole
      <3>. QED
        BY <3>1, <3>2, <3>3
    <2>7. ASSUME judged.state = "within", NEW l \in {labels[i] : i \in Instruments}
          PROVE  Scale * Together(v, labels, l) < (threshold + 1) * whole
      <3>1. Scale * most < (threshold + 1) * whole
        BY <2>1, <2>4, <2>7
      <3>2. CASE \E h \in v.holdings : labels[h.instrument] = l
        <4> DEFINE part == Together(v, labels, l)
        <4>1. part <= most
          BY <2>3, <3>2
        <4>2. part \in Int
          <5> DEFINE in == {h \in v.holdings : labels[h.instrument] = l}
          <5>1. in \in SUBSET v.holdings /\ part = Worth(in)
            BY DEF Together
          <5>2. IsFiniteSet(in) /\ \A h \in in : h.valuation.value \in Int
            BY <5>1, FS_Subset DEF ViewHolds
          <5>. HIDE DEF in, part
          <5>. QED
            BY <5>1, <5>2, WorthType
        <4>. HIDE DEF part
        <4>3. Scale * part <= Scale * most
          <5>1. PICK d \in Nat : most = part + d
            <6>1. most - part \in Nat /\ most = part + (most - part)
              BY <2>3, <4>1, <4>2
            <6>. QED
              BY <6>1
          <5>2. Scale * most = Scale * part + Scale * d /\ Scale * d \in Nat /\ Scale * part \in Int
            BY <4>2, <5>1, ScaleAssumption
          <5>. QED
            BY <5>2
        <4>4. Scale * part \in Int /\ Scale * most \in Int /\ (threshold + 1) * whole \in Int
          <5>. HIDE DEF whole
          <5>. QED
            BY <2>2, <2>3, <4>2, ScaleAssumption
        <4>5. Scale * part < (threshold + 1) * whole
          BY <3>1, <4>3, <4>4
        <4>. QED
          BY <4>5 DEF part
      <3>3. CASE ~ \E h \in v.holdings : labels[h.instrument] = l
        <4>1. {h \in v.holdings : labels[h.instrument] = l} = {}
          BY <3>3
        <4>2. Together(v, labels, l) = 0
          BY <4>1, WorthOfNothing DEF Together
        <4>3. Scale * Together(v, labels, l) = 0
          BY <4>2, ScaleAssumption
        <4>4. (threshold + 1) * whole > 0
          <5>. HIDE DEF whole
          <5>. QED
            BY <2>2
        <4>. QED
          BY <4>3, <4>4
      <3>. QED
        BY <3>2, <3>3
    <2>. HIDE DEF judged
    <2>. QED
      BY <1>4, <2>5, <2>6, <2>7 DEF Sound, judged
  <1>. QED
    BY <1>1, <1>2, <1>3, <1>4

\* LimitsAreNeverFlattered follows from the invariants.
LEMMA LimitsFollow ==
    ASSUME IInv, SettingsHold
    PROVE  LimitsAreNeverFlattered
  <1>1. ASSUME NEW k \in {x \in Kinds : limits[x] # 0}, NEW data \in Stored
        PROVE  Sound(k, limits[k], View(data), Evaluate(k, limits[k], View(data), LabelOf[k]).state)
    <2>1. k \in Kinds /\ limits[k] \in Nat \ {0}
      BY DEF SettingsHold
    <2>2. ViewHolds(View(data))
      BY ViewIs
    <2>. QED
      BY <2>1, <2>2, JudgementIsSound
  <1>. QED
    BY <1>1, Zenon DEF LimitsAreNeverFlattered, Sound, Together, Worth

\* Both invariants hold in every state.
LEMMA SettingsInvariance == Spec => [](IInv /\ SettingsHold)
  <1>1. Init => IInv /\ SettingsHold
    BY InvInit, SettingsInit
  <1>2. (IInv /\ SettingsHold) /\ [Next]_vars => (IInv /\ SettingsHold)'
    BY InvNext, SettingsNext
  <1>. QED
    BY <1>1, <1>2, PTL DEF Spec

-----------------------------------------------------------------------------
(***************************************************************************)
(* Sums over sets, for a value f of each member.                           *)
(***************************************************************************)
Summing(it, f, S) ==
    \A s \in SUBSET S : it[s] = IF s = {} THEN 0 ELSE f[Pick(s)] + it[s \ {Pick(s)}]

OnSubsets(h, S) == h = [s \in SUBSET S |-> h[s]]

\* g is the sum of f over each subset of T.
SumsOf(g, f, T) == \A S \in SUBSET T : \E it : Summing(it, f, S) /\ g[S] = it[S]

Numbers(f, T) == \A t \in T : f[t] \in Int

\* It is a number, and it does not matter which member is counted first.
SumsUpTo(g, f, T) ==
    /\ g[{}] = 0
    /\ \A s \in SUBSET T : g[s] \in Int
    /\ \A s \in SUBSET T : \A x \in s : g[s] = f[x] + g[s \ {x}]

\* A sum does not depend on what it was part of.
LEMMA SummingIsUnique ==
    \A it, jt, f, S, R :
        IsFiniteSet(R) /\ S \subseteq R /\ Summing(it, f, S) /\ Summing(jt, f, R) => it[S] = jt[S]
  <1> SUFFICES ASSUME NEW it, NEW jt, NEW f, NEW S, NEW R, IsFiniteSet(R), S \subseteq R,
                      Summing(it, f, S), Summing(jt, f, R)
               PROVE  it[S] = jt[S]
    OBVIOUS
  <1> DEFINE P == {s \in SUBSET S : it[s] = jt[s]}
  <1>0. IsFiniteSet(S)
    BY FS_Subset
  <1>1. ASSUME NEW s \in SUBSET S, \A u \in SUBSET s : u # s => u \in P
        PROVE  s \in P
    <2>1. it[s] = IF s = {} THEN 0 ELSE f[Pick(s)] + it[s \ {Pick(s)}]
      BY DEF Summing
    <2>2. jt[s] = IF s = {} THEN 0 ELSE f[Pick(s)] + jt[s \ {Pick(s)}]
      BY DEF Summing
    <2>3. s # {} => s \ {Pick(s)} \in P
      BY <1>1 DEF Pick
    <2>. QED
      BY <2>1, <2>2, <2>3
  <1>2. \A s \in SUBSET S : s \in P
    <2>. HIDE DEF P
    <2>. QED
      BY <1>0, <1>1, SubsetInduction
  <1>. QED
    BY <1>2

\* A sum is a number, and it does not matter which member is counted first.
LEMMA SumsOfFacts ==
    \A g, f, T : IsFiniteSet(T) /\ SumsOf(g, f, T) /\ Numbers(f, T) => SumsUpTo(g, f, T)
  <1> SUFFICES ASSUME NEW g, NEW f, NEW T, IsFiniteSet(T), SumsOf(g, f, T), Numbers(f, T)
               PROVE  SumsUpTo(g, f, T)
    OBVIOUS
  <1>0. \A t \in T : f[t] \in Int
    BY DEF Numbers
  <1>1. PICK it : Summing(it, f, T)
    BY DEF SumsOf
  <1>2. \A s \in SUBSET T : g[s] = it[s]
    <2> SUFFICES ASSUME NEW s \in SUBSET T PROVE g[s] = it[s]
      OBVIOUS
    <2>1. PICK jt : Summing(jt, f, s) /\ g[s] = jt[s]
      BY DEF SumsOf
    <2>2. jt[s] = it[s]
      <3>1. s \subseteq T
        OBVIOUS
      <3>. QED
        BY <1>1, <2>1, <3>1, SummingIsUnique
    <2>. QED
      BY <2>1, <2>2
  <1>3. g[{}] = 0
    BY <1>1, <1>2 DEF Summing
  <1>4. \A s \in SUBSET T : s # {} => Pick(s) \in s /\ s \ {Pick(s)} \in SUBSET T
    BY DEF Pick
  <1>5. \A s \in SUBSET T : s # {} => g[s] = f[Pick(s)] + g[s \ {Pick(s)}]
    BY <1>1, <1>2, <1>4 DEF Summing
  <1> DEFINE P == {s \in SUBSET T :
                     /\ g[s] \in Int
                     /\ \A x \in s : g[s] = f[x] + g[s \ {x}]}
  <1>6. ASSUME NEW s \in SUBSET T, \A u \in SUBSET s : u # s => u \in P
        PROVE  s \in P
    <2>1. CASE s = {}
      BY <1>3, <2>1
    <2>2. CASE s # {}
      <3> DEFINE p == Pick(s)
      <3>1. p \in s /\ s \ {p} \in P /\ g[s] = f[p] + g[s \ {p}]
        BY <1>4, <1>5, <1>6, <2>2
      <3>2. f[p] \in Int /\ g[s \ {p}] \in Int /\ g[s] \in Int
        BY <1>0, <3>1
      <3>3. ASSUME NEW x \in s, x # p
            PROVE  g[s] = f[x] + g[s \ {x}]
        <4> DEFINE rest  == g[(s \ {p}) \ {x}]
                   left  == g[s \ {p}]
                   right == g[s \ {x}]
                   a     == f[p]
                   b     == f[x]
        <4>1. s \ {x} \in P /\ x \in s \ {p} /\ p \in s \ {x}
          BY <1>6, <3>1, <3>3
        <4>2. left = b + rest
          BY <3>1, <4>1
        <4>3. (s \ {p}) \ {x} = (s \ {x}) \ {p}
          OBVIOUS
        <4>4. right = a + rest
          BY <4>1, <4>3
        <4>5. (s \ {p}) \ {x} \in P
          <5>1. (s \ {p}) \ {x} \in SUBSET s /\ (s \ {p}) \ {x} # s
            BY <3>1
          <5>. QED
            BY <1>6, <5>1
        <4>6. rest \in Int /\ a \in Int /\ b \in Int /\ g[s] = a + left
          BY <1>0, <3>1, <4>5
        <4>. HIDE DEF rest, left, right, a, b, p
        <4>7. g[s] = b + right
          BY <4>2, <4>4, <4>6
        <4>. QED
          BY <4>7 DEF right, b
      <3>. HIDE DEF p
      <3>4. \A x \in s : g[s] = f[x] + g[s \ {x}]
        BY <3>1, <3>3
      <3>. QED
        BY <3>2, <3>4
    <2>. QED
      BY <2>1, <2>2
  <1>7. \A s \in SUBSET T : s \in P
    <2>. HIDE DEF P
    <2>. QED
      BY <1>6, SubsetInduction
  <1>. QED
    BY <1>3, <1>7 DEF SumsUpTo

\* A fold that adds is such a sum.
LEMMA SummingExists ==
    \A f, T : IsFiniteSet(T) /\ Numbers(f, T) =>
        \E h : Summing(h, f, T) /\ OnSubsets(h, T)
  <1> SUFFICES ASSUME NEW f, NEW T, IsFiniteSet(T), Numbers(f, T)
               PROVE  \E h : Summing(h, f, T) /\ OnSubsets(h, T)
    OBVIOUS
  <1>0. \A t \in T : f[t] \in Int
    BY DEF Numbers
  <1> DEFINE step == [t \in T |-> [a \in Int |-> f[t] + a]]
             next == [s \in SUBSET T |-> Pick(s)]
  <1>1. 0 \in Int /\ step \in [T -> [Int -> Int]]
    BY <1>0
  <1>2. \A s \in SUBSET T : s # {} => Pick(s) \in s
    BY DEF Pick
  <1>3. Foldable(T, Int, 0, step, next)
    <2>. HIDE DEF step
    <2>. QED
      BY <1>1, <1>2 DEF Foldable
  <1>4. PICK h : FoldOf(h, T, Int, 0, step, next)
    <2>. HIDE DEF step, next
    <2>. QED
      BY <1>3, FoldExists, Zenon
  <1>5. h \in [SUBSET T -> Int]
    BY <1>4 DEF FoldOf
  <1>6. Summing(h, f, T)
    <2> SUFFICES ASSUME NEW s \in SUBSET T
                 PROVE  h[s] = IF s = {} THEN 0 ELSE f[Pick(s)] + h[s \ {Pick(s)}]
      BY DEF Summing
    <2>1. h[s] = IF s = {} THEN 0 ELSE step[next[s]][h[s \ {next[s]}]]
      BY <1>4, Zenon DEF FoldOf
    <2>2. s # {} => step[next[s]][h[s \ {next[s]}]] = f[Pick(s)] + h[s \ {Pick(s)}]
      BY <1>2, <1>5
    <2>. HIDE DEF step, next
    <2>. QED
      BY <2>1, <2>2
  <1>7. OnSubsets(h, T)
    BY <1>5 DEF OnSubsets
  <1>. QED
    BY <1>6, <1>7

\* What a sum of shares is, as a recursion over subsets.
LEMMA QuantityIsChosen ==
    ASSUME NEW S
    PROVE  Quantity(S) =
             (CHOOSE it : it = [s \in SUBSET S |->
                 IF s = {} THEN 0 ELSE Pick(s).quantity + it[s \ {Pick(s)}]])[S]
  BY Zenon DEF Quantity, MapThenSumSet, MapThenFoldSet, Pick

\* It does not matter in which order shares are summed.
LEMMA QuantityFacts ==
    ASSUME NEW T, IsFiniteSet(T), \A t \in T : t.quantity \in Int
    PROVE  /\ Quantity({}) = 0
           /\ \A s \in SUBSET T : Quantity(s) \in Int
           /\ \A s \in SUBSET T : \A x \in s : Quantity(s) = x.quantity + Quantity(s \ {x})
  <1> DEFINE f == [t \in T |-> t.quantity]
             g == [s \in SUBSET T |-> Quantity(s)]
  <1>1. ASSUME NEW S \in SUBSET T PROVE \E it : Summing(it, f, S) /\ g[S] = it[S]
    <2> DEFINE Rec(h) == h = [s \in SUBSET S |->
                 IF s = {} THEN 0 ELSE Pick(s).quantity + h[s \ {Pick(s)}]]
               it == CHOOSE h : Rec(h)
    <2>1. IsFiniteSet(S) /\ Numbers(f, S)
      BY FS_Subset DEF Numbers
    <2>2. PICK h : Summing(h, f, S) /\ OnSubsets(h, S)
      <3>. HIDE DEF f
      <3>. QED
        BY <2>1, SummingExists, Zenon
    <2>3. \A s \in SUBSET S : s # {} => f[Pick(s)] = Pick(s).quantity
      BY DEF Pick
    <2>4. Rec(h)
      <3>1. \A s \in SUBSET S : h[s] = IF s = {} THEN 0 ELSE Pick(s).quantity + h[s \ {Pick(s)}]
        <4>. HIDE DEF f
        <4>. QED
          BY <2>2, <2>3 DEF Summing
      <3>. QED
        BY <2>2, <3>1 DEF OnSubsets
    <2>5. Rec(it)
      BY <2>4
    <2>. HIDE DEF it
    <2>6. \A s \in SUBSET S : it[s] = IF s = {} THEN 0 ELSE Pick(s).quantity + it[s \ {Pick(s)}]
      BY <2>5
    <2>7. Summing(it, f, S)
      <3>. HIDE DEF f
      <3>. QED
        BY <2>3, <2>6 DEF Summing
    <2>8. g[S] = Quantity(S)
      OBVIOUS
    <2>9. Quantity(S) = it[S]
      BY QuantityIsChosen, Zenon DEF it
    <2>. QED
      BY <2>7, <2>8, <2>9
  <1>2. SumsOf(g, f, T)
    BY <1>1 DEF SumsOf
  <1>3. Numbers(f, T)
    BY DEF Numbers
  <1>4. SumsUpTo(g, f, T)
    <2>. HIDE DEF f, g
    <2>. QED
      BY <1>2, <1>3, SumsOfFacts, Zenon
  <1>. QED
    BY <1>4 DEF SumsUpTo

-----------------------------------------------------------------------------
(***************************************************************************)
(* A fold over a sequence with one element more is one step more.  The walk's *)
(* order ends with the trade that is after no other.                       *)
(***************************************************************************)
\* The positions of a sequence and of the sequence with one more.
LEMMA OneMore ==
    ASSUME NEW n \in Nat
    PROVE  Max(1..(n + 1)) = n + 1 /\ (1..(n + 1)) \ {n + 1} = 1..n /\ 1..(n + 1) # {}
  <1> DEFINE S == 1..(n + 1)
  <1>1. n + 1 \in S /\ \A y \in S : n + 1 >= y
    OBVIOUS
  <1>2. Max(S) \in S /\ \A y \in S : Max(S) >= y
    <2>1. \E x \in S : \A y \in S : x >= y
      BY <1>1
    <2>. HIDE DEF S
    <2>. QED
      BY <2>1 DEF Max
  <1>3. Max(S) = n + 1
    BY <1>1, <1>2
  <1>. QED
    BY <1>3

\* The largest of some positions is one of them.
LEMMA LargestPosition ==
    ASSUME NEW n \in Nat, NEW s \in SUBSET (1..n), s # {}
    PROVE  Max(s) \in s
  <1> DEFINE step == [k \in 1..n |-> [a \in {0} |-> 0]]
  <1>1. step \in [1..n -> [{0} -> {0}]] /\ 0 \in {0}
    OBVIOUS
  <1>. HIDE DEF step
  <1>. QED
    BY <1>1, SequenceFoldable

\* A sum of a sequence with one more.
LEMMA SumAppend ==
    ASSUME NEW values \in Seq(Int), NEW x \in Int
    PROVE  SumSeq(Append(values, x)) = SumSeq(values) + x
  <1> DEFINE n == Len(values)
             more == Append(values, x)
  <1>1. /\ n \in Nat /\ DOMAIN values = 1..n
        /\ more \in Seq(Int) /\ DOMAIN more = 1..(n + 1)
        /\ more[n + 1] = x /\ \A k \in 1..n : more[k] = values[k]
    OBVIOUS
  <1>2. PICK it : Adding(it, values) /\ SumSeq(values) = it[DOMAIN values]
    BY SumType
  <1>3. PICK jt : Adding(jt, more) /\ SumSeq(more) = jt[DOMAIN more]
    <2>. HIDE DEF more
    <2>. QED
      BY <1>1, SumType
  <1>. HIDE DEF n, more
  <1>8. \A s \in SUBSET (1..(n + 1)) :
          jt[s] = IF s = {} THEN 0 ELSE jt[s \ {Max(s)}] + more[Max(s)]
    BY <1>1, <1>3 DEF Adding
  <1>9. Max(1..(n + 1)) = n + 1 /\ (1..(n + 1)) \ {n + 1} = 1..n /\ 1..(n + 1) # {}
    BY <1>1, OneMore
  <1> DEFINE P == {s \in SUBSET (1..n) : it[s] = jt[s]}
  <1>4. ASSUME NEW s \in SUBSET (1..n), \A u \in SUBSET s : u # s => u \in P
        PROVE  s \in P
    <2>1. it[s] = IF s = {} THEN 0 ELSE it[s \ {Max(s)}] + values[Max(s)]
      BY <1>1, <1>2 DEF Adding
    <2>2. jt[s] = IF s = {} THEN 0 ELSE jt[s \ {Max(s)}] + more[Max(s)]
      <3>1. s \in SUBSET (1..(n + 1))
        BY <1>1
      <3>. QED
        BY <1>8, <3>1
    <2>3. s # {} => Max(s) \in s
      BY <1>1, LargestPosition
    <2>4. s # {} => s \ {Max(s)} \in P /\ more[Max(s)] = values[Max(s)]
      BY <1>1, <1>4, <2>3
    <2>. QED
      BY <2>1, <2>2, <2>4
  <1>5. \A s \in SUBSET (1..n) : s \in P
    <2>1. IsFiniteSet(1..n)
      BY <1>1, FS_Interval
    <2>. HIDE DEF P
    <2>. QED
      BY <1>4, <2>1, SubsetInduction
  <1>6. jt[1..(n + 1)] = jt[1..n] + x
    <2>1. 1..(n + 1) \in SUBSET (1..(n + 1))
      OBVIOUS
    <2>. QED
      BY <1>1, <1>8, <1>9, <2>1
  <1>7. jt[1..n] = it[1..n]
    BY <1>5
  <1>. QED
    BY <1>1, <1>2, <1>3, <1>6, <1>7 DEF more

\* A sale over lots with one more.
LEMMA ConsumeAppend ==
    ASSUME NEW lots \in Seq(Lots), NEW lot \in Lots, NEW base \in Sales
    PROVE  FoldLeft(Consume, base, Append(lots, lot)) = Consume(FoldLeft(Consume, base, lots), lot)
  <1> DEFINE n == Len(lots)
             more == Append(lots, lot)
  <1>1. /\ n \in Nat /\ DOMAIN lots = 1..n
        /\ more \in Seq(Lots) /\ DOMAIN more = 1..(n + 1)
        /\ more[n + 1] = lot /\ \A k \in 1..n : more[k] = lots[k]
    OBVIOUS
  <1>2. PICK it : Consuming(it, base, lots) /\ FoldLeft(Consume, base, lots) = it[DOMAIN lots]
    BY ConsumptionType
  <1>3. PICK jt : Consuming(jt, base, more) /\ FoldLeft(Consume, base, more) = jt[DOMAIN more]
    <2>. HIDE DEF more
    <2>. QED
      BY <1>1, ConsumptionType
  <1>. HIDE DEF n, more
  <1>8. \A s \in SUBSET (1..(n + 1)) :
          jt[s] = IF s = {} THEN base ELSE Consume(jt[s \ {Max(s)}], more[Max(s)])
    BY <1>1, <1>3 DEF Consuming
  <1>9. Max(1..(n + 1)) = n + 1 /\ (1..(n + 1)) \ {n + 1} = 1..n /\ 1..(n + 1) # {}
    BY <1>1, OneMore
  <1> DEFINE P == {s \in SUBSET (1..n) : it[s] = jt[s]}
  <1>4. ASSUME NEW s \in SUBSET (1..n), \A u \in SUBSET s : u # s => u \in P
        PROVE  s \in P
    <2>1. it[s] = IF s = {} THEN base ELSE Consume(it[s \ {Max(s)}], lots[Max(s)])
      BY <1>1, <1>2 DEF Consuming
    <2>2. jt[s] = IF s = {} THEN base ELSE Consume(jt[s \ {Max(s)}], more[Max(s)])
      <3>1. s \in SUBSET (1..(n + 1))
        BY <1>1
      <3>. QED
        BY <1>8, <3>1
    <2>3. s # {} => Max(s) \in s
      BY <1>1, LargestPosition
    <2>4. s # {} => s \ {Max(s)} \in P /\ more[Max(s)] = lots[Max(s)]
      BY <1>1, <1>4, <2>3
    <2>. QED
      BY <2>1, <2>2, <2>4
  <1>5. \A s \in SUBSET (1..n) : s \in P
    <2> DEFINE T == 1..n
    <2>1. IsFiniteSet(T)
      BY <1>1, FS_Interval
    <2>2. \A s \in SUBSET T : (\A u \in SUBSET s : u # s => u \in P) => s \in P
      <3>. HIDE DEF P
      <3>. QED
        BY <1>4
    <2>3. \A s \in SUBSET T : s \in P
      <3>. HIDE DEF P, T
      <3>. QED
        BY <2>1, <2>2, SubsetInduction
    <2>. QED
      BY <2>3
  <1>6. jt[1..(n + 1)] = Consume(jt[1..n], lot)
    <2>1. 1..(n + 1) \in SUBSET (1..(n + 1))
      OBVIOUS
    <2>. QED
      BY <1>1, <1>8, <1>9, <2>1
  <1>7. jt[1..n] = it[1..n]
    BY <1>5
  <1>. QED
    BY <1>1, <1>2, <1>3, <1>6, <1>7 DEF more

\* A walk along trades with one more.
LEMMA WalkAppend ==
    ASSUME NEW order \in Seq(VersionRows), NEW t \in VersionRows
    PROVE  WalkedAlong(Append(order, t)) = WalkStep(WalkedAlong(order), t)
  <1> DEFINE n == Len(order)
             more == Append(order, t)
  <1>1. /\ n \in Nat /\ DOMAIN order = 1..n
        /\ more \in Seq(VersionRows) /\ DOMAIN more = 1..(n + 1)
        /\ more[n + 1] = t /\ \A k \in 1..n : more[k] = order[k]
    OBVIOUS
  <1>2. PICK it : Walking(it, order) /\ WalkedAlong(order) = it[DOMAIN order]
    BY WalkedAlongType
  <1>3. PICK jt : Walking(jt, more) /\ WalkedAlong(more) = jt[DOMAIN more]
    <2>. HIDE DEF more
    <2>. QED
      BY <1>1, WalkedAlongType
  <1>. HIDE DEF n, more
  <1>8. \A s \in SUBSET (1..(n + 1)) :
          jt[s] = IF s = {} THEN [open |-> <<>>, realised |-> <<>>] ELSE WalkStep(jt[s \ {Max(s)}], more[Max(s)])
    BY <1>1, <1>3 DEF Walking
  <1>9. Max(1..(n + 1)) = n + 1 /\ (1..(n + 1)) \ {n + 1} = 1..n /\ 1..(n + 1) # {}
    BY <1>1, OneMore
  <1> DEFINE P == {s \in SUBSET (1..n) : it[s] = jt[s]}
             base == [open |-> <<>>, realised |-> <<>>]
  <1>4. ASSUME NEW s \in SUBSET (1..n), \A u \in SUBSET s : u # s => u \in P
        PROVE  s \in P
    <2>1. it[s] = IF s = {} THEN base ELSE WalkStep(it[s \ {Max(s)}], order[Max(s)])
      BY <1>1, <1>2 DEF Walking
    <2>2. jt[s] = IF s = {} THEN base ELSE WalkStep(jt[s \ {Max(s)}], more[Max(s)])
      <3>1. s \in SUBSET (1..(n + 1))
        BY <1>1
      <3>. QED
        BY <1>8, <3>1
    <2>3. s # {} => Max(s) \in s
      BY <1>1, LargestPosition
    <2>4. s # {} => s \ {Max(s)} \in P /\ more[Max(s)] = order[Max(s)]
      BY <1>1, <1>4, <2>3
    <2>. HIDE DEF base
    <2>. QED
      BY <2>1, <2>2, <2>4
  <1>5. \A s \in SUBSET (1..n) : s \in P
    <2>1. IsFiniteSet(1..n)
      BY <1>1, FS_Interval
    <2>. HIDE DEF P
    <2>. QED
      BY <1>4, <2>1, SubsetInduction
  <1>6. jt[1..(n + 1)] = WalkStep(jt[1..n], t)
    <2>1. 1..(n + 1) \in SUBSET (1..(n + 1))
      OBVIOUS
    <2>. QED
      BY <1>1, <1>8, <1>9, <2>1
  <1>7. jt[1..n] = it[1..n]
    BY <1>5
  <1>. QED
    BY <1>1, <1>2, <1>3, <1>6, <1>7 DEF more

Dated(S) == IsFiniteSet(S) /\ \A t \in S : t.date \in Nat /\ t.sequence \in Nat

\* The order of the trades without the last, and then the last.
LEMMA OrderAppend ==
    ASSUME NEW S, Dated(S), S # {}
    PROVE  /\ LastWalked(S) \in S
           /\ InWalkOrder(S) = Append(InWalkOrder(S \ {LastWalked(S)}), LastWalked(S))
  <1> DEFINE R == S \ {LastWalked(S)}
  <1>0. IsFiniteSet(S) /\ \A t \in S : t.date \in Nat /\ t.sequence \in Nat
    BY DEF Dated
  <1>1. IsFiniteSet(R) /\ LastWalked(S) \in S
    BY <1>0, LastWalkedIn, FS_Subset
  <1>2. PICK jt : Ordering(jt, S) /\ InWalkOrder(S) = jt[S]
    BY <1>0, OrderType
  <1>3. PICK it : Ordering(it, R) /\ InWalkOrder(R) = it[R]
    <2>1. \A t \in R : t.date \in Nat /\ t.sequence \in Nat
      BY <1>0
    <2>. HIDE DEF R
    <2>. QED
      BY <1>1, <2>1, OrderType
  <1> DEFINE P == {s \in SUBSET R : it[s] = jt[s]}
  <1>4. ASSUME NEW s \in SUBSET R, \A u \in SUBSET s : u # s => u \in P
        PROVE  s \in P
    <2>1. it[s] = IF s = {} THEN <<>> ELSE Append(it[s \ {LastWalked(s)}], LastWalked(s))
      BY <1>3 DEF Ordering
    <2>2. jt[s] = IF s = {} THEN <<>> ELSE Append(jt[s \ {LastWalked(s)}], LastWalked(s))
      BY <1>2 DEF Ordering
    <2>3. s # {} => LastWalked(s) \in s
      BY <1>0, <1>1, LastWalkedIn, FS_Subset
    <2>4. s # {} => s \ {LastWalked(s)} \in P
      BY <1>4, <2>3
    <2>. QED
      BY <2>1, <2>2, <2>4
  <1>5. \A s \in SUBSET R : s \in P
    <2>. HIDE DEF P, R
    <2>. QED
      BY <1>1, <1>4, SubsetInduction
  <1>6. it[R] = jt[R]
    BY <1>5
  <1>7. jt[S] = Append(jt[R], LastWalked(S))
    BY <1>2 DEF Ordering
  <1>. QED
    BY <1>1, <1>2, <1>3, <1>6, <1>7

\* A sequence is empty, or one shorter with an element more.
LEMMA AppendInduction ==
    ASSUME NEW A, NEW P, <<>> \in P,
           \A s \in Seq(A) : \A x \in A : s \in P => Append(s, x) \in P
    PROVE  \A s \in Seq(A) : s \in P
  <1> SUFFICES ASSUME NEW b \in Seq(A), b \notin P PROVE FALSE
    OBVIOUS
  <1> DEFINE bad  == {s \in Seq(A) : s \notin P}
             lens == {Len(s) : s \in bad}
  <1>1. lens \in SUBSET Nat /\ lens # {}
    <2>1. \A s \in bad : Len(s) \in Nat
      OBVIOUS
    <2>2. b \in bad
      OBVIOUS
    <2>. HIDE DEF bad
    <2>. QED
      BY <2>1, <2>2
  <1>. HIDE DEF lens
  <1>2. PICK n \in lens : \A m \in lens : n <= m
    BY <1>1, SmallestSize
  <1>3. PICK s \in bad : n = Len(s)
    BY <1>2 DEF lens
  <1>4. s \in Seq(A) /\ s \notin P /\ n \in Nat
    BY <1>3
  <1>5. n # 0
    <2>1. ASSUME n = 0 PROVE s = <<>>
      <3>1. s \in Seq(A) /\ Len(s) = 0
        BY <1>3, <1>4, <2>1
      <3>. QED
        BY <3>1
    <2>. QED
      BY <1>4, <2>1
  <1> DEFINE front == [k \in 1..(n - 1) |-> s[k]]
  <1>6. front \in Seq(A) /\ Len(front) = n - 1 /\ s[n] \in A
    BY <1>3, <1>4, <1>5
  <1>7. s = Append(front, s[n])
    BY <1>3, <1>4, <1>5, <1>6
  <1>8. front \notin P
    <2>. HIDE DEF front
    <2>. QED
      BY <1>4, <1>6, <1>7
  <1>9. n - 1 \in lens
    <2>. HIDE DEF front
    <2>. QED
      BY <1>6, <1>8 DEF lens
  <1>. QED
    BY <1>2, <1>4, <1>9

\* The costs of lots, or of results.
Costs(rows) == SumSeq([n \in DOMAIN rows |-> rows[n].cost])

\* Costs with one row more.
LEMMA CostsAppend ==
    ASSUME NEW A, \A r \in A : r.cost \in Int, NEW rows \in Seq(A), NEW row \in A
    PROVE  Costs(rows) \in Int /\ Costs(Append(rows, row)) = Costs(rows) + row.cost
  <1> DEFINE values == [n \in DOMAIN rows |-> rows[n].cost]
             more   == Append(rows, row)
             x      == row.cost
  <1>1. /\ DOMAIN rows = 1..Len(rows) /\ Len(rows) \in Nat
        /\ \A n \in 1..Len(rows) : rows[n] \in A
        /\ DOMAIN more = 1..(Len(rows) + 1)
        /\ more[Len(rows) + 1] = row /\ \A n \in 1..Len(rows) : more[n] = rows[n]
    OBVIOUS
  <1>2. values \in Seq(Int) /\ Len(values) = Len(rows) /\ x \in Int
    BY <1>1
  <1>3. [n \in DOMAIN more |-> more[n].cost] = Append(values, x)
    <2>. HIDE DEF more
    <2>1. \A n \in 1..Len(rows) : values[n] = more[n].cost
      BY <1>1
    <2>2. more[Len(rows) + 1].cost = x
      BY <1>1
    <2>3. DOMAIN more = 1..(Len(values) + 1)
      BY <1>1, <1>2
    <2> DEFINE costs == [n \in DOMAIN more |-> more[n].cost]
               longer == Append(values, x)
    <2>. HIDE DEF values, x
    <2>4. DOMAIN longer = 1..(Len(values) + 1) /\ \A n \in DOMAIN longer : longer[n] = more[n].cost
      <3>1. /\ DOMAIN longer = 1..(Len(values) + 1) /\ Len(values) \in Nat
            /\ longer[Len(values) + 1] = x /\ \A n \in 1..Len(values) : longer[n] = values[n]
        BY <1>2
      <3>. HIDE DEF longer
      <3>. QED
        BY <1>1, <1>2, <2>1, <2>2, <3>1
    <2>5. longer \in [1..(Len(values) + 1) -> Int]
      <3>1. longer \in Seq(Int) /\ Len(longer) = Len(values) + 1
        BY <1>2
      <3>. HIDE DEF longer
      <3>. QED
        BY <3>1
    <2>. HIDE DEF longer
    <2>6. longer = [n \in 1..(Len(values) + 1) |-> more[n].cost]
      BY <2>4, <2>5
    <2>7. longer = [n \in DOMAIN more |-> more[n].cost]
      BY <2>3, <2>6
    <2>. QED
      BY <2>7 DEF longer
  <1>4. SumSeq(values) \in Int /\ SumSeq(Append(values, x)) = SumSeq(values) + x
    <2>. HIDE DEF values, x
    <2>. QED
      BY <1>2, SumType, SumAppend
  <1>. QED
    BY <1>3, <1>4 DEF Costs

\* No rows cost nothing.
LEMMA CostsOfNothing == Costs(<<>>) = 0
  <1> DEFINE values == [n \in DOMAIN <<>> |-> <<>>[n].cost]
  <1>1. values = <<>>
    OBVIOUS
  <1>2. <<>> \in Seq(Int) /\ DOMAIN <<>> = {}
    OBVIOUS
  <1>3. PICK it : Adding(it, <<>>) /\ SumSeq(<<>>) = it[DOMAIN <<>>]
    BY <1>2, SumType
  <1>4. it[{}] = 0
    BY <1>2, <1>3 DEF Adding
  <1>. QED
    BY <1>1, <1>2, <1>3, <1>4 DEF Costs

-----------------------------------------------------------------------------
(***************************************************************************)
(* The walk conserves cost: what a sale consumes and what it leaves are what *)
(* it found, for any division of a lot.                                    *)
(***************************************************************************)
\* What one lot of a sale comes to: it is kept, taken, or divided.
Consumed(sale, lot, after) ==
    \/ /\ sale.remaining = 0 /\ after.remaining = 0
       /\ after.open = Append(sale.open, lot) /\ after.consumed = sale.consumed
    \/ /\ sale.remaining >= lot.quantity
       /\ after.remaining = sale.remaining - lot.quantity
       /\ after.open = sale.open /\ after.consumed = sale.consumed + lot.cost
    \/ /\ 0 < sale.remaining /\ sale.remaining < lot.quantity /\ after.remaining = 0
       /\ \E part \in Lots :
             /\ part.date = lot.date /\ part.quantity = lot.quantity - sale.remaining
             /\ after.open = Append(sale.open, part)
             /\ after.consumed + part.cost = sale.consumed + lot.cost

\* A sale takes one of three courses with a lot.
LEMMA ConsumeCases ==
    ASSUME NEW sale \in Sales, NEW lot \in Lots, NEW after, after = Consume(sale, lot)
    PROVE  /\ after \in Sales
           /\ Consumed(sale, lot, after)
  <1> DEFINE take == Smaller(sale.remaining, lot.quantity)
             taken == Taken(lot, take)
             part == [quantity |-> lot.quantity - take, cost |-> lot.cost - taken, date |-> lot.date]
  <1>1. /\ sale.open \in Seq(Lots) /\ sale.remaining \in Nat /\ sale.consumed \in Int
        /\ lot.quantity \in Nat \ {0} /\ lot.cost \in Int /\ lot.date \in Nat
    BY DEF Sales, Lots
  <1>2. after \in Sales
    BY ConsumeType
  <1>3. after =
          IF take = 0 THEN [sale EXCEPT !.open = Append(sale.open, lot)]
          ELSE [open |-> IF take = lot.quantity THEN sale.open ELSE Append(sale.open, part),
                remaining |-> sale.remaining - take, consumed |-> sale.consumed + taken]
    BY DEF Consume
  <1>4. CASE sale.remaining = 0
    <2>1. take = 0
      BY <1>1, <1>4 DEF Smaller
    <2>2. after = [sale EXCEPT !.open = Append(sale.open, lot)]
      BY <1>3, <2>1
    <2>. QED
      BY <1>2, <1>4, <2>2 DEF Sales, Consumed
  <1>5. CASE sale.remaining >= lot.quantity
    <2>1. take = lot.quantity /\ take # 0
      BY <1>1, <1>5 DEF Smaller
    <2>2. taken = lot.cost
      BY <2>1 DEF Taken
    <2>3. after = [open |-> sale.open, remaining |-> sale.remaining - take, consumed |-> sale.consumed + taken]
      BY <1>3, <2>1
    <2>. HIDE DEF take, taken
    <2>. QED
      BY <1>1, <1>2, <1>5, <2>1, <2>2, <2>3 DEF Consumed
  <1>6. CASE 0 < sale.remaining /\ sale.remaining < lot.quantity
    <2>1. take = sale.remaining /\ take # 0 /\ take # lot.quantity
      BY <1>1, <1>6 DEF Smaller
    <2>2. taken \in Int
      <3>1. taken = Div(Mul(lot.cost, take), lot.quantity)
        BY <2>1 DEF Taken
      <3> DEFINE cost == lot.cost
                 whole == lot.quantity
                 product == Mul(cost, take)
      <3>2. cost \in Int /\ take \in Int /\ whole \in Int \ {0}
        BY <1>1, <2>1
      <3>3. product \in Int
        <4>. HIDE DEF cost, take
        <4>. QED
          BY <3>2, MulType
      <3>4. Div(product, whole) \in Int
        <4>. HIDE DEF product, whole
        <4>. QED
          BY <3>2, <3>3, DivType
      <3>. QED
        BY <3>1, <3>4
    <2>3. after = [open |-> Append(sale.open, part), remaining |-> sale.remaining - take,
                   consumed |-> sale.consumed + taken]
      BY <1>3, <2>1
    <2>. HIDE DEF take, taken
    <2>4. part \in Lots /\ part.date = lot.date /\ part.quantity = lot.quantity - sale.remaining
          /\ part.cost = lot.cost - taken
      BY <1>1, <1>6, <2>1, <2>2 DEF Lots
    <2>. HIDE DEF part
    <2>5. after.remaining = 0 /\ after.open = Append(sale.open, part)
          /\ after.consumed + part.cost = sale.consumed + lot.cost
      BY <1>1, <2>1, <2>2, <2>3, <2>4
    <2>. QED
      BY <1>2, <1>6, <2>4, <2>5 DEF Consumed
  <1>7. sale.remaining = 0 \/ sale.remaining >= lot.quantity
        \/ (0 < sale.remaining /\ sale.remaining < lot.quantity)
    BY <1>1
  <1>. QED
    BY <1>4, <1>5, <1>6, <1>7

\* A sale before its first lot.
Owing(q) == [open |-> <<>>, remaining |-> q, consumed |-> 0]

\* No cost is lost in a sale.
LEMMA SaleConserves ==
    ASSUME NEW sale \in Sales, NEW lot \in Lots, NEW after, after = Consume(sale, lot)
    PROVE  Costs(after.open) + after.consumed = Costs(sale.open) + sale.consumed + lot.cost
  <1>1. sale.open \in Seq(Lots) /\ sale.consumed \in Int /\ lot.cost \in Int /\ after.consumed \in Int
    BY ConsumeType DEF Sales, Lots
  <1>2. \A r \in Lots : r.cost \in Int
    BY DEF Lots
  <1> DEFINE before == Costs(sale.open)
  <1>3. before \in Int /\ \A r \in Lots : Costs(Append(sale.open, r)) = before + r.cost
    BY <1>1, <1>2, CostsAppend
  <1>. HIDE DEF before
  <1>4. Costs(after.open) + after.consumed = before + sale.consumed + lot.cost
    <2>1. CASE after.open = Append(sale.open, lot) /\ after.consumed = sale.consumed
      <3>1. Costs(after.open) = before + lot.cost
        BY <1>3, <2>1
      <3>. QED
        BY <1>1, <1>3, <2>1, <3>1
    <2>2. CASE after.open = sale.open /\ after.consumed = sale.consumed + lot.cost
      <3>1. Costs(after.open) = before
        BY <2>2 DEF before
      <3>. QED
        BY <1>1, <1>3, <2>2, <3>1
    <2>3. ASSUME NEW part \in Lots, after.open = Append(sale.open, part),
                 after.consumed + part.cost = sale.consumed + lot.cost
          PROVE  Costs(after.open) + after.consumed = before + sale.consumed + lot.cost
      <3>1. Costs(after.open) = before + part.cost /\ part.cost \in Int
        BY <1>2, <1>3, <2>3
      <3> DEFINE a == Costs(after.open)
                 b == part.cost
                 c == after.consumed
                 d == sale.consumed
                 e == lot.cost
      <3>2. a = before + b /\ c + b = d + e /\ b \in Int /\ c \in Int /\ d \in Int /\ e \in Int
        BY <1>1, <2>3, <3>1
      <3>. HIDE DEF a, b, c, d, e
      <3>3. a + c = before + d + e
        BY <1>3, <3>2
      <3>. QED
        BY <3>3 DEF a, c, d, e
    <2>4. \/ after.open = Append(sale.open, lot) /\ after.consumed = sale.consumed
          \/ after.open = sale.open /\ after.consumed = sale.consumed + lot.cost
          \/ \E part \in Lots : /\ after.open = Append(sale.open, part)
                                /\ after.consumed + part.cost = sale.consumed + lot.cost
      <3>1. Consumed(sale, lot, after)
        BY ConsumeCases
      <3>. QED
        BY <3>1, Zenon DEF Consumed
    <2>. QED
      BY <2>1, <2>2, <2>3, <2>4
  <1>. QED
    BY <1>4 DEF before

\* Nor in all the lots of a sale.
LEMMA ConsumptionConserves ==
    ASSUME NEW lots \in Seq(Lots), NEW q \in Nat
    PROVE  LET sale == Consumption(lots, q)
           IN  sale \in Sales /\ Costs(sale.open) + sale.consumed = Costs(lots)
  <1> DEFINE Sold(s) == FoldLeft(Consume, Owing(q), s)
             P == {s \in Seq(Lots) : Sold(s) \in Sales
                                     /\ Costs(Sold(s).open) + Sold(s).consumed = Costs(s)}
  <1>1. Owing(q) \in Sales
    BY DEF Sales, Owing
  <1>2. <<>> \in P
    <2>1. <<>> \in Seq(Lots) /\ DOMAIN <<>> = {}
      OBVIOUS
    <2>2. PICK it : Consuming(it, Owing(q), <<>>) /\ Sold(<<>>) = it[DOMAIN <<>>]
      BY <1>1, <2>1, ConsumptionType
    <2>3. Sold(<<>>) = Owing(q)
      BY <2>1, <2>2 DEF Consuming
    <2>. HIDE DEF Sold
    <2>. QED
      BY <1>1, <2>1, <2>3, CostsOfNothing DEF Owing
  <1>3. ASSUME NEW s \in Seq(Lots), NEW lot \in Lots, s \in P
        PROVE  Append(s, lot) \in P
    <2> DEFINE sale == Sold(s)
               after == Sold(Append(s, lot))
    <2>1. after = Consume(sale, lot)
      BY <1>1, ConsumeAppend
    <2>2. sale \in Sales /\ Costs(sale.open) + sale.consumed = Costs(s)
      BY <1>3
    <2>3. Append(s, lot) \in Seq(Lots)
      OBVIOUS
    <2>4. Costs(Append(s, lot)) = Costs(s) + lot.cost
      <3>1. \A r \in Lots : r.cost \in Int
        BY DEF Lots
      <3>. QED
        BY <3>1, CostsAppend
    <2>. HIDE DEF Sold, sale, after
    <2>5. after \in Sales /\ Costs(after.open) + after.consumed = Costs(sale.open) + sale.consumed + lot.cost
      BY <2>1, <2>2, ConsumeType, SaleConserves
    <2>6. after \in Sales /\ Costs(after.open) + after.consumed = Costs(Append(s, lot))
      BY <2>2, <2>4, <2>5
    <2>. QED
      BY <2>3, <2>6 DEF after
  <1>4. \A s \in Seq(Lots) : s \in P
    <2>. HIDE DEF P
    <2>. QED
      BY <1>2, <1>3, AppendInduction
  <1>. QED
    BY <1>4 DEF Consumption, Owing

\* What was paid for a set of purchases.
Spent(set) == MapThenSumSet(Paid, set)

\* What was paid, as a recursion over subsets.
LEMMA SpentIsChosen ==
    ASSUME NEW S
    PROVE  Spent(S) =
             (CHOOSE it : it = [s \in SUBSET S |->
                 IF s = {} THEN 0 ELSE Paid(Pick(s)) + it[s \ {Pick(s)}]])[S]
  BY Zenon DEF Spent, MapThenSumSet, MapThenFoldSet, Pick

\* It does not matter in which order costs are summed.
LEMMA SpentFacts ==
    ASSUME NEW T, IsFiniteSet(T), \A t \in T : Paid(t) \in Int
    PROVE  /\ Spent({}) = 0
           /\ \A s \in SUBSET T : Spent(s) \in Int
           /\ \A s \in SUBSET T : \A x \in s : Spent(s) = Paid(x) + Spent(s \ {x})
  <1> DEFINE f == [t \in T |-> Paid(t)]
             g == [s \in SUBSET T |-> Spent(s)]
  <1>1. ASSUME NEW S \in SUBSET T PROVE \E it : Summing(it, f, S) /\ g[S] = it[S]
    <2> DEFINE Rec(h) == h = [s \in SUBSET S |->
                 IF s = {} THEN 0 ELSE Paid(Pick(s)) + h[s \ {Pick(s)}]]
               it == CHOOSE h : Rec(h)
    <2>1. IsFiniteSet(S) /\ Numbers(f, S)
      BY FS_Subset DEF Numbers
    <2>2. PICK h : Summing(h, f, S) /\ OnSubsets(h, S)
      <3>. HIDE DEF f
      <3>. QED
        BY <2>1, SummingExists, Zenon
    <2>3. \A s \in SUBSET S : s # {} => f[Pick(s)] = Paid(Pick(s))
      BY DEF Pick
    <2>4. Rec(h)
      <3>1. \A s \in SUBSET S : h[s] = IF s = {} THEN 0 ELSE Paid(Pick(s)) + h[s \ {Pick(s)}]
        <4>. HIDE DEF f
        <4>. QED
          BY <2>2, <2>3 DEF Summing
      <3>. QED
        BY <2>2, <3>1 DEF OnSubsets
    <2>5. Rec(it)
      BY <2>4
    <2>. HIDE DEF it
    <2>6. \A s \in SUBSET S : it[s] = IF s = {} THEN 0 ELSE Paid(Pick(s)) + it[s \ {Pick(s)}]
      BY <2>5
    <2>7. Summing(it, f, S)
      <3>. HIDE DEF f
      <3>. QED
        BY <2>3, <2>6 DEF Summing
    <2>8. g[S] = Spent(S)
      OBVIOUS
    <2>9. Spent(S) = it[S]
      BY SpentIsChosen, Zenon DEF it
    <2>. QED
      BY <2>7, <2>8, <2>9
  <1>2. SumsOf(g, f, T)
    BY <1>1 DEF SumsOf
  <1>3. Numbers(f, T)
    BY DEF Numbers
  <1>4. SumsUpTo(g, f, T)
    <2>. HIDE DEF f, g
    <2>. QED
      BY <1>2, <1>3, SumsOfFacts, Zenon
  <1>. QED
    BY <1>4 DEF SumsUpTo

\* What was paid for a trade is a number.
LEMMA PaidType ==
    ASSUME NEW t \in VersionRows
    PROVE  Paid(t) \in Int
  <1> DEFINE a == t.price
             b == t.quantity
  <1>1. a \in Int /\ b \in Int /\ t.costs \in Nat
    BY DEF VersionRows
  <1>2. Mul(a, b) \in Int
    <2>. HIDE DEF a, b
    <2>. QED
      BY <1>1, MulType
  <1>. QED
    BY <1>1, <1>2 DEF Paid

\* A walk over no trades, and over trades with one later.
LEMMA WalkOfNothing == Walked({}) = [open |-> <<>>, realised |-> <<>>]
  <1>1. IsFiniteSet({}) /\ \A t \in {} : t.date \in Nat /\ t.sequence \in Nat
    BY FS_EmptySet
  <1>2. PICK it : Ordering(it, {}) /\ InWalkOrder({}) = it[{}]
    BY <1>1, OrderType
  <1>3. InWalkOrder({}) = <<>>
    BY <1>2 DEF Ordering
  <1>4. <<>> \in Seq(VersionRows) /\ DOMAIN <<>> = {}
    OBVIOUS
  <1>5. PICK jt : Walking(jt, <<>>) /\ WalkedAlong(<<>>) = jt[DOMAIN <<>>]
    BY <1>4, WalkedAlongType
  <1>6. jt[{}] = [open |-> <<>>, realised |-> <<>>]
    BY <1>4, <1>5 DEF Walking
  <1>. QED
    BY <1>3, <1>4, <1>5, <1>6 DEF Walked

\* A walk over trades is one over all but the last, and then the last.
LEMMA WalkedAppend ==
    ASSUME NEW S \in SUBSET VersionRows, IsFiniteSet(S), S # {}
    PROVE  /\ LastWalked(S) \in S
           /\ Walked(S) = WalkStep(Walked(S \ {LastWalked(S)}), LastWalked(S))
  <1> DEFINE t == LastWalked(S)
             R == S \ {t}
  <1>1. Dated(S)
    BY DEF Dated, VersionRows
  <1>2. t \in S /\ InWalkOrder(S) = Append(InWalkOrder(R), t)
    BY <1>1, OrderAppend
  <1>3. IsFiniteSet(R) /\ R \in SUBSET VersionRows /\ t \in VersionRows
    BY <1>2, FS_Subset
  <1>4. InWalkOrder(R) \in Seq(VersionRows)
    <2>. HIDE DEF R
    <2>. QED
      BY <1>3, WalkedType
  <1>5. WalkedAlong(Append(InWalkOrder(R), t)) = WalkStep(WalkedAlong(InWalkOrder(R)), t)
    <2>. HIDE DEF R, t
    <2>. QED
      BY <1>3, <1>4, WalkAppend
  <1>. QED
    BY <1>2, <1>5 DEF Walked

\* So are the proceeds of one.
LEMMA ProceedsType ==
    ASSUME NEW t \in VersionRows
    PROVE  Proceeds(t) \in Int
  <1> DEFINE a == t.price
             b == t.quantity
  <1>1. a \in Int /\ b \in Int /\ t.costs \in Nat
    BY DEF VersionRows
  <1>2. Mul(a, b) \in Int
    <2>. HIDE DEF a, b
    <2>. QED
      BY <1>1, MulType
  <1>. QED
    BY <1>1, <1>2 DEF Proceeds

\* Some record is a lot.
LEMMA LotExists == [quantity |-> 1, cost |-> 0, date |-> 0] \in Lots
  BY DEF Lots

\* A walk conserves what was paid.
Conserved(S) == Costs(Walked(S).open) + Costs(Walked(S).realised) = Spent(Bought(S))

\* Every walk does.
LEMMA WalkConserves ==
    ASSUME NEW T \in SUBSET VersionRows, IsFiniteSet(T)
    PROVE  \A S \in SUBSET T : Conserved(S)
  <1> DEFINE P == {S \in SUBSET T : Conserved(S)}
  <1>1. /\ \A t \in T : Paid(t) \in Int
        /\ Spent({}) = 0
        /\ \A s \in SUBSET T : Spent(s) \in Int
        /\ \A s \in SUBSET T : \A x \in s : Spent(s) = Paid(x) + Spent(s \ {x})
    <2>1. \A t \in T : Paid(t) \in Int
      BY PaidType
    <2>. QED
      BY <2>1, SpentFacts
  <1>2. ASSUME NEW S \in SUBSET T, \A u \in SUBSET S : u # S => u \in P
        PROVE  S \in P
    <2>0. IsFiniteSet(S) /\ S \in SUBSET VersionRows
      BY FS_Subset
    <2>1. CASE S = {}
      <3>1. Walked(S) = [open |-> <<>>, realised |-> <<>>]
        BY <2>1, WalkOfNothing
      <3>2. Bought(S) = {}
        BY <2>1 DEF Bought
      <3> DEFINE w == Walked(S)
      <3>3. w.open = <<>> /\ w.realised = <<>>
        BY <3>1
      <3>4. Spent(Bought(S)) = 0
        BY <1>1, <3>2
      <3>. HIDE DEF w
      <3>5. Costs(w.open) = 0 /\ Costs(w.realised) = 0
        BY <3>3, CostsOfNothing
      <3>6. Costs(w.open) + Costs(w.realised) = Spent(Bought(S))
        BY <3>4, <3>5
      <3>. QED
        BY <3>6 DEF Conserved, w
    <2>2. CASE S # {}
      <3> DEFINE t == LastWalked(S)
                 R == S \ {t}
                 f == Walked(R)
                 g == Walked(S)
      <3>1. t \in S /\ R \in SUBSET T /\ IsFiniteSet(R) /\ t \in VersionRows /\ R \in SUBSET VersionRows
            /\ g = WalkStep(f, t)
        BY <2>0, <2>2, WalkedAppend, FS_Subset
      <3>2. Conserved(R)
        BY <1>2, <3>1
      <3>3. f \in Walks
        BY <3>1, WalkedType
      <3>. HIDE DEF t, f, g
      <3>4. /\ f.open \in Seq(Lots) /\ f.realised \in Seq([cost: Int, realised: Int])
            /\ t.quantity \in Nat \ {0} /\ Paid(t) \in Int /\ Proceeds(t) \in Int /\ t.date \in Nat
        BY <3>1, <3>3, PaidType, ProceedsType DEF Walks, VersionRows
      <3>5. /\ \A r \in Lots : r.cost \in Int
            /\ \A r \in [cost: Int, realised: Int] : r.cost \in Int
        BY DEF Lots
      <3> DEFINE a == Costs(f.open)
                 b == Costs(f.realised)
      <3>6. /\ a \in Int /\ \A r \in Lots : Costs(Append(f.open, r)) = a + r.cost
        <4> DEFINE rows == f.open
        <4>1. rows \in Seq(Lots)
          BY <3>4
        <4>. HIDE DEF rows
        <4>2. Costs(rows) \in Int /\ \A r \in Lots : Costs(Append(rows, r)) = Costs(rows) + r.cost
          BY <3>5, <4>1, LotExists, CostsAppend
        <4>. QED
          BY <4>2 DEF rows
      <3>7. /\ b \in Int /\ \A r \in [cost: Int, realised: Int] : Costs(Append(f.realised, r)) = b + r.cost
        <4> DEFINE rows == f.realised
                   A == [cost: Int, realised: Int]
        <4>1. rows \in Seq(A) /\ (\A r \in A : r.cost \in Int) /\ [cost |-> 0, realised |-> 0] \in A
          BY <3>4, <3>5
        <4>. HIDE DEF rows, A
        <4>2. Costs(rows) \in Int /\ \A r \in A : Costs(Append(rows, r)) = Costs(rows) + r.cost
          BY <4>1, CostsAppend
        <4>. QED
          BY <4>2 DEF rows, A
      <3>8. a + b = Spent(Bought(R))
        BY <3>2 DEF Conserved, f
      <3>. HIDE DEF a, b
      <3>9. CASE t.direction = "buy"
        <4> DEFINE lot == [quantity |-> t.quantity, cost |-> Paid(t), date |-> t.date]
        <4>1. g.open = Append(f.open, lot) /\ g.realised = f.realised
          BY <3>1, <3>3, <3>9 DEF WalkStep, Walks
        <4>2. lot \in Lots /\ lot.cost = Paid(t)
          BY <3>4 DEF Lots
        <4>. HIDE DEF lot
        <4>3. Costs(g.open) = a + Paid(t) /\ Costs(g.realised) = b
          BY <3>6, <4>1, <4>2 DEF b
        <4>4. Spent(Bought(S)) = Paid(t) + Spent(Bought(R))
          <5>1. Bought(S) \in SUBSET T /\ t \in Bought(S) /\ Bought(S) \ {t} = Bought(R)
            BY <3>1, <3>9 DEF Bought
          <5>. QED
            BY <1>1, <5>1
        <4>5. Costs(g.open) + Costs(g.realised) = Spent(Bought(S))
          <5> DEFINE c == Spent(Bought(R))
                     p == Paid(t)
          <5>1. Bought(R) \in SUBSET T
            BY <3>1 DEF Bought
          <5>2. c \in Int /\ p \in Int
            BY <1>1, <3>4, <5>1
          <5>. HIDE DEF c, p
          <5>3. (a + p) + b = p + c
            BY <3>6, <3>7, <3>8, <5>2 DEF c
          <5>. QED
            BY <4>3, <4>4, <5>3 DEF c, p
        <4>. QED
          BY <4>5 DEF Conserved, g
      <3>10. CASE t.direction # "buy"
        <4> DEFINE sale == Consumption(f.open, t.quantity)
                   row  == [cost |-> sale.consumed, realised |-> Proceeds(t) - sale.consumed]
        <4>1. sale \in Sales /\ Costs(sale.open) + sale.consumed = a
          BY <3>4, ConsumptionConserves DEF a
        <4>. HIDE DEF sale
        <4>2. sale.open \in Seq(Lots) /\ sale.consumed \in Int
          BY <4>1 DEF Sales
        <4>3. row \in [cost: Int, realised: Int] /\ row.cost = sale.consumed
          BY <3>4, <4>2
        <4>4. g.open = sale.open /\ g.realised = Append(f.realised, row)
          BY <3>1, <3>10 DEF WalkStep, sale
        <4>. HIDE DEF row
        <4>5. Costs(g.realised) = b + sale.consumed
          BY <3>7, <4>3, <4>4
        <4>6. Costs(sale.open) \in Int
          BY <3>5, <4>2, CostsAppend, LotExists
        <4>7. Costs(g.open) + Costs(g.realised) = a + b
          <5> DEFINE c == Costs(sale.open)
                     d == sale.consumed
          <5>1. c \in Int /\ d \in Int /\ c + d = a
            BY <4>1, <4>2, <4>6
          <5>. HIDE DEF c, d
          <5>2. c + (b + d) = a + b
            BY <3>6, <3>7, <5>1
          <5>. QED
            BY <4>4, <4>5, <5>2 DEF c, d
        <4>8. Bought(S) = Bought(R)
          BY <3>10 DEF Bought
        <4>. QED
          BY <3>8, <4>7, <4>8 DEF Conserved, g
      <3>. QED
        BY <3>9, <3>10
    <2>. QED
      BY <2>1, <2>2
  <1>3. \A S \in SUBSET T : S \in P
    <2>. HIDE DEF P
    <2>. QED
      BY <1>2, SubsetInduction
  <1>. QED
    BY <1>3

-----------------------------------------------------------------------------
(***************************************************************************)
(* The walk keeps the newest shares.  It is compared with the purchases that *)
(* s sold shares, counted from the first, do not use up.                   *)
(***************************************************************************)
NotAfter(u, t) == u.date < t.date \/ (u.date = t.date /\ u.sequence <= t.sequence)

Distinct(S) == \A t, u \in S : t.sequence = u.sequence => t = u

\* The last trade of a walk is the only one that is after no other.
LEMMA LastIs ==
    ASSUME NEW S \in SUBSET VersionRows, IsFiniteSet(S), S # {}, Distinct(S)
    PROVE  /\ LastWalked(S) \in S
           /\ \A u \in S : NotAfter(u, LastWalked(S))
           /\ \A x \in S : (\A u \in S : NotAfter(u, x)) => x = LastWalked(S)
           /\ \A u \in S \ {LastWalked(S)} : ~ NotAfter(LastWalked(S), u)
  <1> DEFINE t == LastWalked(S)
  <1>1. \A u \in S : u.date \in Nat /\ u.sequence \in Nat
    BY DEF VersionRows
  <1>2. t \in S /\ \A u \in S : NotAfter(u, t)
    BY <1>1, LastWalkedIn DEF NotAfter
  <1>. HIDE DEF t
  <1>3. ASSUME NEW x \in S, NotAfter(t, x) PROVE x = t
    <2>1. NotAfter(x, t)
      BY <1>2
    <2>2. x.sequence = t.sequence
      BY <1>1, <1>2, <1>3, <2>1 DEF NotAfter
    <2>. QED
      BY <1>2, <2>2 DEF Distinct
  <1>. QED
    BY <1>2, <1>3 DEF t

\* Sums of stored versions.
LEMMA QuantityRows ==
    ASSUME NEW T \in SUBSET VersionRows, IsFiniteSet(T)
    PROVE  /\ Quantity({}) = 0
           /\ \A s \in SUBSET T : Quantity(s) \in Int
           /\ \A s \in SUBSET T : \A x \in s : Quantity(s) = x.quantity + Quantity(s \ {x})
  <1>1. \A t \in T : t.quantity \in Int
    BY DEF VersionRows
  <1>. QED
    BY <1>1, QuantityFacts

\* Fewer trades are no more shares.
LEMMA QuantityGrows ==
    ASSUME NEW T \in SUBSET VersionRows, IsFiniteSet(T)
    PROVE  \A C \in SUBSET T : \A A \in SUBSET C : Quantity(A) <= Quantity(C)
  <1> DEFINE P == {C \in SUBSET T : \A A \in SUBSET C : Quantity(A) <= Quantity(C)}
  <1>1. /\ \A s \in SUBSET T : Quantity(s) \in Int
        /\ \A s \in SUBSET T : \A x \in s : Quantity(s) = x.quantity + Quantity(s \ {x})
        /\ \A x \in T : x.quantity \in Nat
    <2>1. \A x \in T : x.quantity \in Nat
      BY DEF VersionRows
    <2>. QED
      BY <2>1, QuantityRows
  <1>2. ASSUME NEW C \in SUBSET T, \A u \in SUBSET C : u # C => u \in P
        PROVE  C \in P
    <2> SUFFICES ASSUME NEW A \in SUBSET C, A # C PROVE Quantity(A) <= Quantity(C)
      BY <1>1
    <2>1. PICK x \in C : x \notin A
      OBVIOUS
    <2> DEFINE R == C \ {x}
               a == Quantity(A)
               b == Quantity(R)
               c == Quantity(C)
               d == x.quantity
    <2>2. R \in P /\ A \in SUBSET R
      BY <1>2, <2>1
    <2>3. a <= b
      BY <2>2
    <2>4. a \in Int /\ b \in Int /\ c = d + b /\ d \in Nat
      BY <1>1, <2>1
    <2>. HIDE DEF a, b, c, d
    <2>5. a <= c
      BY <2>3, <2>4
    <2>. QED
      BY <2>5 DEF a, c
  <1>3. \A C \in SUBSET T : C \in P
    <2>. HIDE DEF P
    <2>. QED
      BY <1>2, SubsetInduction
  <1>. QED
    BY <1>3

\* What is held is what was bought less what was sold.
Balance(S) == Quantity(Bought(S)) - Quantity(S \ Bought(S))

\* The two sums agree.
LEMMA HeldIsBalance ==
    ASSUME NEW T \in SUBSET VersionRows, IsFiniteSet(T)
    PROVE  \A S \in SUBSET T : HeldAfter(S) = Balance(S)
  <1> DEFINE P == {S \in SUBSET T : HeldAfter(S) = Balance(S)}
  <1>1. /\ Quantity({}) = 0
        /\ \A s \in SUBSET T : Quantity(s) \in Int
        /\ \A s \in SUBSET T : \A x \in s : Quantity(s) = x.quantity + Quantity(s \ {x})
    BY QuantityRows
  <1>2. /\ HeldAfter({}) = 0
        /\ \A s \in SUBSET T : HeldAfter(s) \in Int
        /\ \A s \in SUBSET T : \A x \in s : HeldAfter(s) = Signed(x) + HeldAfter(s \ {x})
    <2>1. \A t \in T : Signed(t) \in Int
      BY DEF Signed, VersionRows
    <2>. QED
      BY <2>1, HeldFacts
  <1>3. ASSUME NEW S \in SUBSET T, \A u \in SUBSET S : u # S => u \in P
        PROVE  S \in P
    <2>1. CASE S = {}
      <3>1. Bought(S) = {} /\ S \ Bought(S) = {}
        BY <2>1 DEF Bought
      <3>. QED
        BY <1>1, <1>2, <2>1, <3>1, 0 - 0 = 0 DEF Balance
    <2>2. CASE S # {}
      <3>1. PICK x \in S : TRUE
        BY <2>2
      <3> DEFINE R == S \ {x}
                 h == HeldAfter(R)
                 b == Quantity(Bought(R))
                 c == Quantity(R \ Bought(R))
                 q == x.quantity
      <3>2. R \in P
        BY <1>3
      <3>3. Bought(R) \in SUBSET T /\ R \ Bought(R) \in SUBSET T /\ x \in VersionRows
        BY DEF Bought
      <3>4. h = b - c /\ b \in Int /\ c \in Int /\ q \in Int /\ HeldAfter(S) = Signed(x) + h
        <4>1. h = b - c
          BY <3>2 DEF Balance
        <4>2. b \in Int /\ c \in Int
          BY <1>1, <3>3
        <4>3. q \in Int
          BY <3>3 DEF VersionRows
        <4>4. HeldAfter(S) = Signed(x) + h
          BY <1>2
        <4>. QED
          BY <4>1, <4>2, <4>3, <4>4
      <3>. HIDE DEF h, b, c, q
      <3>5. CASE x.direction = "buy"
        <4>1. Bought(S) \in SUBSET T /\ x \in Bought(S) /\ Bought(S) \ {x} = Bought(R)
              /\ S \ Bought(S) = R \ Bought(R)
          BY <3>5 DEF Bought
        <4>2. Quantity(Bought(S)) = q + b /\ Quantity(S \ Bought(S)) = c /\ Signed(x) = q
          BY <1>1, <3>5, <4>1 DEF b, c, q, Signed
        <4>. QED
          BY <3>4, <4>2 DEF Balance
      <3>6. CASE x.direction # "buy"
        <4>1. /\ S \ Bought(S) \in SUBSET T /\ x \in S \ Bought(S)
              /\ (S \ Bought(S)) \ {x} = R \ Bought(R) /\ Bought(S) = Bought(R)
          BY <3>6 DEF Bought
        <4>2. Quantity(Bought(S)) = b /\ Quantity(S \ Bought(S)) = q + c /\ Signed(x) = -q
          BY <1>1, <3>6, <4>1 DEF b, c, q, Signed
        <4>. QED
          BY <3>4, <4>2 DEF Balance
      <3>. QED
        BY <3>5, <3>6
    <2>. QED
      BY <2>1, <2>2
  <1>4. \A S \in SUBSET T : S \in P
    <2>. HIDE DEF P
    <2>. QED
      BY <1>3, SubsetInduction
  <1>. QED
    BY <1>4

\* Shares bought up to a purchase; the purchases that s sold shares do not use up; and
\* the lots that are left of them.
Until(B, t) == Quantity({u \in B : NotAfter(u, t)})

Reached(B, s) == {t \in B : Until(B, t) > s}

LotOf(lot, t, left) == lot.date = t.date /\ lot.quantity = Smaller(t.quantity, left)

LeftOf(open, order, B, s) ==
    /\ Len(open) = Len(order)
    /\ \A n \in DOMAIN open : LotOf(open[n], order[n], Until(B, order[n]) - s)

Matches(open, B, s) == LeftOf(open, InWalkOrder(Reached(B, s)), B, s)

Purchases(B) == B \in SUBSET VersionRows /\ IsFiniteSet(B) /\ Distinct(B)

\* The last purchase and the others.
LEMMA UntilFacts ==
    ASSUME NEW B, Purchases(B), B # {}, NEW t, NEW R, t = LastWalked(B), R = B \ {t}
    PROVE  /\ t \in B /\ Purchases(R) /\ t \in VersionRows
           /\ Quantity(B) \in Int /\ Quantity(R) \in Nat /\ Quantity(B) = Quantity(R) + t.quantity
           /\ Until(B, t) = Quantity(B)
           /\ \A u \in R : Until(B, u) = Until(R, u)
           /\ \A u \in R : Until(R, u) \in Int /\ Until(R, u) <= Quantity(R)
  <1>0. B \in SUBSET VersionRows /\ IsFiniteSet(B) /\ Distinct(B)
    BY DEF Purchases
  <1>1. t \in B /\ (\A u \in B : NotAfter(u, t)) /\ \A u \in R : ~ NotAfter(t, u)
    BY <1>0, LastIs
  <1>2. Purchases(R) /\ t \in VersionRows
    BY <1>0, <1>1, FS_Subset DEF Purchases, Distinct
  <1>3. /\ Quantity({}) = 0
        /\ \A s \in SUBSET B : Quantity(s) \in Int
        /\ \A s \in SUBSET B : \A x \in s : Quantity(s) = x.quantity + Quantity(s \ {x})
    BY <1>0, QuantityRows
  <1>4. Quantity(B) \in Int /\ Quantity(R) \in Int /\ Quantity(B) = t.quantity + Quantity(R)
    <2>1. B \in SUBSET B /\ R \in SUBSET B
      OBVIOUS
    <2>. QED
      BY <1>1, <1>3, <2>1
  <1>5. \A C \in SUBSET B : \A A \in SUBSET C : Quantity(A) <= Quantity(C)
    BY <1>0, QuantityGrows
  <1>6. Quantity(R) \in Nat
    <2>1. Quantity({}) <= Quantity(R)
      BY <1>5
    <2>. QED
      BY <1>3, <1>4, <2>1
  <1>7. {u \in B : NotAfter(u, t)} = B
    BY <1>1
  <1>8. \A u \in R : {v \in B : NotAfter(v, u)} = {v \in R : NotAfter(v, u)}
    BY <1>1
  <1>9. \A u \in R : Until(R, u) \in Int /\ Until(R, u) <= Quantity(R)
    BY <1>3, <1>5 DEF Until
  <1>10. t.quantity \in Int
    BY <1>2 DEF VersionRows
  <1>11. Quantity(B) = Quantity(R) + t.quantity
    BY <1>4, <1>10
  <1>12. Until(B, t) = Quantity(B)
    BY <1>7 DEF Until
  <1>13. \A u \in R : Until(B, u) = Until(R, u)
    BY <1>8 DEF Until
  <1>. QED
    BY <1>1, <1>2, <1>4, <1>6, <1>9, <1>11, <1>12, <1>13

\* The purchases that are left, in the order of the walk, are those that were left
\* before the last one, and then the last one if it is not used up.
ReachedGrows(B, s, t, R) ==
    /\ Quantity(B) <= s => Reached(B, s) = {}
    /\ Quantity(B) > s => InWalkOrder(Reached(B, s)) = Append(InWalkOrder(Reached(R, s)), t)
    /\ InWalkOrder(Reached(R, s)) \in Seq(R)

\* They are.
LEMMA ReachedFacts ==
    ASSUME NEW B, Purchases(B), B # {}, NEW t, NEW R, t = LastWalked(B), R = B \ {t}, NEW s \in Int
    PROVE  ReachedGrows(B, s, t, R)
  <1>1. /\ t \in B /\ Purchases(R) /\ t \in VersionRows
        /\ Quantity(B) \in Int /\ Quantity(R) \in Nat /\ Quantity(B) = Quantity(R) + t.quantity
        /\ Until(B, t) = Quantity(B)
        /\ \A u \in R : Until(B, u) = Until(R, u)
        /\ \A u \in R : Until(R, u) \in Int /\ Until(R, u) <= Quantity(R)
    BY UntilFacts
  <1>2. t.quantity \in Nat \ {0}
    BY <1>1 DEF VersionRows
  <1>3. Reached(B, s) = Reached(R, s) \cup {x \in {t} : Quantity(B) > s}
    BY <1>1 DEF Reached
  <1>4. ASSUME Quantity(B) <= s PROVE Reached(B, s) = {}
    <2>1. \A u \in R : Until(R, u) <= s
      BY <1>1, <1>2, <1>4
    <2>2. Reached(R, s) = {}
      BY <1>1, <2>1 DEF Reached
    <2>. QED
      BY <1>1, <1>3, <1>4, <2>2
  <1>5. Reached(R, s) \subseteq R /\ IsFiniteSet(Reached(R, s))
    BY <1>1, FS_Subset DEF Reached, Purchases
  <1>6. ASSUME Quantity(B) > s
        PROVE  InWalkOrder(Reached(B, s)) = Append(InWalkOrder(Reached(R, s)), t)
    <2> DEFINE L == Reached(B, s)
    <2>1. L = Reached(R, s) \cup {t} /\ t \notin Reached(R, s)
      BY <1>3, <1>5, <1>6
    <2>2. L \subseteq B /\ IsFiniteSet(L) /\ L # {} /\ t \in L /\ L \ {t} = Reached(R, s)
      <3>1. IsFiniteSet(Reached(R, s) \cup {t})
        BY <1>5, FS_AddElement
      <3>2. Reached(R, s) \cup {t} \subseteq B
        BY <1>1, <1>5
      <3>. QED
        BY <2>1, <3>1, <3>2
    <2>3. L \in SUBSET VersionRows /\ Distinct(L) /\ Dated(L)
      BY <2>2 DEF Purchases, Distinct, Dated, VersionRows
    <2>4. \A u \in B : NotAfter(u, t)
      BY LastIs DEF Purchases
    <2>. HIDE DEF L
    <2>5. t = LastWalked(L)
      BY <2>2, <2>3, <2>4, LastIs
    <2>6. InWalkOrder(L) = Append(InWalkOrder(L \ {LastWalked(L)}), LastWalked(L))
      BY <2>2, <2>3, OrderAppend
    <2>7. InWalkOrder(L) = Append(InWalkOrder(Reached(R, s)), t)
      BY <2>2, <2>5, <2>6
    <2>. QED
      BY <2>7 DEF L
  <1>7. InWalkOrder(Reached(R, s)) \in Seq(R)
    <2> DEFINE L == Reached(R, s)
    <2>1. \A u \in L : u.date \in Nat /\ u.sequence \in Nat
      BY <1>1, <1>5 DEF Purchases, VersionRows
    <2>2. IsFiniteSet(L) /\ L \subseteq R
      BY <1>5
    <2>. HIDE DEF L
    <2>3. InWalkOrder(L) \in Seq(L)
      BY <2>1, <2>2, OrderType
    <2>4. InWalkOrder(L) \in Seq(R)
      BY <2>2, <2>3
    <2>. QED
      BY <2>4 DEF L
  <1>. QED
    BY <1>1, <1>4, <1>6, <1>7 DEF ReachedGrows

\* No trades are in no order.
LEMMA OrderOfNothing == InWalkOrder({}) = <<>>
  <1>1. IsFiniteSet({}) /\ \A t \in {} : t.date \in Nat /\ t.sequence \in Nat
    BY FS_EmptySet
  <1>2. PICK it : Ordering(it, {}) /\ InWalkOrder({}) = it[{}]
    BY <1>1, OrderType
  <1>. QED
    BY <1>2 DEF Ordering

\* Lots match no purchases when there are none.
LEMMA MatchNothing ==
    ASSUME NEW B, NEW s, Reached(B, s) = {}, NEW open \in Seq(Lots)
    PROVE  Matches(open, B, s) <=> open = <<>>
  <1>1. Matches(open, B, s) <=> LeftOf(open, <<>>, B, s)
    BY OrderOfNothing DEF Matches
  <1>2. Len(open) = 0 <=> open = <<>>
    OBVIOUS
  <1>3. open = <<>> => DOMAIN open = {}
    OBVIOUS
  <1>4. Len(<<>>) = 0
    OBVIOUS
  <1>. QED
    BY <1>1, <1>2, <1>3, <1>4 DEF LeftOf

\* Lots match purchases with one later that is not used up when all but the last
\* match the others, and the last the later one.
LEMMA MatchAppend ==
    ASSUME NEW B, Purchases(B), B # {}, NEW t, NEW R, t = LastWalked(B), R = B \ {t}, NEW s \in Int,
           Quantity(B) > s
    PROVE  /\ \A front \in Seq(Lots), lot \in Lots :
                 Matches(front, R, s) /\ LotOf(lot, t, Quantity(B) - s) => Matches(Append(front, lot), B, s)
           /\ \A open \in Seq(Lots) : Matches(open, B, s) =>
                 \E front \in Seq(Lots), lot \in Lots :
                    open = Append(front, lot) /\ Matches(front, R, s) /\ LotOf(lot, t, Quantity(B) - s)
  <1> DEFINE order == InWalkOrder(Reached(R, s))
             whole == InWalkOrder(Reached(B, s))
             n == Len(order)
  <1>1. /\ t \in B /\ Until(B, t) = Quantity(B)
        /\ \A u \in R : Until(B, u) = Until(R, u)
    BY UntilFacts
  <1>2. whole = Append(order, t) /\ order \in Seq(R)
    <2>1. ReachedGrows(B, s, t, R)
      BY ReachedFacts
    <2>. QED
      BY <2>1 DEF ReachedGrows
  <1>. HIDE DEF order, whole
  <1>3. /\ n \in Nat /\ Len(whole) = n + 1 /\ whole[n + 1] = t
        /\ \A k \in 1..n : whole[k] = order[k] /\ order[k] \in R
    <2>1. whole = Append(order, t) /\ order \in Seq(R) /\ order \in Seq(R \cup {t}) /\ t \in R \cup {t}
      BY <1>2
    <2>. QED
      BY <2>1
  <1>4. \A k \in 1..n : Until(B, whole[k]) = Until(R, order[k])
    BY <1>1, <1>3
  <1>5. \A open : Matches(open, R, s) <=> LeftOf(open, order, R, s)
    BY DEF Matches, order
  <1>6. \A open : Matches(open, B, s) <=> LeftOf(open, whole, B, s)
    BY DEF Matches, whole
  <1>. HIDE DEF n
  <1>7. ASSUME NEW front \in Seq(Lots), NEW lot \in Lots,
               Matches(front, R, s), LotOf(lot, t, Quantity(B) - s)
        PROVE  Matches(Append(front, lot), B, s)
    <2> DEFINE open == Append(front, lot)
    <2>1. Len(front) = n /\ \A k \in 1..n : LotOf(front[k], order[k], Until(R, order[k]) - s)
      <3>1. LeftOf(front, order, R, s)
        BY <1>5, <1>7
      <3>2. DOMAIN front = 1..Len(front)
        OBVIOUS
      <3>. QED
        BY <3>1, <3>2 DEF LeftOf, n
    <2>2. Len(open) = n + 1 /\ DOMAIN open = 1..(n + 1) /\ open[n + 1] = lot /\ \A k \in 1..n : open[k] = front[k]
      BY <2>1
    <2>. HIDE DEF open
    <2>3. \A k \in 1..n : LotOf(open[k], whole[k], Until(B, whole[k]) - s)
      BY <1>3, <1>4, <2>1, <2>2
    <2>4. LotOf(open[n + 1], whole[n + 1], Until(B, whole[n + 1]) - s)
      BY <1>1, <1>3, <1>7, <2>2
    <2>5. \A k \in 1..(n + 1) : k \in 1..n \/ k = n + 1
      BY <1>3
    <2>6. LeftOf(open, whole, B, s)
      BY <1>3, <2>2, <2>3, <2>4, <2>5 DEF LeftOf
    <2>. QED
      BY <1>6, <2>6 DEF open
  <1>8. ASSUME NEW open \in Seq(Lots), Matches(open, B, s)
        PROVE  \E front \in Seq(Lots), lot \in Lots :
                  open = Append(front, lot) /\ Matches(front, R, s) /\ LotOf(lot, t, Quantity(B) - s)
    <2> DEFINE front == [k \in 1..n |-> open[k]]
               lot == open[n + 1]
    <2>1. Len(open) = n + 1 /\ \A k \in 1..(n + 1) : LotOf(open[k], whole[k], Until(B, whole[k]) - s)
      <3>1. LeftOf(open, whole, B, s)
        BY <1>6, <1>8
      <3>. QED
        BY <1>3, <3>1 DEF LeftOf
    <2>2. front \in Seq(Lots) /\ Len(front) = n /\ DOMAIN front = 1..n /\ lot \in Lots
      BY <1>3, <2>1
    <2>3. open = Append(front, lot)
      BY <1>3, <2>1, <2>2
    <2>4. \A k \in 1..n : front[k] = open[k]
      OBVIOUS
    <2>5. n + 1 \in 1..(n + 1) /\ 1..n \subseteq 1..(n + 1)
      BY <1>3
    <2>. HIDE DEF front, lot
    <2>6. \A k \in 1..n : LotOf(front[k], order[k], Until(R, order[k]) - s)
      BY <1>3, <1>4, <2>1, <2>4, <2>5
    <2>7. LeftOf(front, order, R, s)
      BY <2>2, <2>6 DEF LeftOf, n
    <2>8. LotOf(lot, t, Quantity(B) - s)
      BY <1>1, <1>3, <2>1, <2>5 DEF lot
    <2>. QED
      BY <1>5, <2>2, <2>3, <2>7, <2>8
  <1>. QED
    BY <1>7, <1>8

\* What a sale of q shares still owes when b were bought and s already sold.
Rest(b, s, q) == IF b <= s THEN q ELSE IF b >= s + q THEN 0 ELSE s + q - b

\* The arithmetic of one lot of l shares, where m are owed.
LotTaken(r, tq, b, s, q, l, m) ==
    /\ m = 0 => b > s + q /\ l = Smaller(tq, b - (s + q)) /\ Rest(b, s, q) = 0
    /\ m >= l => b <= s + q /\ r <= s + q /\ Rest(b, s, q) = m - l
    /\ 0 < m /\ m < l => b > s + q /\ l - m = Smaller(tq, b - (s + q)) /\ Rest(b, s, q) = 0

\* One lot of a sale leaves what the purchases say it should.
LEMMA LotArithmetic ==
    ASSUME NEW r \in Nat, NEW tq \in Nat \ {0}, NEW b, b = r + tq, NEW s \in Nat, NEW q \in Nat \ {0},
           b > s, NEW l, l = Smaller(tq, b - s), NEW m, m = Rest(r, s, q)
    PROVE  LotTaken(r, tq, b, s, q, l, m)
  <1>1. CASE r <= s
    BY <1>1 DEF LotTaken, Rest, Smaller
  <1>2. CASE r > s /\ r >= s + q
    BY <1>2 DEF LotTaken, Rest, Smaller
  <1>3. CASE r > s /\ r < s + q
    BY <1>3 DEF LotTaken, Rest, Smaller
  <1>. QED
    BY <1>1, <1>2, <1>3

\* All purchases are used up when no more were made than sold.
LEMMA AllUsedUp ==
    ASSUME NEW B, Purchases(B), NEW s \in Int, Quantity(B) <= s
    PROVE  Reached(B, s) = {}
  <1>1. CASE B = {}
    BY <1>1 DEF Reached
  <1>2. CASE B # {}
    <2>1. ReachedGrows(B, s, LastWalked(B), B \ {LastWalked(B)})
      BY <1>2, ReachedFacts
    <2>. QED
      BY <2>1 DEF ReachedGrows
  <1>. QED
    BY <1>1, <1>2

\* A sale that meets no lot.
LEMMA SaleOfNothing ==
    ASSUME NEW q \in Nat
    PROVE  Owing(q) \in Sales /\ FoldLeft(Consume, Owing(q), <<>>) = Owing(q)
  <1>1. Owing(q) \in Sales
    BY DEF Sales, Owing
  <1>2. <<>> \in Seq(Lots) /\ DOMAIN <<>> = {}
    OBVIOUS
  <1>3. PICK it : Consuming(it, Owing(q), <<>>) /\ FoldLeft(Consume, Owing(q), <<>>) = it[DOMAIN <<>>]
    BY <1>1, <1>2, ConsumptionType
  <1>4. it[{}] = Owing(q)
    BY <1>2, <1>3 DEF Consuming
  <1>. QED
    BY <1>1, <1>2, <1>3, <1>4

\* What a sale of q shares leaves of the lots that s sold shares had left.
SoldFrom(sale, B, s, q) ==
    sale \in Sales /\ Matches(sale.open, B, s + q) /\ sale.remaining = Rest(Quantity(B), s, q)

SaleKeeps(B, s, q) ==
    \A open \in Seq(Lots) : Matches(open, B, s) => SoldFrom(FoldLeft(Consume, Owing(q), open), B, s, q)

\* A sale keeps the newest shares of purchases with one later.
LEMMA SaleStep ==
    ASSUME NEW B, Purchases(B), B # {}, NEW t, NEW R, t = LastWalked(B), R = B \ {t},
           NEW s \in Nat, NEW q \in Nat \ {0}, SaleKeeps(R, s, q)
    PROVE  SaleKeeps(B, s, q)
  <1> SUFFICES ASSUME NEW open \in Seq(Lots), Matches(open, B, s)
               PROVE  SoldFrom(FoldLeft(Consume, Owing(q), open), B, s, q)
    BY DEF SaleKeeps
  <1> DEFINE b == Quantity(B)
             r == Quantity(R)
             tq == t.quantity
  <1>1. /\ t \in B /\ Purchases(R) /\ t \in VersionRows
        /\ b \in Int /\ r \in Nat /\ b = r + tq /\ tq \in Nat \ {0}
    BY UntilFacts DEF VersionRows
  <1>2. s + q \in Int /\ s \in Int /\ s + q > s
    OBVIOUS
  <1>. HIDE DEF b, r, tq
  <1>3. CASE b <= s
    <2>1. Reached(B, s) = {} /\ Reached(B, s + q) = {}
      <3>1. b <= s + q
        BY <1>1, <1>2, <1>3
      <3>. QED
        BY <1>2, <1>3, <3>1, AllUsedUp DEF b
    <2>2. open = <<>>
      BY <2>1, MatchNothing
    <2>3. FoldLeft(Consume, Owing(q), open) = Owing(q) /\ Owing(q) \in Sales
      BY <2>2, SaleOfNothing
    <2>4. Matches(<<>>, B, s + q)
      <3>1. <<>> \in Seq(Lots)
        OBVIOUS
      <3>. QED
        BY <2>1, <3>1, MatchNothing
    <2>5. Rest(b, s, q) = q /\ Owing(q).open = <<>> /\ Owing(q).remaining = q
      BY <1>3 DEF Rest, Owing
    <2>. QED
      BY <2>3, <2>4, <2>5 DEF SoldFrom, b
  <1>4. CASE b > s
    <2>1. PICK front \in Seq(Lots), lot \in Lots :
             open = Append(front, lot) /\ Matches(front, R, s) /\ LotOf(lot, t, b - s)
      BY <1>2, <1>4, MatchAppend DEF b
    <2> DEFINE sale  == FoldLeft(Consume, Owing(q), front)
               after == FoldLeft(Consume, Owing(q), open)
    <2>2. SoldFrom(sale, R, s, q)
      BY <2>1 DEF SaleKeeps
    <2>3. after = Consume(sale, lot)
      BY <2>1, ConsumeAppend, SaleOfNothing
    <2>. HIDE DEF sale, after
    <2>4. sale \in Sales /\ Matches(sale.open, R, s + q) /\ sale.remaining = Rest(r, s, q)
      BY <2>2 DEF SoldFrom, r
    <2>5. after \in Sales /\ Consumed(sale, lot, after)
      BY <2>3, <2>4, ConsumeCases
    <2> DEFINE l == lot.quantity
               m == sale.remaining
    <2>6. l = Smaller(tq, b - s) /\ lot.date = t.date /\ m = Rest(r, s, q)
      BY <2>1, <2>4 DEF LotOf, tq
    <2>7. sale.open \in Seq(Lots) /\ after.open \in Seq(Lots)
      BY <2>4, <2>5 DEF Sales
    <2>. HIDE DEF l, m
    <2>8. /\ m = 0 => b > s + q /\ l = Smaller(tq, b - (s + q)) /\ Rest(b, s, q) = 0
          /\ m >= l => b <= s + q /\ r <= s + q /\ Rest(b, s, q) = m - l
          /\ 0 < m /\ m < l => b > s + q /\ l - m = Smaller(tq, b - (s + q)) /\ Rest(b, s, q) = 0
      <3>1. LotTaken(r, tq, b, s, q, l, m)
        BY <1>1, <1>4, <2>6, LotArithmetic
      <3>. QED
        BY <3>1 DEF LotTaken
    <2>9. ASSUME b > s + q, NEW part \in Lots, after.open = Append(sale.open, part),
                 part.date = t.date, part.quantity = Smaller(tq, b - (s + q))
          PROVE  Matches(after.open, B, s + q)
      <3>1. LotOf(part, t, b - (s + q))
        BY <2>9 DEF LotOf, tq
      <3>2. Matches(Append(sale.open, part), B, s + q)
        BY <1>2, <2>4, <2>7, <2>9, <3>1, MatchAppend DEF b
      <3>. QED
        BY <2>9, <3>2
    <2>10. CASE /\ m = 0 /\ after.remaining = 0 /\ after.open = Append(sale.open, lot)
      <3>1. b > s + q /\ lot.quantity = Smaller(tq, b - (s + q)) /\ Rest(b, s, q) = 0
        BY <2>8, <2>10 DEF l
      <3>2. Matches(after.open, B, s + q)
        BY <2>6, <2>9, <2>10, <3>1
      <3>. QED
        BY <2>5, <2>10, <3>1, <3>2 DEF SoldFrom, after, b
    <2>11. CASE /\ m >= l /\ after.remaining = m - l /\ after.open = sale.open
      <3>1. b <= s + q /\ r <= s + q /\ Rest(b, s, q) = m - l
        BY <2>8, <2>11
      <3>2. Reached(B, s + q) = {} /\ Reached(R, s + q) = {}
        BY <1>1, <1>2, <3>1, AllUsedUp DEF b, r
      <3>3. sale.open = <<>>
        BY <2>4, <2>7, <3>2, MatchNothing
      <3>4. Matches(after.open, B, s + q)
        BY <2>7, <2>11, <3>2, <3>3, MatchNothing
      <3>. QED
        BY <2>5, <2>11, <3>1, <3>4 DEF SoldFrom, after, b
    <2>12. CASE /\ 0 < m /\ m < l /\ after.remaining = 0
                /\ \E part \in Lots : /\ part.date = lot.date /\ part.quantity = l - m
                                      /\ after.open = Append(sale.open, part)
      <3>1. PICK part \in Lots : /\ part.date = lot.date /\ part.quantity = l - m
                                 /\ after.open = Append(sale.open, part)
        BY <2>12
      <3>2. b > s + q /\ part.quantity = Smaller(tq, b - (s + q)) /\ Rest(b, s, q) = 0
        BY <2>8, <2>12, <3>1
      <3>3. Matches(after.open, B, s + q)
        BY <2>6, <2>9, <3>1, <3>2
      <3>. QED
        BY <2>5, <2>12, <3>2, <3>3 DEF SoldFrom, after, b
    <2>13. \/ /\ m = 0 /\ after.remaining = 0 /\ after.open = Append(sale.open, lot)
           \/ /\ m >= l /\ after.remaining = m - l /\ after.open = sale.open
           \/ /\ 0 < m /\ m < l /\ after.remaining = 0
              /\ \E part \in Lots : /\ part.date = lot.date /\ part.quantity = l - m
                                    /\ after.open = Append(sale.open, part)
      BY <2>5, Zenon DEF Consumed, l, m
    <2>. QED
      BY <2>10, <2>11, <2>12, <2>13
  <1>. QED
    BY <1>1, <1>2, <1>3, <1>4

\* Every sale does.
LEMMA SalesKeep ==
    ASSUME NEW T, Purchases(T), NEW s \in Nat, NEW q \in Nat \ {0}
    PROVE  SaleKeeps(T, s, q)
  <1> DEFINE P == {B \in SUBSET T : SaleKeeps(B, s, q)}
  <1>0. IsFiniteSet(T) /\ T \in SUBSET VersionRows
    BY DEF Purchases
  <1>1. ASSUME NEW B \in SUBSET T, \A u \in SUBSET B : u # B => u \in P
        PROVE  B \in P
    <2>0. Purchases(B)
      BY FS_Subset DEF Purchases, Distinct
    <2>1. CASE B = {}
      <3>1. Reached(B, s) = {} /\ Reached(B, s + q) = {}
        BY <2>1 DEF Reached
      <3>2. Quantity(B) = 0
        BY <1>0, <2>1, QuantityRows
      <3>3. Rest(0, s, q) = q
        BY DEF Rest
      <3>4. \A open \in Seq(Lots) : Matches(open, B, s) => open = <<>>
        BY <3>1, MatchNothing
      <3>5. <<>> \in Seq(Lots) /\ Matches(<<>>, B, s + q)
        <4>1. <<>> \in Seq(Lots)
          OBVIOUS
        <4>. QED
          BY <3>1, <4>1, MatchNothing
      <3>6. FoldLeft(Consume, Owing(q), <<>>) = Owing(q) /\ Owing(q) \in Sales
            /\ Owing(q).open = <<>> /\ Owing(q).remaining = q
        BY SaleOfNothing DEF Owing
      <3>7. SoldFrom(Owing(q), B, s, q)
        BY <3>2, <3>3, <3>5, <3>6 DEF SoldFrom
      <3>. QED
        BY <3>4, <3>6, <3>7 DEF SaleKeeps
    <2>2. CASE B # {}
      <3> DEFINE t == LastWalked(B)
                 R == B \ {t}
      <3>1. t \in B
        BY <2>0, <2>2, LastIs DEF Purchases
      <3>2. SaleKeeps(R, s, q)
        BY <1>1, <3>1
      <3>. QED
        BY <2>0, <2>2, <3>2, SaleStep
    <2>. QED
      BY <2>1, <2>2
  <1>2. \A B \in SUBSET T : B \in P
    <2>. HIDE DEF P
    <2>. QED
      BY <1>0, <1>1, SubsetInduction
  <1>. QED
    BY <1>2

\* The walk keeps the newest shares.
Fifo(S) == Chronological(S) => Matches(Walked(S).open, Bought(S), Quantity(S \ Bought(S)))

\* No sale is dated before the shares it sells, in short.
LEMMA ChronologicalIs ==
    ASSUME NEW S
    PROVE  Chronological(S) <=> \A t \in S : HeldAfter({u \in S : NotAfter(u, t)}) >= 0
  BY Zenon DEF Chronological, NotAfter

\* A history in which no sale is early has none without its last trade either.
LEMMA EarlierIsChronological ==
    ASSUME NEW S, Purchases(S), S # {}, Chronological(S), NEW t, NEW R, t = LastWalked(S), R = S \ {t}
    PROVE  Chronological(R) /\ HeldAfter(S) >= 0
  <1>1. t \in S /\ (\A u \in S : NotAfter(u, t)) /\ \A u \in R : ~ NotAfter(t, u)
    BY LastIs DEF Purchases
  <1>2. {u \in S : NotAfter(u, t)} = S
    BY <1>1
  <1>3. \A u \in R : {v \in S : NotAfter(v, u)} = {v \in R : NotAfter(v, u)}
    BY <1>1
  <1>4. \A u \in S : HeldAfter({v \in S : NotAfter(v, u)}) >= 0
    BY ChronologicalIs
  <1>5. HeldAfter(S) >= 0
    BY <1>1, <1>2, <1>4
  <1>6. \A u \in R : HeldAfter({v \in R : NotAfter(v, u)}) >= 0
    BY <1>3, <1>4
  <1>. QED
    BY <1>5, <1>6, ChronologicalIs

\* So as many shares were bought as sold.
LEMMA BoughtCoversSold ==
    ASSUME NEW S, Purchases(S), Chronological(S)
    PROVE  /\ Quantity(Bought(S)) \in Nat /\ Quantity(S \ Bought(S)) \in Nat
           /\ Quantity(S \ Bought(S)) <= Quantity(Bought(S))
  <1>0. IsFiniteSet(S) /\ S \in SUBSET VersionRows
    BY DEF Purchases
  <1> DEFINE b == Quantity(Bought(S))
             c == Quantity(S \ Bought(S))
  <1>1. Bought(S) \in SUBSET S /\ S \ Bought(S) \in SUBSET S /\ {} \in SUBSET S /\ S \in SUBSET S
    BY DEF Bought
  <1>2. b \in Int /\ c \in Int /\ Quantity({}) = 0
    BY <1>0, <1>1, QuantityRows
  <1>3. Quantity({}) <= b /\ Quantity({}) <= c
    <2>1. \A C \in SUBSET S : \A A \in SUBSET C : Quantity(A) <= Quantity(C)
      BY <1>0, QuantityGrows
    <2>. QED
      BY <1>1, <2>1
  <1>4. HeldAfter(S) = b - c
    BY <1>0, <1>1, HeldIsBalance DEF Balance
  <1>5. HeldAfter(S) >= 0
    <2>1. CASE S = {}
      <3>1. Bought(S) = {} /\ S \ Bought(S) = {}
        BY <2>1 DEF Bought
      <3>. QED
        BY <1>2, <1>4, <3>1
    <2>2. CASE S # {}
      BY <2>2, EarlierIsChronological
    <2>. QED
      BY <2>1, <2>2
  <1>. HIDE DEF b, c
  <1>6. b \in Nat /\ c \in Nat /\ c <= b
    BY <1>2, <1>3, <1>4, <1>5
  <1>. QED
    BY <1>6 DEF b, c

\* One trade more keeps it so.
LEMMA FifoStep ==
    ASSUME NEW S, Purchases(S), S # {}, Chronological(S), NEW t, NEW R, t = LastWalked(S), R = S \ {t},
           Fifo(R)
    PROVE  Matches(Walked(S).open, Bought(S), Quantity(S \ Bought(S)))
  <1> DEFINE f == Walked(R)
             g == Walked(S)
             B == Bought(R)
             s == Quantity(R \ B)
             q == t.quantity
  <1>0. IsFiniteSet(S) /\ S \in SUBSET VersionRows /\ Distinct(S)
    BY DEF Purchases
  <1>1. t \in S /\ g = WalkStep(f, t)
    BY <1>0, WalkedAppend
  <1>2. /\ Purchases(R) /\ Purchases(B) /\ Purchases(Bought(S))
    BY <1>0, FS_Subset DEF Purchases, Distinct, Bought
  <1>3. Chronological(R)
    BY EarlierIsChronological
  <1>4. s \in Nat /\ Quantity(B) \in Nat /\ s <= Quantity(B)
    BY <1>2, <1>3, BoughtCoversSold
  <1>5. Matches(f.open, B, s)
    BY <1>3 DEF Fifo
  <1>6. f \in Walks
    BY <1>2, WalkedType DEF Purchases
  <1>7. t \in VersionRows /\ q \in Nat \ {0} /\ t.date \in Nat
    BY <1>0, <1>1 DEF VersionRows
  <1>. HIDE DEF f, g, q
  <1>8. f.open \in Seq(Lots)
    BY <1>6 DEF Walks
  <1>9. CASE t.direction = "buy"
    <2> DEFINE lot == [quantity |-> q, cost |-> Paid(t), date |-> t.date]
               C == Bought(S)
    <2>1. C \ {t} = B /\ t \in C /\ S \ C = R \ B /\ C # {}
      BY <1>1, <1>9 DEF Bought
    <2>2. t = LastWalked(C)
      <3>1. C \in SUBSET VersionRows /\ IsFiniteSet(C) /\ Distinct(C)
        BY <1>2 DEF Purchases
      <3>2. \A u \in C : NotAfter(u, t)
        BY <1>0, LastIs DEF Bought
      <3>. HIDE DEF C
      <3>. QED
        BY <2>1, <3>1, <3>2, LastIs
    <2>3. lot \in Lots /\ lot.date = t.date /\ lot.quantity = q
      BY <1>7, PaidType DEF Lots
    <2>4. g.open = Append(f.open, lot)
      BY <1>1, <1>6, <1>9 DEF WalkStep, Walks, q
    <2>. HIDE DEF lot
    <2> DEFINE c == Quantity(C)
               b == Quantity(B)
    <2>5. c = b + q
      BY <1>2, <2>1, <2>2, UntilFacts DEF q
    <2>. HIDE DEF B, C, b, c, s
    <2>6. c > s /\ s \in Int /\ q = Smaller(q, c - s)
      BY <1>4, <1>7, <2>5 DEF Smaller, b
    <2>7. LotOf(lot, t, c - s)
      BY <2>3, <2>6 DEF LotOf, q
    <2>8. Matches(Append(f.open, lot), C, s)
      BY <1>2, <1>5, <1>8, <2>1, <2>2, <2>3, <2>6, <2>7, MatchAppend DEF c, C
    <2>. QED
      BY <2>1, <2>4, <2>8 DEF g, s, C
  <1>10. CASE t.direction # "buy"
    <2> DEFINE U == S \ Bought(S)
    <2>1. Bought(S) = B /\ t \in U /\ U \ {t} = R \ B /\ U \in SUBSET S
      BY <1>1, <1>10 DEF Bought
    <2>2. Quantity(U) = q + s
      <3>1. \A x \in SUBSET S : \A y \in x : Quantity(x) = y.quantity + Quantity(x \ {y})
        BY <1>0, QuantityRows
      <3>. HIDE DEF U
      <3>. QED
        BY <2>1, <3>1 DEF q
    <2>3. g.open = FoldLeft(Consume, Owing(q), f.open).open
      BY <1>1, <1>10 DEF WalkStep, Consumption, Owing, q
    <2>. HIDE DEF U, B, s
    <2>4. SoldFrom(FoldLeft(Consume, Owing(q), f.open), B, s, q)
      BY <1>2, <1>4, <1>5, <1>7, <1>8, SalesKeep DEF SaleKeeps
    <2>5. Matches(g.open, B, s + q)
      BY <2>3, <2>4 DEF SoldFrom
    <2>6. s + q = Quantity(U)
      BY <1>4, <1>7, <2>2
    <2>. QED
      BY <2>1, <2>5, <2>6 DEF g, U
  <1>. QED
    BY <1>9, <1>10

\* Every walk keeps the newest shares.
LEMMA WalkIsFifo ==
    ASSUME NEW T, Purchases(T)
    PROVE  \A S \in SUBSET T : Fifo(S)
  <1> DEFINE P == {S \in SUBSET T : Fifo(S)}
  <1>0. IsFiniteSet(T) /\ T \in SUBSET VersionRows /\ Distinct(T)
    BY DEF Purchases
  <1>1. ASSUME NEW S \in SUBSET T, \A u \in SUBSET S : u # S => u \in P
        PROVE  S \in P
    <2>0. Purchases(S)
      BY <1>0, FS_Subset DEF Purchases, Distinct
    <2>1. CASE S = {}
      <3>1. Walked(S).open = <<>> /\ Bought(S) = {}
        BY <2>1, WalkOfNothing DEF Bought
      <3>2. Reached(Bought(S), Quantity(S \ Bought(S))) = {} /\ <<>> \in Seq(Lots)
        BY <3>1 DEF Reached
      <3>. QED
        BY <3>1, <3>2, MatchNothing DEF Fifo
    <2>2. CASE S # {}
      <3>1. LastWalked(S) \in S
        BY <2>0, <2>2, LastIs DEF Purchases
      <3>2. Fifo(S \ {LastWalked(S)})
        BY <1>1, <3>1
      <3>. QED
        BY <2>0, <2>2, <3>2, FifoStep DEF Fifo
    <2>. QED
      BY <2>1, <2>2
  <1>2. \A S \in SUBSET T : S \in P
    <2>. HIDE DEF P
    <2>. QED
      BY <1>0, <1>1, SubsetInduction
  <1>. QED
    BY <1>2

\* FifoKeepsTheNewest says what Fifo says.
LEMMA FifoIs ==
    ASSUME NEW S, Fifo(S)
    PROVE  FifoKeepsTheNewest(S, Walked(S).open)
  <1> DEFINE open == Walked(S).open
             B == Bought(S)
             sold == Quantity(S \ B)
             order == InWalkOrder(Reached(B, sold))
  <1>1. \A t : Until(B, t) = Quantity({u \in B : u.date < t.date
                                \/ (u.date = t.date /\ u.sequence <= t.sequence)})
    BY DEF Until, NotAfter
  <1>2. order = InWalkOrder({t \in B : Quantity({u \in B : u.date < t.date
                                \/ (u.date = t.date /\ u.sequence <= t.sequence)}) > sold})
    <2>. HIDE DEF B, sold
    <2>1. Reached(B, sold) = {t \in B : Quantity({u \in B : u.date < t.date
                                \/ (u.date = t.date /\ u.sequence <= t.sequence)}) > sold}
      BY Zenon DEF Reached, Until, NotAfter
    <2>. QED
      BY <2>1, Zenon DEF order
  <1>3. Chronological(S) => LeftOf(open, order, B, sold)
    BY Zenon DEF Fifo, Matches
  <1>. HIDE DEF open, order
  <1>. QED
    BY <1>1, <1>2, <1>3, Zenon DEF FifoKeepsTheNewest, LeftOf, LotOf, open

\* WalkIsExact follows from the invariant.
LEMMA WalksAreExact ==
    ASSUME IInv
    PROVE  WalkIsExact
  <1> SUFFICES ASSUME NEW i \in Instruments
               PROVE  LET set == Of(i, CurrentTrades)
                      IN  CostIsConserved(set, Walk(set)) /\ FifoKeepsTheNewest(set, Walk(set).open)
    BY Zenon DEF WalkIsExact
  <1> DEFINE S == Of(i, CurrentTrades)
  <1>1. Purchases(S)
    <2>1. S = Kept(trades, i, 0) /\ IsFiniteSet(S)
      BY HoldingIs, RowFacts DEF IInv
    <2>2. \A x \in S : \E n \in DOMAIN trades : x = trades[n] /\ Counts(trades[n])
      BY <2>1 DEF Kept
    <2>3. S \in SUBSET VersionRows
      BY <2>2, RowFacts DEF IInv
    <2>4. Distinct(S)
      <3>1. \A m, n \in DOMAIN trades :
               Counts(trades[m]) /\ Counts(trades[n]) /\ trades[m].sequence = trades[n].sequence => m = n
        BY DEF IInv, Chains
      <3>. HIDE DEF S
      <3>. QED
        BY <2>2, <3>1 DEF Distinct
    <2>. QED
      BY <2>1, <2>3, <2>4 DEF Purchases
  <1>. HIDE DEF S
  <1> DEFINE f == Walked(S)
             w == Walk(S)
  <1>2. /\ w.open = f.open /\ w.realised = f.realised
        /\ w.cost = SumSeq([n \in DOMAIN f.open |-> f.open[n].cost])
    BY WalkIsChosen
  <1>3. Conserved(S)
    BY <1>1, WalkConserves DEF Purchases
  <1>4. CostIsConserved(S, w)
    BY <1>2, <1>3, Zenon DEF CostIsConserved, Conserved, Costs, Spent
  <1>5. FifoKeepsTheNewest(S, w.open)
    BY <1>1, <1>2, WalkIsFifo, FifoIs
  <1>. QED
    BY <1>4, <1>5 DEF S

-----------------------------------------------------------------------------
(***************************************************************************)
(* The results.                                                            *)
(***************************************************************************)
\* The invariant holds in every state: requests that carry a version name one
\* that is stored, and what a lone request was judged by is still true when its
\* transaction runs (portfolio/service.go, refusesForPosition).
THEOREM Invariance == Spec => []IInv
  BY InvInit, InvNext, PTL DEF Spec

\* Whatever requests race, one trade is one chain of versions
\* (portfolio/repository.go, Correct and Withdraw name only versions that count).
THEOREM OneChainEach == Spec => []VersionsFormChains
  BY Invariance, InvProperties, PTL

\* As long as no two requests were ever in progress together, no recording,
\* correction or withdrawal leaves a position below zero, but for an instrument
\* that a correction moved a trade away from, which refusesForPosition
\* (portfolio/service.go) does not look at.
THEOREM NeverBelowZero == Spec => []PositionsStayWhole
  BY Invariance, InvProperties, PTL

\* A limit is within only when everything it measures is known and no label's share
\* is above it, and exceeded only when one really is, for any trades, prices, rates,
\* labels and thresholds, however the quotient is rounded (risk/evaluate.go).
THEOREM LimitsHold == Spec => []LimitsAreNeverFlattered
  BY SettingsInvariance, LimitsFollow, PTL

\* What a walk leaves is, of each purchase, exactly what its sales have not reached,
\* first in, first out, when no sale is dated before its shares; and every unit paid
\* is in the cost of a sale or of what is held (portfolio/fifo.go, walk and lot.take).
THEOREM WalkHolds == Spec => []WalkIsExact
  BY Invariance, WalksAreExact, PTL
=============================================================================

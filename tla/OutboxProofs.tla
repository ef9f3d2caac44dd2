---------------------------- MODULE OutboxProofs ----------------------------
(***************************************************************************)
(* What a stream of the outbox guarantees for every number of writers,     *)
(* clients, events, lost and refused connections: nothing is sent again,   *)
(* and the outbox implements EventFeed.                                    *)
(***************************************************************************)
EXTENDS EventOutbox, FiniteSetTheorems, TLAPS

\* n is the greatest identifier of the events, 0 if there are none.
IsHead(n, events) ==
    /\ n = 0 \/ \E e \in events : e.id = n
    /\ \A e \in events : e.id <= n

\* The events are finite in number and one of them is the newest.
Bounded(events) == IsFiniteSet(events) /\ \E n \in 0..MaxEvents : IsHead(n, events)

\* An identifier is handed out once, whichever transactions are open.
IdsAreUnique ==
    /\ \A e \in log : e.id <= inserted
    /\ \A w \in Writers : \A e \in open[w] : e.id <= inserted
    /\ \A e, f \in log : e.id = f.id => e = f
    /\ \A w \in Writers : \A e \in open[w], f \in log : e.id # f.id
    /\ \A v, w \in Writers : \A e \in open[v], f \in open[w] : e.id = f.id => e = f /\ v = w

\* A handler's cursor is never behind what its client has applied, and what it
\* is sending is committed, the client's own, and beyond the cursor.
CursorIsAhead(c) ==
    /\ last[c] = 0 <=> seen[c] = {}
    /\ \A n \in seen[c] : n <= last[c]
    /\ conn[c].up => last[c] <= conn[c].after
    /\ ~conn[c].up => conn[c].batch = {}
    /\ \A e \in conn[c].batch : e \in log /\ Authorized(c, e) /\ e.id > conn[c].after

CursorsAreAhead == \A c \in Clients : CursorIsAhead(c)

IInv ==
    /\ TypeOK
    /\ Bounded(log)
    /\ \A w \in Writers : Bounded(open[w])
    /\ IdsAreUnique
    /\ CursorsAreAhead

-----------------------------------------------------------------------------
\* Repository.Head returns the newest committed identifier.
LEMMA LogHeadIsHead ==
    ASSUME Bounded(log)
    PROVE  LogHead \in 0..MaxEvents /\ IsHead(LogHead, log)
  BY DEF Bounded, IsHead, LogHead

LEMMA EmptyIsBounded == Bounded({})
  BY FS_EmptySet, OutboxAssumption DEF Bounded, IsHead, Events, Ids

LEMMA AddedIsBounded ==
    ASSUME NEW S \in SUBSET Events, Bounded(S), NEW e \in Events
    PROVE  Bounded(S \cup {e})
  <1>1. IsFiniteSet(S \cup {e})
    BY FS_AddElement DEF Bounded
  <1>2. PICK n \in 0..MaxEvents : IsHead(n, S)
    BY DEF Bounded
  <1>3. e.id \in 1..MaxEvents
    BY DEF Events, Ids
  <1>4. CASE e.id <= n
    BY <1>1, <1>2, <1>3, <1>4, OutboxAssumption DEF Bounded, IsHead, Events, Ids
  <1>5. CASE ~(e.id <= n)
    <2>1. \A f \in S \cup {e} : f.id <= e.id
      <3>1. TAKE f \in S \cup {e}
      <3>2. CASE f = e
        BY <1>3, <3>2, OutboxAssumption
      <3>3. CASE f \in S
        BY <1>2, <1>3, <1>5, <3>3, OutboxAssumption DEF IsHead, Events, Ids
      <3>. QED
        BY <3>2, <3>3
    <2>2. e.id \in 0..MaxEvents
      BY <1>3, OutboxAssumption
    <2>. QED
      BY <1>1, <2>1, <2>2 DEF Bounded, IsHead, Events, Ids
  <1>. QED
    BY <1>4, <1>5

LEMMA UnionIsBounded ==
    ASSUME NEW S \in SUBSET Events, NEW T \in SUBSET Events, Bounded(S), Bounded(T)
    PROVE  Bounded(S \cup T)
  <1>1. IsFiniteSet(S \cup T)
    BY FS_Union DEF Bounded
  <1>2. PICK m \in 0..MaxEvents : IsHead(m, S)
    BY DEF Bounded
  <1>3. PICK n \in 0..MaxEvents : IsHead(n, T)
    BY DEF Bounded
  <1>. QED
    <2>1. CASE m <= n
      BY <1>1, <1>2, <1>3, <2>1, OutboxAssumption DEF Bounded, IsHead, Events, Ids
    <2>2. CASE n <= m
      BY <1>1, <1>2, <1>3, <2>2, OutboxAssumption DEF Bounded, IsHead, Events, Ids
    <2>. QED
      BY <2>1, <2>2, OutboxAssumption

\* ListAuthorized returns the first committed events of the client's own beyond
\* the cursor: none that comes before one of them is left out.
LEMMA ListIsPrefix ==
    ASSUME NEW c, log \in SUBSET Events, IsFiniteSet(log)
    PROVE  /\ \A e \in ListAuthorized(c) : e \in log /\ Authorized(c, e) /\ e.id > conn[c].after
           /\ \A e \in ListAuthorized(c), f \in log :
                 Authorized(c, f) /\ f.id > conn[c].after /\ f.id < e.id => f \in ListAuthorized(c)
  <1> DEFINE visible == {e \in log : e.id > conn[c].after /\ Authorized(c, e)}
             Before(e) == {f \in visible : f.id < e.id}
  <1>1. \A e \in visible : IsFiniteSet(Before(e)) /\ Cardinality(Before(e)) \in Nat
    BY FS_Subset, FS_CardinalityType
  <1>2. \A e, f \in visible : f.id < e.id => Cardinality(Before(f)) <= Cardinality(Before(e))
    <2>1. SUFFICES ASSUME NEW e \in visible, NEW f \in visible, f.id < e.id
                   PROVE  Cardinality(Before(f)) <= Cardinality(Before(e))
      OBVIOUS
    <2>2. Before(f) \in SUBSET Before(e)
      BY <2>1 DEF Events, Ids
    <2>. QED
      BY <1>1, <2>1, <2>2, FS_Subset
  <1>3. ListAuthorized(c) = {e \in visible : Cardinality(Before(e)) < Batch}
    BY DEF ListAuthorized
  <1>4. ASSUME NEW e \in ListAuthorized(c), NEW f \in log,
               Authorized(c, f), f.id > conn[c].after, f.id < e.id
        PROVE  f \in ListAuthorized(c)
    <2>1. e \in visible /\ f \in visible /\ Cardinality(Before(e)) < Batch
      BY <1>3, <1>4
    <2>2. Cardinality(Before(f)) <= Cardinality(Before(e))
      BY <1>2, <1>4, <2>1
    <2>3. /\ Cardinality(Before(f)) \in Nat
          /\ Cardinality(Before(e)) \in Nat
      BY <1>1, <2>1
    <2>. HIDE DEF visible, Before
    <2>4. Cardinality(Before(f)) < Batch
      BY <2>1, <2>2, <2>3, OutboxAssumption
    <2>. QED
      BY <1>3, <2>1, <2>4
  <1>. QED
    BY <1>3, <1>4

-----------------------------------------------------------------------------
LEMMA InvInit == Init => IInv
  <1> SUFFICES ASSUME Init PROVE IInv
    OBVIOUS
  <1>1. TypeOK
    BY OutboxAssumption DEF Init, TypeOK, Handlers, Closed
  <1>2. Bounded(log) /\ \A w \in Writers : Bounded(open[w])
    BY EmptyIsBounded DEF Init
  <1>3. IdsAreUnique
    BY DEF Init, IdsAreUnique
  <1>4. CursorsAreAhead
    BY DEF Init, CursorsAreAhead, CursorIsAhead, Closed
  <1>. QED
    BY <1>1, <1>2, <1>3, <1>4 DEF IInv

\* The writer's steps change neither what a client has nor what it is being sent.
LEMMA InsertStep ==
    ASSUME IInv, NEW w \in Writers, NEW kind \in Kinds, Insert(w, kind)
    PROVE  IInv'
  <1> DEFINE new == [id |-> inserted + 1, to |-> kind.to, heard |-> kind.heard]
  <1>0. TypeOK /\ IdsAreUnique
    BY DEF IInv
  <1>1. new \in Events /\ new.id = inserted + 1
    BY <1>0, OutboxAssumption DEF Insert, TypeOK, Events, Ids, EventKinds
  <1>2. /\ open' = [open EXCEPT ![w] = open[w] \cup {new}]
        /\ open'[w] = open[w] \cup {new}
        /\ \A v \in Writers \ {w} : open'[v] = open[v]
    BY <1>0 DEF Insert, TypeOK
  <1>. HIDE DEF new
  <1>3. TypeOK'
    BY <1>0, <1>1, <1>2, OutboxAssumption DEF Insert, TypeOK
  <1>4. \A v \in Writers : Bounded(open[v])'
    BY <1>0, <1>1, <1>2, AddedIsBounded DEF IInv, TypeOK
  <1>5. IdsAreUnique'
    <2>1. \A v \in Writers : \A e \in open[v] : e.id \in Nat /\ e.id < inserted + 1
      BY <1>0 DEF IdsAreUnique, TypeOK, Events, Ids
    <2>2. \A e \in log : e.id \in Nat /\ e.id < inserted + 1
      BY <1>0 DEF IdsAreUnique, TypeOK, Events, Ids
    <2>3. \A v \in Writers : \A e \in open'[v] : e \in open[v] \/ (v = w /\ e = new)
      BY <1>2
    <2>4. inserted \in Nat /\ inserted' = inserted + 1 /\ log' = log
      BY <1>0 DEF Insert, TypeOK
    <2>5. \A v \in Writers : \A e \in open'[v] : e.id <= inserted'
      BY <1>1, <2>1, <2>3, <2>4
    <2>6. \A v \in Writers : \A e \in open'[v], f \in log : e.id # f.id
      BY <1>0, <1>1, <2>2, <2>3, <2>4 DEF IdsAreUnique
    <2>7. \A u, v \in Writers : \A e \in open'[u], f \in open'[v] : e.id = f.id => e = f /\ u = v
      BY <1>0, <1>1, <2>1, <2>3, <2>4 DEF IdsAreUnique
    <2>. QED
      BY <1>0, <2>2, <2>4, <2>5, <2>6, <2>7 DEF IdsAreUnique
  <1>6. CursorsAreAhead'
    BY DEF IInv, Insert, CursorsAreAhead, CursorIsAhead
  <1>. QED
    BY <1>3, <1>4, <1>5, <1>6 DEF IInv, Insert

LEMMA CommitStep ==
    ASSUME IInv, NEW w \in Writers, Commit(w)
    PROVE  IInv'
  <1>0. TypeOK /\ IdsAreUnique
    BY DEF IInv
  <1>2. /\ log' = log \cup open[w]
        /\ open'[w] = {}
        /\ \A v \in Writers \ {w} : open'[v] = open[v]
    BY <1>0 DEF Commit, TypeOK
  <1>3. TypeOK'
    <2>1. \A e \in open[w] : e.id \in Ids
      BY <1>0 DEF TypeOK, Events
    <2>2. overtaken' \in [Clients -> SUBSET Ids]
      BY <1>0, <2>1 DEF Commit, TypeOK
    <2>. QED
      BY <1>0, <2>2 DEF Commit, TypeOK
  <1>4. Bounded(log)'
    BY <1>0, <1>2, UnionIsBounded DEF IInv, TypeOK
  <1>5. \A v \in Writers : Bounded(open[v])'
    BY <1>2, EmptyIsBounded DEF IInv
  <1>6. IdsAreUnique'
    BY <1>0, <1>2 DEF IdsAreUnique, Commit
  <1>7. CursorsAreAhead'
    BY <1>2 DEF IInv, Commit, CursorsAreAhead, CursorIsAhead
  <1>. QED
    BY <1>3, <1>4, <1>5, <1>6, <1>7 DEF IInv

LEMMA RollbackStep ==
    ASSUME IInv, NEW w \in Writers, Rollback(w)
    PROVE  IInv'
  <1>0. TypeOK /\ IdsAreUnique
    BY DEF IInv
  <1>2. /\ open'[w] = {}
        /\ \A v \in Writers \ {w} : open'[v] = open[v]
    BY <1>0 DEF Rollback, TypeOK
  <1>3. TypeOK'
    BY <1>0 DEF Rollback, TypeOK
  <1>5. \A v \in Writers : Bounded(open[v])'
    BY <1>2, EmptyIsBounded DEF IInv
  <1>6. IdsAreUnique'
    BY <1>0, <1>2 DEF IdsAreUnique, Rollback
  <1>7. CursorsAreAhead'
    BY DEF IInv, Rollback, CursorsAreAhead, CursorIsAhead
  <1>. QED
    BY <1>3, <1>5, <1>6, <1>7 DEF IInv, Rollback

-----------------------------------------------------------------------------
(***************************************************************************)
(* The steps of one client's connection.                                   *)
(***************************************************************************)

\* Such a step leaves the events and the other clients alone.
Alone(c) ==
    /\ UNCHANGED <<inserted, open, log, overtaken>>
    /\ \A d \in Clients \ {c} : conn'[d] = conn[d] /\ last'[d] = last[d] /\ seen'[d] = seen[d]

LEMMA ClientFrame ==
    ASSUME IInv, NEW c \in Clients, Alone(c), TypeOK', CursorIsAhead(c)'
    PROVE  IInv'
  <1>1. \A d \in Clients \ {c} : CursorIsAhead(d)'
    BY DEF IInv, Alone, CursorsAreAhead, CursorIsAhead
  <1>2. CursorsAreAhead'
    BY <1>1 DEF CursorsAreAhead
  <1>. QED
    BY <1>2 DEF IInv, Alone, IdsAreUnique

\* connect: the cursor starts at the resume point, or at the head.
LEMMA ConnectStep ==
    ASSUME IInv, NEW c \in Clients, Connect(c)
    PROVE  IInv'
  <1>0. TypeOK /\ CursorIsAhead(c) /\ Bounded(log)
    BY DEF IInv, CursorsAreAhead
  <1>1. LogHead \in 0..MaxEvents
    BY <1>0, LogHeadIsHead
  <1> DEFINE from   == IF last[c] # 0 THEN last[c] ELSE LogHead
             opened == [Closed EXCEPT !.up = TRUE, !.after = from]
  <1>2. /\ from \in 0..MaxEvents /\ last[c] <= from
        /\ conn' = [conn EXCEPT ![c] = opened]
        /\ since' = [since EXCEPT ![c] = IF last[c] = 0 THEN from ELSE @]
    <2>1. last[c] \in 0..MaxEvents
      BY <1>0 DEF TypeOK
    <2>. QED
      BY <1>1, <2>1, OutboxAssumption DEF Connect
  <1>. HIDE DEF from
  <1>3. TypeOK'
    <2>1. opened \in Handlers
      BY <1>2 DEF Closed, Handlers
    <2>. HIDE DEF opened
    <2>2. conn' \in [Clients -> Handlers]
      BY <1>0, <1>2, <2>1 DEF TypeOK
    <2>3. since' \in [Clients -> -1..MaxEvents]
      BY <1>0, <1>2, OutboxAssumption DEF TypeOK
    <2>. QED
      BY <1>0, <2>2, <2>3 DEF Connect, TypeOK
  <1>4. Alone(c)
    BY <1>0 DEF Connect, TypeOK, Alone
  <1>5. CursorIsAhead(c)'
    BY <1>0, <1>2 DEF Connect, TypeOK, CursorIsAhead, Closed
  <1>. QED
    BY <1>3, <1>4, <1>5, ClientFrame

\* ListAuthorized fills the batch beyond the cursor.
LEMMA ListStep ==
    ASSUME IInv, NEW c \in Clients, List(c)
    PROVE  IInv'
  <1>0. TypeOK /\ CursorIsAhead(c) /\ IsFiniteSet(log)
    BY DEF IInv, CursorsAreAhead, Bounded
  <1>1. \A e \in ListAuthorized(c) : e \in log /\ Authorized(c, e) /\ e.id > conn[c].after
    BY <1>0, ListIsPrefix DEF TypeOK
  <1>2. conn' = [conn EXCEPT ![c].batch = ListAuthorized(c), ![c].waiting = (ListAuthorized(c) = {})]
    BY DEF List
  <1>3. TypeOK'
    <2>1. ListAuthorized(c) \in SUBSET Events /\ (ListAuthorized(c) = {}) \in BOOLEAN
      BY <1>0, <1>1 DEF TypeOK
    <2>2. PICK batch \in SUBSET Events, waiting \in BOOLEAN :
             conn' = [conn EXCEPT ![c].batch = batch, ![c].waiting = waiting]
      BY <1>2, <2>1, Zenon
    <2>3. conn' \in [Clients -> Handlers]
      BY <1>0, <2>2 DEF TypeOK, Handlers
    <2>. QED
      BY <1>0, <2>3 DEF List, TypeOK
  <1>4. Alone(c)
    BY <1>0 DEF List, TypeOK, Alone
  <1>5. CursorIsAhead(c)'
    BY <1>0, <1>1, <1>2 DEF List, TypeOK, CursorIsAhead
  <1>. QED
    BY <1>3, <1>4, <1>5, ClientFrame

\* An event on its way is beyond the cursor, hence new to the client.
LEMMA DeliverEffect ==
    ASSUME IInv, NEW c \in Clients, Deliver(c)
    PROVE  \E e \in conn[c].batch :
              /\ e \in log /\ Authorized(c, e) /\ e.id \notin seen[c]
              /\ e.id > conn[c].after
              /\ \A f \in conn[c].batch : e.id <= f.id
              /\ conn' = [conn EXCEPT ![c].batch = @ \ {e}, ![c].after = e.id]
              /\ seen' = [seen EXCEPT ![c] = IF e.heard THEN @ \cup {e.id} ELSE @]
              /\ last' = [last EXCEPT ![c] = IF e.heard THEN e.id ELSE @]
  <1>0. TypeOK /\ CursorIsAhead(c)
    BY DEF IInv, CursorsAreAhead
  <1>1. PICK e \in conn[c].batch :
          /\ \A f \in conn[c].batch : e.id <= f.id
          /\ conn' = [conn EXCEPT ![c].batch = @ \ {e}, ![c].after = e.id]
          /\ IF e.heard /\ e.id \notin seen[c]
             THEN /\ seen' = [seen EXCEPT ![c] = @ \cup {e.id}]
                  /\ last' = [last EXCEPT ![c] = e.id]
             ELSE UNCHANGED <<seen, last>>
    BY DEF Deliver
  <1>2. e \in log /\ Authorized(c, e) /\ e.id > conn[c].after /\ conn[c].up
    BY <1>0, <1>1 DEF CursorIsAhead
  <1>3. e.id \notin seen[c]
    BY <1>0, <1>2 DEF CursorIsAhead, TypeOK, Handlers, Events, Ids
  <1>4. /\ seen' = [seen EXCEPT ![c] = IF e.heard THEN @ \cup {e.id} ELSE @]
        /\ last' = [last EXCEPT ![c] = IF e.heard THEN e.id ELSE @]
    BY <1>0, <1>1, <1>3 DEF TypeOK
  <1>. QED
    BY <1>1, <1>2, <1>3, <1>4

LEMMA DeliverStep ==
    ASSUME IInv, NEW c \in Clients, Deliver(c)
    PROVE  IInv'
  <1>0. TypeOK /\ CursorIsAhead(c) /\ IdsAreUnique
    BY DEF IInv, CursorsAreAhead
  <1>1. PICK e \in conn[c].batch :
              /\ e \in log /\ Authorized(c, e) /\ e.id \notin seen[c]
              /\ e.id > conn[c].after
              /\ \A f \in conn[c].batch : e.id <= f.id
              /\ conn' = [conn EXCEPT ![c].batch = @ \ {e}, ![c].after = e.id]
              /\ seen' = [seen EXCEPT ![c] = IF e.heard THEN @ \cup {e.id} ELSE @]
              /\ last' = [last EXCEPT ![c] = IF e.heard THEN e.id ELSE @]
    BY DeliverEffect
  <1>2. e \in Events /\ e.id \in 1..MaxEvents
    BY <1>0, <1>1 DEF TypeOK, Events, Ids
  <1>3. TypeOK'
    BY <1>0, <1>1, <1>2 DEF Deliver, TypeOK, Handlers, Ids
  <1>4. Alone(c)
    BY <1>0, <1>1 DEF Deliver, TypeOK, Alone
  <1>5. CursorIsAhead(c)'
    <2>1. /\ conn'[c].up = conn[c].up /\ conn'[c].after = e.id /\ conn'[c].batch = conn[c].batch \ {e}
          /\ log' = log /\ conn[c].up
      BY <1>0, <1>1 DEF Deliver, TypeOK, Handlers
    <2>2. /\ last'[c] = 0 <=> seen'[c] = {}
          /\ \A n \in seen'[c] : n <= last'[c]
          /\ last'[c] <= e.id
      <3>1. CASE e.heard
        <4>1. seen'[c] = seen[c] \cup {e.id} /\ last'[c] = e.id
          BY <1>0, <1>1, <3>1 DEF TypeOK
        <4>. QED
          BY <1>0, <1>1, <1>2, <2>1, <4>1 DEF CursorIsAhead, TypeOK, Handlers, Ids
      <3>2. CASE ~e.heard
        <4>1. seen'[c] = seen[c] /\ last'[c] = last[c]
          BY <1>0, <1>1, <3>2 DEF TypeOK
        <4>. QED
          BY <1>0, <1>1, <1>2, <2>1, <4>1 DEF CursorIsAhead, TypeOK, Handlers, Ids
      <3>. QED
        BY <3>1, <3>2
    <2>3. \A f \in conn'[c].batch : f \in log /\ Authorized(c, f) /\ f.id > e.id
      BY <1>0, <1>1, <1>2, <2>1 DEF CursorIsAhead, TypeOK, IdsAreUnique, Events, Ids
    <2>4. Authorized(c, e)' = Authorized(c, e) /\ \A f : Authorized(c, f)' = Authorized(c, f)
      BY DEF Authorized
    <2>. QED
      BY <1>2, <2>1, <2>2, <2>3, <2>4 DEF CursorIsAhead
  <1>. QED
    BY <1>3, <1>4, <1>5, ClientFrame

\* A handler that ends keeps nothing: the client's resume point is its own.
LEMMA CloseStep ==
    ASSUME IInv, NEW c \in Clients, conn' = [conn EXCEPT ![c] = Closed], drops' \in 0..MaxDrops,
           UNCHANGED <<inserted, open, log, overtaken, revoked, last, seen, stopped, since>>
    PROVE  IInv'
  <1>0. TypeOK /\ CursorIsAhead(c)
    BY DEF IInv, CursorsAreAhead
  <1>1. TypeOK'
    <2>1. Closed \in Handlers
      BY OutboxAssumption DEF Closed, Handlers
    <2>. QED
      BY <1>0, <2>1 DEF TypeOK
  <1>2. Alone(c)
    BY <1>0 DEF TypeOK, Alone
  <1>3. CursorIsAhead(c)'
    BY <1>0 DEF TypeOK, CursorIsAhead, Closed
  <1>. QED
    BY <1>1, <1>2, <1>3, ClientFrame

\* What the select and the ticker change of a handler is neither its cursor nor
\* its batch.
LEMMA SelectStep ==
    ASSUME IInv, NEW c \in Clients, NEW waiting \in BOOLEAN, NEW due \in BOOLEAN,
           conn' = [conn EXCEPT ![c].waiting = waiting, ![c].due = due],
           UNCHANGED <<inserted, open, log, overtaken, revoked, last, seen, stopped, since, drops>>
    PROVE  IInv'
  <1>0. TypeOK /\ CursorIsAhead(c)
    BY DEF IInv, CursorsAreAhead
  <1>1. TypeOK'
    BY <1>0 DEF TypeOK, Handlers
  <1>2. Alone(c)
    BY <1>0 DEF TypeOK, Alone
  <1>3. /\ conn'[c].up = conn[c].up /\ conn'[c].after = conn[c].after /\ conn'[c].batch = conn[c].batch
        /\ UNCHANGED <<log, last, seen>>
    BY <1>0 DEF TypeOK
  <1>4. CursorIsAhead(c)'
    BY <1>0, <1>3 DEF CursorIsAhead, Authorized
  <1>. QED
    BY <1>1, <1>2, <1>4, ClientFrame

\* Each select step is one of the two.
LEMMA SelectCases ==
    ASSUME TypeOK, NEW c \in Clients, Revalidate(c) \/ Heartbeat(c) \/ Tick(c)
    PROVE  /\ UNCHANGED <<inserted, open, log, overtaken, revoked, last, seen, stopped, since, drops>>
           /\ \/ conn' = [conn EXCEPT ![c] = Closed]
              \/ \E waiting, due \in BOOLEAN :
                    conn' = [conn EXCEPT ![c].waiting = waiting, ![c].due = due]
  <1>0. conn \in [Clients -> Handlers] /\ conn[c].waiting \in BOOLEAN /\ conn[c].due \in BOOLEAN
    BY DEF TypeOK, Handlers
  <1>1. CASE Revalidate(c)
    BY <1>0, <1>1 DEF Revalidate
  <1>2. CASE Heartbeat(c)
    <2>1. conn' = [conn EXCEPT ![c].waiting = FALSE, ![c].due = conn[c].due]
      BY <1>0, <1>2 DEF Heartbeat
    <2>. QED
      BY <1>0, <1>2, <2>1, Zenon DEF Heartbeat
  <1>3. CASE Tick(c)
    <2>1. conn' = [conn EXCEPT ![c].waiting = conn[c].waiting, ![c].due = TRUE]
      BY <1>0, <1>3 DEF Tick
    <2>. QED
      BY <1>0, <1>3, <2>1, Zenon DEF Tick
  <1>. QED
    BY <1>1, <1>2, <1>3

LEMMA InvStep == IInv /\ [Next]_vars => IInv'
  <1> SUFFICES ASSUME IInv, [Next]_vars PROVE IInv'
    OBVIOUS
  <1>0. TypeOK
    BY DEF IInv
  <1>1. ASSUME NEW u \in Users, Revoke(u) PROVE IInv'
    BY <1>0, <1>1 DEF IInv, Revoke, TypeOK, IdsAreUnique, CursorsAreAhead, CursorIsAhead, Bounded, IsHead
  <1>2. ASSUME NEW c \in Clients, Drop(c) PROVE IInv'
    <2>1. drops' \in 0..MaxDrops
      BY <1>0, <1>2, OutboxAssumption DEF Drop, TypeOK
    <2>. QED
      BY <1>2, <2>1, CloseStep DEF Drop
  <1>3. ASSUME NEW c \in Clients, Revalidate(c) \/ Heartbeat(c) \/ Tick(c) PROVE IInv'
    <2>1. UNCHANGED <<inserted, open, log, overtaken, revoked, last, seen, stopped, since, drops>>
      BY <1>0, <1>3, SelectCases
    <2>2. drops' \in 0..MaxDrops
      BY <1>0, <2>1 DEF TypeOK
    <2>3. CASE conn' = [conn EXCEPT ![c] = Closed]
      BY <2>1, <2>2, <2>3, CloseStep
    <2>4. CASE \E waiting, due \in BOOLEAN :
                  conn' = [conn EXCEPT ![c].waiting = waiting, ![c].due = due]
      <3>1. PICK waiting \in BOOLEAN, due \in BOOLEAN :
               conn' = [conn EXCEPT ![c].waiting = waiting, ![c].due = due]
        BY <2>4
      <3>. QED
        BY <2>1, <3>1, SelectStep
    <2>. QED
      BY <1>0, <1>3, <2>3, <2>4, SelectCases
  <1>4. ASSUME NEW c \in Clients, Refuse(c) \/ Start(c) PROVE IInv'
    BY <1>0, <1>4 DEF Refuse, Start, IInv, TypeOK, IdsAreUnique, CursorsAreAhead, CursorIsAhead,
                      Authorized, Bounded, IsHead
  <1>5. CASE UNCHANGED vars
    BY <1>0, <1>5 DEF vars, IInv, TypeOK, IdsAreUnique, CursorsAreAhead, CursorIsAhead, Bounded, IsHead
  <1>. QED
    BY <1>1, <1>2, <1>3, <1>4, <1>5, InsertStep, CommitStep, RollbackStep, ConnectStep, ListStep, DeliverStep
    DEF Next, Stream

-----------------------------------------------------------------------------
\* Whichever transactions are open and whichever connections are lost, identifiers stay
\* unique and every cursor stays ahead of what its client has seen (events.Insert, List).
THEOREM Invariance == Spec => []IInv
  BY InvInit, InvStep, PTL DEF Spec

\* Nothing on its way to a client has been applied by it, for any number of
\* writers, clients and lost connections (NothingIsSentAgain).
THEOREM SentOnce == Spec => []NothingIsSentAgain
  <1>1. IInv => NothingIsSentAgain
    <2> SUFFICES ASSUME IInv, NEW c \in Clients, NEW e \in conn[c].batch
                 PROVE  e.id \notin seen[c] /\ e.id > last[c]
      BY DEF NothingIsSentAgain
    <2>1. TypeOK /\ CursorIsAhead(c)
      BY DEF IInv, CursorsAreAhead
    <2>2. e \in Events /\ conn[c].up /\ e.id > conn[c].after /\ last[c] <= conn[c].after
      BY <2>1 DEF CursorIsAhead, TypeOK
    <2>3. e.id \in Nat /\ conn[c].after \in Nat /\ last[c] \in Nat /\ seen[c] \in SUBSET Nat
      BY <2>1, <2>2 DEF TypeOK, Handlers, Events, Ids
    <2>. QED
      BY <2>1, <2>2, <2>3 DEF CursorIsAhead
  <1>. QED
    BY <1>1, Invariance, PTL

-----------------------------------------------------------------------------
(***************************************************************************)
(* The outbox implements EventFeed.                                        *)
(***************************************************************************)

\* A cursor or a resume point that has moved since the client subscribed stands on
\* a committed event of the client's own: what becomes visible behind it was
\* overtaken by that event.
StandsOn(c, n) == \E g \in log : Authorized(c, g) /\ g.id = n

\* Between the point a client subscribed at and its cursor it has applied
\* everything of its own that was not overtaken, and a batch leaves out nothing
\* before its last event but what was.
NothingIsSkipped(c) ==
    /\ last[c] # 0 \/ conn[c].up => since[c] # -1
    /\ last[c] # 0 => since[c] <= last[c] /\ StandsOn(c, last[c])
    /\ conn[c].up => since[c] <= conn[c].after
    /\ conn[c].up /\ since[c] # conn[c].after => StandsOn(c, conn[c].after)
    /\ \A f \in log :
          /\ Authorized(c, f) /\ f.heard
          /\ f.id \notin overtaken[c]
          /\ since[c] < f.id
          /\ f.id <= last[c] \/ (conn[c].up /\ f.id <= conn[c].after)
          => f.id \in seen[c]
    /\ \A e \in conn[c].batch, f \in log :
          /\ Authorized(c, f)
          /\ f.id \notin overtaken[c]
          /\ conn[c].after < f.id /\ f.id < e.id
          => f \in conn[c].batch

FeedInv == \A c \in Clients : NothingIsSkipped(c)

LEMMA FeedInit == Init => FeedInv
  BY OutboxAssumption DEF Init, FeedInv, NothingIsSkipped, Closed

\* A step that commits nothing and leaves a client's connection, resume point and
\* subscription alone skips nothing of it.
LEMMA FeedSame ==
    ASSUME NEW d \in Clients, NothingIsSkipped(d), UNCHANGED <<log, overtaken>>,
           conn'[d] = conn[d], last'[d] = last[d], seen'[d] = seen[d], since'[d] = since[d]
    PROVE  NothingIsSkipped(d)'
  BY DEF NothingIsSkipped, StandsOn, Authorized

\* What a commit makes visible behind a cursor, a resume point or an event of a
\* batch is overtaken by the event that stands there.
LEMMA FeedCommit ==
    ASSUME IInv, FeedInv, NEW w \in Writers, Commit(w)
    PROVE  FeedInv'
  <1>0. TypeOK /\ IdsAreUnique
    BY DEF IInv
  <1>1. UNCHANGED <<conn, last, seen, since>> /\ log' = log \cup open[w]
    BY DEF Commit
  <1> SUFFICES ASSUME NEW c \in Clients PROVE NothingIsSkipped(c)'
    BY DEF FeedInv
  <1>2. NothingIsSkipped(c) /\ CursorIsAhead(c)
    BY DEF FeedInv, IInv, CursorsAreAhead
  <1>3. overtaken[c] \subseteq overtaken'[c]
    BY <1>0 DEF Commit, TypeOK
  <1>4. \A o \in open[w], f \in log : Authorized(c, f) /\ o.id < f.id => o.id \in overtaken'[c]
    BY <1>0 DEF Commit, TypeOK
  <1>5. /\ last[c] \in Nat /\ conn[c].after \in Nat /\ since[c] \in Int
        /\ \A f \in open[w] : f.id \in Nat
        /\ \A f \in log : f.id \in Nat
        /\ \A o \in open[w], f \in log : o.id # f.id
    BY <1>0 DEF TypeOK, Handlers, Events, Ids, IdsAreUnique
  <1>6. \A n : StandsOn(c, n) => StandsOn(c, n)'
    BY <1>1 DEF StandsOn, Authorized
  <1>7. \A o \in open[w], n \in Nat : StandsOn(c, n) /\ o.id <= n => o.id \in overtaken'[c]
    BY <1>4, <1>5 DEF StandsOn
  <1>8. \A o \in open[w] :
           /\ since[c] < o.id
           /\ o.id <= last[c] \/ (conn[c].up /\ o.id <= conn[c].after)
           => o.id \in overtaken'[c]
    <2> SUFFICES ASSUME NEW o \in open[w], since[c] < o.id,
                        o.id <= last[c] \/ (conn[c].up /\ o.id <= conn[c].after)
                 PROVE  o.id \in overtaken'[c]
      OBVIOUS
    <2>1. CASE o.id <= last[c]
      <3>1. last[c] # 0
        BY <1>0, <2>1 DEF TypeOK, Events, Ids
      <3>. QED
        BY <1>2, <1>5, <1>7, <2>1, <3>1 DEF NothingIsSkipped
    <2>2. CASE conn[c].up /\ o.id <= conn[c].after
      <3>1. since[c] # conn[c].after
        BY <1>5, <2>2
      <3>. QED
        BY <1>2, <1>5, <1>7, <2>2, <3>1 DEF NothingIsSkipped
    <2>. QED
      BY <2>1, <2>2
  <1>9. \A o \in open[w], e \in conn[c].batch : o.id < e.id => o.id \in overtaken'[c]
    BY <1>2, <1>4 DEF CursorIsAhead
  <1>10. \A f : Authorized(c, f)' = Authorized(c, f)
    BY DEF Authorized
  <1>11. \A f \in log' :
            /\ Authorized(c, f) /\ f.heard
            /\ f.id \notin overtaken'[c]
            /\ since[c] < f.id
            /\ f.id <= last[c] \/ (conn[c].up /\ f.id <= conn[c].after)
            => f.id \in seen[c]
    BY <1>1, <1>2, <1>3, <1>8 DEF NothingIsSkipped
  <1>12. \A e \in conn[c].batch, f \in log' :
            /\ Authorized(c, f)
            /\ f.id \notin overtaken'[c]
            /\ conn[c].after < f.id /\ f.id < e.id
            => f \in conn[c].batch
    BY <1>1, <1>2, <1>3, <1>9 DEF NothingIsSkipped
  <1>. QED
    BY <1>1, <1>2, <1>6, <1>10, <1>11, <1>12 DEF NothingIsSkipped

\* A step of one client's connection needs to be looked at for that client only.
LEMMA FeedFrame ==
    ASSUME FeedInv, NEW c \in Clients, Alone(c),
           \A d \in Clients \ {c} : since'[d] = since[d],
           NothingIsSkipped(c)'
    PROVE  FeedInv'
  <1>1. \A d \in Clients \ {c} : NothingIsSkipped(d)'
    BY FeedSame DEF FeedInv, Alone
  <1>. QED
    BY <1>1 DEF FeedInv

LEMMA FeedConnect ==
    ASSUME IInv, FeedInv, NEW c \in Clients, Connect(c)
    PROVE  FeedInv'
  <1>0. TypeOK /\ CursorIsAhead(c) /\ NothingIsSkipped(c)
    BY DEF IInv, FeedInv, CursorsAreAhead
  <1>1. LogHead \in 0..MaxEvents /\ IsHead(LogHead, log)
    BY LogHeadIsHead DEF IInv
  <1> DEFINE from == IF last[c] # 0 THEN last[c] ELSE LogHead
  <1>2. /\ conn'[c].up /\ conn'[c].after = from /\ conn'[c].batch = {}
        /\ since'[c] = IF last[c] = 0 THEN from ELSE since[c]
        /\ last' = last /\ seen' = seen /\ log' = log /\ overtaken' = overtaken
    BY <1>0 DEF Connect, TypeOK, Closed
  <1>3. Alone(c) /\ \A d \in Clients \ {c} : since'[d] = since[d]
    BY <1>0 DEF Connect, TypeOK, Alone
  <1>4. /\ last[c] \in Nat /\ since[c] \in Int
        /\ \A f \in log : f.id \in Nat \ {0}
    BY <1>0 DEF TypeOK, Events, Ids
  <1>5. NothingIsSkipped(c)'
    <2>1. CASE last[c] = 0
      <3>1. \A f \in log : f.id <= LogHead
        BY <1>1 DEF IsHead
      <3>. QED
        BY <1>1, <1>2, <1>4, <2>1, <3>1 DEF NothingIsSkipped
    <2>2. CASE last[c] # 0
      BY <1>0, <1>2, <1>4, <2>2 DEF NothingIsSkipped, StandsOn, Authorized
    <2>. QED
      BY <2>1, <2>2
  <1>. QED
    BY <1>3, <1>5, FeedFrame

LEMMA FeedList ==
    ASSUME IInv, FeedInv, NEW c \in Clients, List(c)
    PROVE  FeedInv'
  <1>0. TypeOK /\ NothingIsSkipped(c) /\ IsFiniteSet(log)
    BY DEF IInv, FeedInv, Bounded
  <1>1. /\ conn'[c].up = conn[c].up /\ conn'[c].after = conn[c].after
        /\ conn'[c].batch = ListAuthorized(c)
        /\ last' = last /\ seen' = seen /\ log' = log /\ since' = since /\ overtaken' = overtaken
    BY <1>0 DEF List, TypeOK, Handlers
  <1>2. Alone(c)
    BY <1>0 DEF List, TypeOK, Alone
  <1>3. \A e \in ListAuthorized(c), f \in log :
           Authorized(c, f) /\ conn[c].after < f.id /\ f.id < e.id => f \in ListAuthorized(c)
    BY <1>0, ListIsPrefix DEF TypeOK
  <1>4. NothingIsSkipped(c)'
    BY <1>0, <1>1, <1>3 DEF NothingIsSkipped, StandsOn, Authorized
  <1>. QED
    BY <1>1, <1>2, <1>4, FeedFrame

\* The cursor moves over the next event of the client's own.
LEMMA FeedDeliver ==
    ASSUME IInv, FeedInv, NEW c \in Clients, Deliver(c)
    PROVE  FeedInv'
  <1>0. TypeOK /\ IdsAreUnique /\ CursorIsAhead(c) /\ NothingIsSkipped(c)
    BY DEF IInv, FeedInv, CursorsAreAhead
  <1>1. PICK e \in conn[c].batch :
              /\ e \in log /\ Authorized(c, e) /\ e.id \notin seen[c]
              /\ e.id > conn[c].after
              /\ \A f \in conn[c].batch : e.id <= f.id
              /\ conn' = [conn EXCEPT ![c].batch = @ \ {e}, ![c].after = e.id]
              /\ seen' = [seen EXCEPT ![c] = IF e.heard THEN @ \cup {e.id} ELSE @]
              /\ last' = [last EXCEPT ![c] = IF e.heard THEN e.id ELSE @]
    BY DeliverEffect
  <1>2. /\ conn'[c].up = conn[c].up /\ conn'[c].after = e.id /\ conn'[c].batch = conn[c].batch \ {e}
        /\ log' = log /\ since' = since /\ overtaken' = overtaken /\ conn[c].up
    BY <1>0, <1>1 DEF Deliver, TypeOK, Handlers
  <1>3. Alone(c)
    BY <1>0, <1>1 DEF Deliver, TypeOK, Alone
  <1>4. /\ e.id \in Nat \ {0} /\ conn[c].after \in Nat /\ since[c] \in Int /\ last[c] \in Nat
        /\ \A f \in log : f.id \in Nat
    BY <1>0, <1>1 DEF TypeOK, Handlers, Events, Ids
  <1>5. /\ last'[c] = last[c] \/ last'[c] = e.id
        /\ seen[c] \subseteq seen'[c]
        /\ e.heard => e.id \in seen'[c]
        /\ last[c] <= conn[c].after
    BY <1>0, <1>1, <1>2 DEF TypeOK, CursorIsAhead
  <1>6. since[c] # -1 /\ since[c] <= e.id
    BY <1>0, <1>1, <1>2, <1>4 DEF NothingIsSkipped
  <1>7. ASSUME NEW f \in log, Authorized(c, f), f.heard, f.id \notin overtaken[c],
               since[c] < f.id, f.id <= e.id
        PROVE  f.id \in seen'[c]
    <2>1. CASE f.id <= conn[c].after
      BY <1>0, <1>2, <1>5, <1>7, <2>1 DEF NothingIsSkipped
    <2>2. CASE f.id = e.id
      <3>1. f = e
        BY <1>0, <1>1, <2>2 DEF IdsAreUnique
      <3>. QED
        BY <1>5, <1>7, <3>1
    <2>3. CASE conn[c].after < f.id /\ f.id < e.id
      <3>1. f \in conn[c].batch
        BY <1>0, <1>7, <2>3 DEF NothingIsSkipped
      <3>. QED
        BY <1>1, <1>4, <2>3, <3>1
    <2>. QED
      BY <1>4, <1>7, <2>1, <2>2, <2>3
  <1>8. ASSUME NEW g \in conn'[c].batch, NEW f \in log, Authorized(c, f), f.id \notin overtaken[c],
               e.id < f.id, f.id < g.id
        PROVE  f \in conn'[c].batch
    <2>1. g \in conn[c].batch /\ f # e /\ conn[c].after < f.id
      <3>1. e.id \in Nat /\ f.id \in Nat /\ conn[c].after < e.id
        BY <1>1, <1>4
      <3>. QED
        BY <1>2, <1>4, <1>8, <3>1
    <2>2. f \in conn[c].batch
      BY <1>0, <1>8, <2>1 DEF NothingIsSkipped
    <2>. QED
      BY <1>2, <2>1, <2>2
  <1>9. StandsOn(c, e.id)
    BY <1>1 DEF StandsOn
  <1>10. /\ \A n : StandsOn(c, n)' = StandsOn(c, n)
         /\ \A f : Authorized(c, f)' = Authorized(c, f)
    BY <1>2 DEF StandsOn, Authorized
  <1>11. last'[c] <= e.id /\ (last'[c] # 0 => since[c] <= last'[c] /\ StandsOn(c, last'[c]))
    BY <1>0, <1>1, <1>4, <1>5, <1>6, <1>9 DEF NothingIsSkipped
  <1>12. \A f \in log :
            /\ Authorized(c, f) /\ f.heard
            /\ f.id \notin overtaken[c]
            /\ since[c] < f.id
            /\ f.id <= last'[c] \/ f.id <= e.id
            => f.id \in seen'[c]
    <2>1. last'[c] \in Nat
      BY <1>4, <1>5
    <2>2. \A f \in log : f.id <= last'[c] \/ f.id <= e.id => f.id <= e.id
      BY <1>4, <1>11, <2>1
    <2>. QED
      BY <1>7, <2>2
  <1>13. NothingIsSkipped(c)'
    BY <1>2, <1>6, <1>8, <1>9, <1>10, <1>11, <1>12 DEF NothingIsSkipped
  <1>. QED
    BY <1>2, <1>3, <1>13, FeedFrame

LEMMA FeedClose ==
    ASSUME IInv, FeedInv, NEW c \in Clients, conn' = [conn EXCEPT ![c] = Closed],
           UNCHANGED <<inserted, open, log, overtaken, last, seen, since>>
    PROVE  FeedInv'
  <1>0. TypeOK /\ NothingIsSkipped(c)
    BY DEF IInv, FeedInv
  <1>1. conn'[c] = Closed
    BY <1>0 DEF TypeOK
  <1>2. Alone(c)
    BY <1>0 DEF TypeOK, Alone
  <1>3. NothingIsSkipped(c)'
    BY <1>0, <1>1 DEF NothingIsSkipped, StandsOn, Authorized, Closed
  <1>. QED
    BY <1>2, <1>3, FeedFrame

LEMMA FeedSelect ==
    ASSUME IInv, FeedInv, NEW c \in Clients, NEW waiting \in BOOLEAN, NEW due \in BOOLEAN,
           conn' = [conn EXCEPT ![c].waiting = waiting, ![c].due = due],
           UNCHANGED <<inserted, open, log, overtaken, last, seen, since>>
    PROVE  FeedInv'
  <1>0. TypeOK /\ NothingIsSkipped(c)
    BY DEF IInv, FeedInv
  <1>1. conn'[c].up = conn[c].up /\ conn'[c].after = conn[c].after /\ conn'[c].batch = conn[c].batch
    BY <1>0 DEF TypeOK
  <1>2. Alone(c)
    BY <1>0 DEF TypeOK, Alone
  <1>3. NothingIsSkipped(c)'
    BY <1>0, <1>1 DEF NothingIsSkipped, StandsOn, Authorized
  <1>. QED
    BY <1>2, <1>3, FeedFrame

LEMMA FeedStep ==
    ASSUME IInv, FeedInv, [Next]_vars
    PROVE  FeedInv'
  <1>0. TypeOK
    BY DEF IInv
  <1>1. ASSUME UNCHANGED <<log, overtaken, conn, last, seen, since>> PROVE FeedInv'
    BY <1>1, FeedSame DEF FeedInv
  <1>2. ASSUME NEW c \in Clients, Drop(c) PROVE FeedInv'
    BY <1>2, FeedClose DEF Drop
  <1>3. ASSUME NEW c \in Clients, Revalidate(c) \/ Heartbeat(c) \/ Tick(c) PROVE FeedInv'
    <2>1. UNCHANGED <<inserted, open, log, overtaken, last, seen, since>>
      BY <1>0, <1>3, SelectCases
    <2>2. CASE conn' = [conn EXCEPT ![c] = Closed]
      BY <2>1, <2>2, FeedClose
    <2>3. CASE \E waiting, due \in BOOLEAN :
                  conn' = [conn EXCEPT ![c].waiting = waiting, ![c].due = due]
      <3>1. PICK waiting \in BOOLEAN, due \in BOOLEAN :
               conn' = [conn EXCEPT ![c].waiting = waiting, ![c].due = due]
        BY <2>3
      <3>. QED
        BY <2>1, <3>1, FeedSelect
    <2>. QED
      BY <1>0, <1>3, <2>2, <2>3, SelectCases
  <1>4. CASE UNCHANGED vars
    BY <1>1, <1>4 DEF vars
  <1>5. ASSUME NEW w \in Writers, NEW kind \in Kinds, Insert(w, kind) PROVE FeedInv'
    BY <1>1, <1>5 DEF Insert
  <1>6. ASSUME NEW w \in Writers, Rollback(w) PROVE FeedInv'
    BY <1>1, <1>6 DEF Rollback
  <1>7. ASSUME NEW u \in Users, Revoke(u) PROVE FeedInv'
    BY <1>1, <1>7 DEF Revoke
  <1>8. ASSUME NEW c \in Clients, Refuse(c) \/ Start(c) PROVE FeedInv'
    BY <1>1, <1>8 DEF Refuse, Start
  <1>. QED
    BY <1>2, <1>3, <1>4, <1>5, <1>6, <1>7, <1>8, FeedCommit, FeedConnect, FeedList, FeedDeliver
    DEF Next, Stream

-----------------------------------------------------------------------------
\* The clients shut out for good: the abstract feed's gone.
Gone == {c \in Clients : UserOf[c] \in revoked /\ ~conn[c].up}

LEMMA InitImplements == Init => Feed!Init
  BY DEF Init, Feed!Init, Closed

\* A commit publishes its events, whatever has been published before them.
LEMMA CommitImplements ==
    ASSUME IInv, NEW w \in Writers, Commit(w)
    PROVE  Feed!Next
  <1>1. open[w] \in SUBSET Events /\ log \in SUBSET Events /\ log' = log \cup open[w]
    BY DEF IInv, TypeOK, Commit
  <1>2. log' \ log = open[w]
    BY <1>1 DEF IInv, IdsAreUnique
  <1>3. overtaken' = [c \in Clients |-> overtaken[c] \cup
           {e.id : e \in {b \in log' \ log : \E f \in log : Authorized(c, f) /\ b.id < f.id}}]
    BY <1>2 DEF Commit
  <1>4. UNCHANGED <<since, seen, Gone>>
    BY DEF Commit, Gone
  <1>5. Feed!Publish
    BY <1>1, <1>3, <1>4 DEF Feed!Publish, Gone
  <1>. QED
    BY <1>5 DEF Feed!Next

\* A revocation shuts out the clients that are not connected.
LEMMA RevokeImplements ==
    ASSUME NEW u \in Users, Revoke(u)
    PROVE  Feed!Next
  <1>1. Gone' \in SUBSET Clients /\ Gone \subseteq Gone'
    BY DEF Gone, Revoke
  <1>2. Feed!Leave
    BY <1>1 DEF Feed!Leave, Gone, Revoke
  <1>. QED
    BY <1>2 DEF Feed!Next

\* A handler that ends may shut its client out.
LEMMA CloseImplements ==
    ASSUME TypeOK, NEW c \in Clients, conn' = [conn EXCEPT ![c] = Closed],
           UNCHANGED <<log, overtaken, revoked, seen, since>>
    PROVE  Feed!Next
  <1>0. \A d \in Clients : ~conn[d].up => ~conn'[d].up
    BY DEF TypeOK, Closed
  <1>1. Gone' \in SUBSET Clients /\ Gone \subseteq Gone'
    BY <1>0 DEF Gone
  <1>2. Feed!Leave
    BY <1>1 DEF Feed!Leave, Gone
  <1>. QED
    BY <1>2 DEF Feed!Next

\* A connection without a resume point subscribes at the head; with one it
\* changes nothing the feed speaks of.
LEMMA ConnectImplements ==
    ASSUME IInv, NEW c \in Clients, Connect(c)
    PROVE  Feed!Next \/ UNCHANGED Feed!vars
  <1>0. TypeOK /\ CursorIsAhead(c) /\ UserOf[c] \notin revoked
    BY DEF IInv, CursorsAreAhead, Connect
  <1>1. c \notin Gone /\ Gone' = Gone
    <2>1. \A d \in Clients \ {c} : conn'[d] = conn[d]
      BY <1>0 DEF Connect, TypeOK
    <2>. QED
      BY <1>0, <2>1 DEF Gone, Connect
  <1>2. UNCHANGED <<log, overtaken, seen>>
    BY DEF Connect
  <1>3. CASE last[c] # 0
    <2>1. since' = since
      BY <1>0, <1>3 DEF Connect, TypeOK
    <2>. QED
      BY <1>1, <1>2, <2>1 DEF Feed!vars, Gone
  <1>4. CASE last[c] = 0
    <2>1. since' = [since EXCEPT ![c] = LogHead]
      BY <1>4 DEF Connect
    <2>2. seen[c] = {}
      BY <1>0, <1>4 DEF CursorIsAhead
    <2>3. LogHead \in {e.id : e \in log} \cup {0} /\ \A e \in log : e.id <= LogHead
      BY LogHeadIsHead DEF IInv, IsHead
    <2>4. Feed!Subscribe(c)
      BY <1>1, <1>2, <2>1, <2>2, <2>3 DEF Feed!Subscribe, Gone
    <2>. QED
      BY <2>4 DEF Feed!Next
  <1>. QED
    BY <1>3, <1>4

\* A delivery applies the next event of the client's own; one the client does not
\* listen for changes nothing the feed speaks of.
LEMMA DeliverImplements ==
    ASSUME IInv, FeedInv, NEW c \in Clients, Deliver(c)
    PROVE  Feed!Next \/ UNCHANGED Feed!vars
  <1>0. TypeOK /\ CursorIsAhead(c) /\ NothingIsSkipped(c) /\ conn[c].up
    BY DEF IInv, CursorsAreAhead, FeedInv, Deliver
  <1>1. PICK e \in conn[c].batch :
              /\ e \in log /\ Authorized(c, e) /\ e.id \notin seen[c]
              /\ e.id > conn[c].after
              /\ \A f \in conn[c].batch : e.id <= f.id
              /\ conn' = [conn EXCEPT ![c].batch = @ \ {e}, ![c].after = e.id]
              /\ seen' = [seen EXCEPT ![c] = IF e.heard THEN @ \cup {e.id} ELSE @]
              /\ last' = [last EXCEPT ![c] = IF e.heard THEN e.id ELSE @]
    BY DeliverEffect
  <1>2. /\ e.id \in Nat /\ conn[c].after \in Nat /\ since[c] \in Int /\ last[c] \in Nat
        /\ \A f \in log : f.id \in Nat
        /\ \A n \in seen[c] : n \in Nat
    BY <1>0, <1>1 DEF TypeOK, Handlers, Events, Ids
  <1>3. c \notin Gone /\ Gone' = Gone
    <2>1. \A d \in Clients : conn'[d].up = conn[d].up
      BY <1>0, <1>1 DEF TypeOK
    <2>. QED
      BY <1>0, <2>1 DEF Gone, Deliver
  <1>4. UNCHANGED <<log, overtaken, since>>
    BY DEF Deliver
  <1>5. CASE ~e.heard
    <2>1. seen' = seen
      BY <1>0, <1>1, <1>5 DEF TypeOK
    <2>. QED
      BY <1>3, <1>4, <2>1 DEF Feed!vars, Gone
  <1>6. CASE e.heard
    <2>1. seen' = [seen EXCEPT ![c] = @ \cup {e.id}]
      BY <1>1, <1>6
    <2>2. since[c] # -1 /\ e.id > since[c]
      BY <1>0, <1>1, <1>2 DEF NothingIsSkipped
    <2>3. \A n \in seen[c] : n < e.id
      BY <1>0, <1>1, <1>2 DEF CursorIsAhead
    <2>4. e \in {f \in Events : f.heard}
      BY <1>0, <1>1, <1>6 DEF TypeOK
    <2>5. ASSUME NEW f \in log, f.id > since[c], f.id \notin seen[c], Authorized(c, f), f.heard,
                 f.id < e.id
          PROVE  f.id \in overtaken[c]
      <3>1. SUFFICES ASSUME f.id \notin overtaken[c] PROVE FALSE
        OBVIOUS
      <3>2. ~(f.id <= conn[c].after)
        BY <1>0, <1>2, <2>5, <3>1 DEF NothingIsSkipped
      <3>3. f \in conn[c].batch
        BY <1>0, <1>2, <2>5, <3>1, <3>2 DEF NothingIsSkipped
      <3>. QED
        BY <1>1, <1>2, <2>5, <3>3
    <2>6. Feed!Apply(c)
      BY <1>1, <1>3, <1>4, <2>1, <2>2, <2>3, <2>4, <2>5 DEF Feed!Apply, Gone
    <2>. QED
      BY <2>6 DEF Feed!Next
  <1>. QED
    BY <1>5, <1>6

LEMMA StepImplements ==
    ASSUME IInv, FeedInv, [Next]_vars
    PROVE  [Feed!Next]_(Feed!vars)
  <1>0. TypeOK
    BY DEF IInv
  <1>1. ASSUME NEW w \in Writers, NEW kind \in Kinds, Insert(w, kind) PROVE UNCHANGED Feed!vars
    BY <1>1 DEF Insert, Feed!vars
  <1>2. ASSUME NEW w \in Writers, Rollback(w) PROVE UNCHANGED Feed!vars
    BY <1>2 DEF Rollback, Feed!vars
  <1>3. ASSUME NEW c \in Clients, List(c) PROVE UNCHANGED Feed!vars
    <2>1. \A d \in Clients : conn'[d].up = conn[d].up
      BY <1>0, <1>3 DEF List, TypeOK
    <2>. QED
      BY <1>3, <2>1 DEF List, Feed!vars
  <1>4. ASSUME NEW c \in Clients, Drop(c) PROVE Feed!Next
    BY <1>0, <1>4, CloseImplements DEF Drop
  <1>5. ASSUME NEW c \in Clients, Revalidate(c) \/ Heartbeat(c) \/ Tick(c)
        PROVE  Feed!Next \/ UNCHANGED Feed!vars
    <2>1. UNCHANGED <<log, overtaken, revoked, seen, since>>
      BY <1>0, <1>5, SelectCases
    <2>2. CASE conn' = [conn EXCEPT ![c] = Closed]
      BY <1>0, <2>1, <2>2, CloseImplements
    <2>3. CASE \E waiting, due \in BOOLEAN :
                  conn' = [conn EXCEPT ![c].waiting = waiting, ![c].due = due]
      <3>1. \A d \in Clients : conn'[d].up = conn[d].up
        BY <1>0, <2>3 DEF TypeOK
      <3>. QED
        BY <2>1, <3>1 DEF Feed!vars
    <2>. QED
      BY <1>0, <1>5, <2>2, <2>3, SelectCases
  <1>6. ASSUME NEW c \in Clients, Refuse(c) \/ Start(c) PROVE UNCHANGED Feed!vars
    BY <1>6 DEF Refuse, Start, Feed!vars
  <1>7. CASE UNCHANGED vars
    BY <1>7 DEF vars, Feed!vars
  <1>. QED
    BY <1>1, <1>2, <1>3, <1>4, <1>5, <1>6, <1>7, CommitImplements, RevokeImplements,
       ConnectImplements, DeliverImplements
    DEF Next, Stream

\* However many transactions write at once, over any number of polls, batches,
\* lost and refused connections and resumed cursors, a client applies the next
\* event of its own, skips none but those that became visible behind a newer one
\* it could read, and applies none once it has been shut out (DeliversTheFeed;
\* events.Insert, ListAuthorized and the stream handler).
THEOREM OutboxImplementsFeed == Spec => DeliversTheFeed
  <1>1. IInv /\ FeedInv /\ [Next]_vars => FeedInv'
    BY FeedStep
  <1>2. Spec => []FeedInv
    BY <1>1, FeedInit, Invariance, PTL DEF Spec
  <1>3. IInv /\ FeedInv /\ [Next]_vars => [Feed!Next]_(Feed!vars)
    BY StepImplements
  <1>4. Spec => Feed!Spec
    BY <1>2, <1>3, InitImplements, Invariance, PTL DEF Spec, Feed!Spec
  <1>. QED
    BY <1>4 DEF DeliversTheFeed
=============================================================================

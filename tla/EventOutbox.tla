---------------------------- MODULE EventOutbox ----------------------------
(***************************************************************************)
(* The durable client-event outbox and the streams that replay it          *)
(* (internal/events, internal/api/events.go, src/services/events.ts).      *)
(*                                                                         *)
(* A writer inserts events inside the transaction of the change they       *)
(* report.  The identity column hands out an identifier at the insert; the *)
(* row becomes visible at the commit.  A stream reads the visible rows     *)
(* after its cursor, sends them, and moves its cursor.  The client applies *)
(* what it has a listener for, reconnects when a connection breaks, and    *)
(* stops when one is refused.  No code changes a user's role, so it is the *)
(* constant Owners.                                                        *)
(***************************************************************************)
EXTENDS Integers, FiniteSets

CONSTANTS
    Users, Clients,
    Owners,     \* users.role = 'owner'
    UserOf,     \* the person behind each client
    Kinds,      \* the audiences and types events are inserted with
    Writers,    \* transactions that may be open at once
    Batch,      \* batchLimit
    MaxEvents,  \* events ever inserted (bound)
    MaxDrops    \* connections lost (bound)

Audiences == {"shared", "owner"} \cup Users

\* heard: its type is one of authorizedEventTypes, which the client listens to.
EventKinds == [to: Audiences, heard: BOOLEAN]

ASSUME OutboxAssumption ==
    /\ Owners \subseteq Users
    /\ {"shared", "owner"} \cap Users = {}
    /\ UserOf \in [Clients -> Users]
    /\ Kinds \subseteq EventKinds
    /\ Batch \in Nat \ {0}
    /\ MaxEvents \in Nat
    /\ MaxDrops \in Nat

VARIABLES
    inserted,  \* the identity column's last value
    open,      \* each writer's inserted, uncommitted events
    log,       \* committed events
    overtaken, \* history: what was committed, for each client, after a newer
               \* event it could read
    revoked,   \* people whose session is revoked or whose account is deactivated
    conn,      \* the handler behind each client's connection
    last,      \* each client's lastEventID; 0 is the empty string
    seen,      \* identifiers each client has applied
    stopped,   \* clients that have given up (running = false)
    since,     \* head of the log at its latest connection without a resume
               \* point, -1 before it
    drops

vars == <<inserted, open, log, overtaken, revoked, conn, last, seen, stopped, since, drops>>

Ids    == 1..MaxEvents
Events == [id: Ids, to: Audiences, heard: BOOLEAN]

\* A handler: its cursor, the rows it is sending, whether it waits in its
\* select, and the buffered revalidation tick.
Handlers == [up: BOOLEAN, after: 0..MaxEvents, batch: SUBSET Events,
             waiting: BOOLEAN, due: BOOLEAN]

Closed == [up |-> FALSE, after |-> 0, batch |-> {}, waiting |-> FALSE, due |-> FALSE]

TypeOK ==
    /\ inserted \in 0..MaxEvents
    /\ open \in [Writers -> SUBSET Events]
    /\ log \subseteq Events
    /\ overtaken \in [Clients -> SUBSET Ids]
    /\ revoked \subseteq Users
    /\ conn \in [Clients -> Handlers]
    /\ last \in [Clients -> 0..MaxEvents]
    /\ seen \in [Clients -> SUBSET Ids]
    /\ stopped \subseteq Clients
    /\ since \in [Clients -> -1..MaxEvents]
    /\ drops \in 0..MaxDrops

Init ==
    /\ inserted = 0
    /\ open = [w \in Writers |-> {}]
    /\ log = {}
    /\ overtaken = [c \in Clients |-> {}]
    /\ revoked = {}
    /\ conn = [c \in Clients |-> Closed]
    /\ last = [c \in Clients |-> 0]
    /\ seen = [c \in Clients |-> {}]
    /\ stopped = {}
    /\ since = [c \in Clients |-> -1]
    /\ drops = 0

-----------------------------------------------------------------------------
\* events.Insert, inside the writer's own transaction.
Insert(w, kind) ==
    /\ inserted < MaxEvents
    /\ inserted' = inserted + 1
    /\ open' = [open EXCEPT ![w] = @ \cup {[id |-> inserted + 1, to |-> kind.to, heard |-> kind.heard]}]
    /\ UNCHANGED <<log, overtaken, revoked, conn, last, seen, stopped, since, drops>>

\* The predicate of the replay query.
Authorized(c, e) ==
    \/ e.to = "shared"
    \/ e.to = UserOf[c]
    \/ e.to = "owner" /\ UserOf[c] \in Owners

\* The writer's rows become visible, whatever larger identifiers already are.
Commit(w) ==
    /\ open[w] # {}
    /\ log' = log \cup open[w]
    /\ open' = [open EXCEPT ![w] = {}]
    /\ overtaken' =
          [c \in Clients |-> overtaken[c] \cup
              {e.id : e \in {o \in open[w] : \E f \in log : Authorized(c, f) /\ o.id < f.id}}]
    /\ UNCHANGED <<inserted, revoked, conn, last, seen, stopped, since, drops>>

\* A rollback leaves a hole in the identifiers.
Rollback(w) ==
    /\ open[w] # {}
    /\ open' = [open EXCEPT ![w] = {}]
    /\ UNCHANGED <<inserted, log, overtaken, revoked, conn, last, seen, stopped, since, drops>>

\* The session is revoked or the account deactivated, elsewhere.
Revoke(u) ==
    /\ u \notin revoked
    /\ revoked' = revoked \cup {u}
    /\ UNCHANGED <<inserted, open, log, overtaken, conn, last, seen, stopped, since, drops>>

-----------------------------------------------------------------------------
\* Repository.Head: the greatest visible identifier.
LogHead == CHOOSE n \in 0..MaxEvents :
               /\ n = 0 \/ \E e \in log : e.id = n
               /\ \A e \in log : e.id <= n

\* Fault: the resume point is not read.
ConnectAtHead(c) ==
    /\ ~conn[c].up
    /\ c \notin stopped
    /\ UserOf[c] \notin revoked
    /\ conn' = [conn EXCEPT ![c] = [Closed EXCEPT !.up = TRUE, !.after = LogHead]]
    /\ since' = [since EXCEPT ![c] = IF last[c] = 0 THEN LogHead ELSE @]
    /\ UNCHANGED <<inserted, open, log, overtaken, revoked, last, seen, stopped, drops>>

\* connect, and the handler's entry: a client with a resume point starts there,
\* one without starts at the head.
Connect(c) ==
    LET from == IF last[c] # 0 THEN last[c] ELSE LogHead
    IN  /\ ~conn[c].up
        /\ c \notin stopped
        /\ UserOf[c] \notin revoked
        /\ conn' = [conn EXCEPT ![c] = [Closed EXCEPT !.up = TRUE, !.after = from]]
        /\ since' = [since EXCEPT ![c] = IF last[c] = 0 THEN from ELSE @]
        /\ UNCHANGED <<inserted, open, log, overtaken, revoked, last, seen, stopped, drops>>

\* connect, answered by anything but 200: always for a revoked session, and for
\* a failed query or an unreachable server's proxy.  The browser closes the
\* stream for good, the client reads that as 401 and gives up.
Refuse(c) ==
    /\ ~conn[c].up
    /\ c \notin stopped
    /\ stopped' = stopped \cup {c}
    /\ UNCHANGED <<inserted, open, log, overtaken, revoked, conn, last, seen, since, drops>>

\* start, after the person has signed in again on the same page: the resume point
\* is still there.
Start(c) ==
    /\ c \in stopped
    /\ UserOf[c] \notin revoked
    /\ stopped' = stopped \ {c}
    /\ UNCHANGED <<inserted, open, log, overtaken, revoked, conn, last, seen, since, drops>>

\* Fault: the row at the cursor is included.
ListAuthorizedFrom(c) ==
    LET visible == {e \in log : e.id >= conn[c].after /\ Authorized(c, e)}
    IN  {e \in visible : Cardinality({f \in visible : f.id < e.id}) < Batch}

\* Fault: only the shared events are listed.
ListAuthorizedShared(c) ==
    LET visible == {e \in log : e.id > conn[c].after /\ e.to = "shared"}
    IN  {e \in visible : Cardinality({f \in visible : f.id < e.id}) < Batch}

\* The first Batch visible, authorized events after the cursor.
ListAuthorized(c) ==
    LET visible == {e \in log : e.id > conn[c].after /\ Authorized(c, e)}
    IN  {e \in visible : Cardinality({f \in visible : f.id < e.id}) < Batch}

\* One turn of the loop: send what the query returned, or wait in the select.
List(c) ==
    /\ conn[c].up
    /\ conn[c].batch = {}
    /\ ~conn[c].waiting
    /\ conn' = [conn EXCEPT ![c].batch = ListAuthorized(c),
                            ![c].waiting = ListAuthorized(c) = {}]
    /\ UNCHANGED <<inserted, open, log, overtaken, revoked, last, seen, stopped, since, drops>>

\* Send the batch's next event; the cursor moves over it.  The client's onMessage
\* runs for a type it listens to, applies an event it has not seen and keeps its
\* identifier as the resume point.
Deliver(c) ==
    /\ conn[c].up
    /\ \E e \in conn[c].batch :
          /\ \A f \in conn[c].batch : e.id <= f.id
          /\ conn' = [conn EXCEPT ![c].batch = @ \ {e}, ![c].after = e.id]
          /\ IF e.heard /\ e.id \notin seen[c]
             THEN /\ seen' = [seen EXCEPT ![c] = @ \cup {e.id}]
                  /\ last' = [last EXCEPT ![c] = e.id]
             ELSE UNCHANGED <<seen, last>>
    /\ UNCHANGED <<inserted, open, log, overtaken, revoked, stopped, since, drops>>

\* Fault: the tick sends a comment and re-reads nothing.
RevalidateNothing(c) ==
    /\ conn[c].up
    /\ conn[c].waiting
    /\ conn[c].due
    /\ conn' = [conn EXCEPT ![c].waiting = FALSE, ![c].due = FALSE]
    /\ UNCHANGED <<inserted, open, log, overtaken, revoked, last, seen, stopped, since, drops>>

\* streamStillAuthorized, when the select takes the revalidation tick: the
\* session and the account are re-read and the stream goes on or ends.
Revalidate(c) ==
    /\ conn[c].up
    /\ conn[c].waiting
    /\ conn[c].due
    /\ conn' = [conn EXCEPT ![c] = IF UserOf[c] \in revoked THEN Closed
                                   ELSE [@ EXCEPT !.waiting = FALSE, !.due = FALSE]]
    /\ UNCHANGED <<inserted, open, log, overtaken, revoked, last, seen, stopped, since, drops>>

\* The select takes the heartbeat instead: another turn, nothing re-read.
Heartbeat(c) ==
    /\ conn[c].up
    /\ conn[c].waiting
    /\ conn' = [conn EXCEPT ![c].waiting = FALSE]
    /\ UNCHANGED <<inserted, open, log, overtaken, revoked, last, seen, stopped, since, drops>>

\* The connection is lost, with whatever was written to it and not received.
Drop(c) ==
    /\ conn[c].up
    /\ drops < MaxDrops
    /\ drops' = drops + 1
    /\ conn' = [conn EXCEPT ![c] = Closed]
    /\ UNCHANGED <<inserted, open, log, overtaken, revoked, last, seen, stopped, since>>

\* The revalidation interval elapses: the ticker buffers one tick for a handler.
Tick(c) ==
    /\ conn[c].up
    /\ ~conn[c].due
    /\ conn' = [conn EXCEPT ![c].due = TRUE]
    /\ UNCHANGED <<inserted, open, log, overtaken, revoked, last, seen, stopped, since, drops>>

-----------------------------------------------------------------------------
Stream(c) == List(c) \/ Deliver(c) \/ Revalidate(c)

Next ==
    \/ \E w \in Writers :
          \/ \E kind \in Kinds : Insert(w, kind)
          \/ Commit(w) \/ Rollback(w)
    \/ \E u \in Users : Revoke(u)
    \/ \E c \in Clients :
          \/ Connect(c) \/ Refuse(c) \/ Start(c)
          \/ Stream(c) \/ Heartbeat(c) \/ Tick(c) \/ Drop(c)

Spec == Init /\ [][Next]_vars

(***************************************************************************)
(* Fairness: time passes, a handler goes round its loop while its          *)
(* connection lasts, a select does not pass over a ready tick for ever (it *)
(* chooses uniformly), and the client's reconnect timer fires and is       *)
(* answered one way or the other.                                          *)
(***************************************************************************)
FairSpec ==
    /\ Spec
    /\ \A c \in Clients :
          /\ WF_vars(Stream(c)) /\ WF_vars(Tick(c)) /\ WF_vars(Connect(c) \/ Refuse(c))
          /\ SF_vars(Revalidate(c))

-----------------------------------------------------------------------------
\* A resume sends "missed events without duplicate refreshes": nothing on its
\* way to a client has been applied by it, on this connection or an earlier one.
NothingIsSentAgain ==
    \A c \in Clients : \A e \in conn[c].batch : e.id \notin seen[c] /\ e.id > last[c]

Feed == INSTANCE EventFeed WITH
    published <- log, from <- since, applied <- seen,
    Readable <- Authorized, Listened <- {e \in Events : e.heard},
    gone <- {c \in Clients : UserOf[c] \in revoked /\ ~conn[c].up}

\* The outbox implements EventFeed, however many transactions write at once:
\* polls, batches, lost connections and resumed cursors (ListAuthorized,
\* eventResumeID, onMessage) show a client the next event of its own, skip none
\* but those that became visible behind a newer one, and show none once its
\* revoked connection has ended.
DeliversTheFeed == Feed!Spec

\* A committed event that no newer one has overtaken reaches every client that
\* may read it and listens for it, unless the client stops or starts anew.
CommittedEventsArrive ==
    \A c \in Clients, n \in Ids :
        (/\ \E e \in log : e.id = n /\ e.heard /\ Authorized(c, e)
         /\ since[c] # -1 /\ since[c] < n
         /\ n \notin overtaken[c])
            ~> (n \in seen[c] \/ c \in stopped \/ since[c] >= n)

\* A revoked or deactivated person's stream ends once it has caught up.
RevokedStreamsEnd ==
    \A c \in Clients : (conn[c].up /\ UserOf[c] \in revoked) ~> ~conn[c].up
=============================================================================

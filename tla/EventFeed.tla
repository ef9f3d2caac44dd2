----------------------------- MODULE EventFeed -----------------------------
(***************************************************************************)
(* What the outbox promises a client: from the moment it subscribes it     *)
(* applies the events it listens for, once, in the order of their numbers, *)
(* over however many connections, and skips none of them -- except one     *)
(* that was published after a newer event the client could read, which it  *)
(* may apply or miss.  A client that has been shut out applies nothing.    *)
(* EventOutbox implements it for any number of writers.                    *)
(***************************************************************************)
EXTENDS Integers

CONSTANTS
    Clients,
    Events,          \* the events there can be: a number and what else they say
    Readable(_, _),  \* whether a client may read an event
    Listened         \* the events clients listen for

VARIABLES
    published,   \* the events everyone may read
    overtaken,   \* the numbers published, for each client, behind a newer event
    from,        \* the number each client subscribed behind, -1 before
    applied,     \* the numbers each client has applied
    gone         \* clients shut out for good

vars == <<published, overtaken, from, applied, gone>>

Init ==
    /\ published = {}
    /\ overtaken = [c \in Clients |-> {}]
    /\ from = [c \in Clients |-> -1]
    /\ applied = [c \in Clients |-> {}]
    /\ gone = {}

\* A change is published with all its events.
Publish ==
    /\ published' \in SUBSET Events
    /\ published \subseteq published'
    /\ overtaken' =
          [c \in Clients |-> overtaken[c] \cup
              {e.id : e \in {b \in published' \ published :
                                \E f \in published : Readable(c, f) /\ b.id < f.id}}]
    /\ UNCHANGED <<from, applied, gone>>

\* A client that has applied nothing yet starts behind the newest event.
Subscribe(c) ==
    /\ c \notin gone
    /\ applied[c] = {}
    /\ \E n \in {e.id : e \in published} \cup {0} :
          /\ \A e \in published : e.id <= n
          /\ from' = [from EXCEPT ![c] = n]
    /\ UNCHANGED <<published, overtaken, applied, gone>>

\* The next event: newer than everything applied, and nothing of the client's
\* own left out before it but what was overtaken.
Apply(c) ==
    /\ c \notin gone
    /\ from[c] # -1
    /\ \E e \in published :
          LET pending(f) == /\ f.id > from[c] /\ f.id \notin applied[c]
                            /\ Readable(c, f) /\ f \in Listened
          IN  /\ pending(e)
              /\ \A n \in applied[c] : n < e.id
              /\ \A f \in published : pending(f) /\ f.id < e.id => f.id \in overtaken[c]
              /\ applied' = [applied EXCEPT ![c] = @ \cup {e.id}]
    /\ UNCHANGED <<published, overtaken, from, gone>>

Leave ==
    /\ gone' \in SUBSET Clients
    /\ gone \subseteq gone'
    /\ UNCHANGED <<published, overtaken, from, applied>>

Next == Publish \/ Leave \/ \E c \in Clients : Subscribe(c) \/ Apply(c)

Spec == Init /\ [][Next]_vars
=============================================================================

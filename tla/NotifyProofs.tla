---------------------------- MODULE NotifyProofs ----------------------------
(***************************************************************************)
(* What delivery guarantees for every number of people, devices, notices,  *)
(* passes and faults, and every length of the day: a notice is handed over *)
(* once and once more for every answer that was lost, and never before a   *)
(* moment outside the quiet hours it was raised under.                     *)
(***************************************************************************)
EXTENDS Notify, TLAPS

Table == [state: {"pending", "sending", "sent", "failed", "abandoned"},
          subject: Subjects \cup {"none"}, wait: Int, attempts: Nat,
          reached: Nat, unheard: Nat, window: Windows \cup {NoWindow}, free: BOOLEAN]

PassStates == [batch: SUBSET Reads, sending: Reads \cup {NoRead}, result: {"none", "ok", "error"}]

\* The part of the types that delivery rests on.
Shape ==
    /\ clock \in Clock
    /\ quiet \in [People -> Windows \cup {NoWindow}]
    /\ DOMAIN notices \in SUBSET Ids
    /\ notices \in [DOMAIN notices -> Table]
    /\ pass \in [Passes -> PassStates]
    /\ raises \in Nat

\* No row belongs to a raise that is still to come.
RowsAreOld == \A n \in DOMAIN notices : n.raise <= raises

\* A row that may be claimed has been handed over only where the answer was
\* lost, and no row more than once besides.
CountsHold(row) ==
    /\ row.state \in {"pending", "failed"} => row.reached <= row.unheard
    /\ row.reached <= 1 + row.unheard

\* A row that has seen no moment outside its quiet hours waits for their end.
WaitsForTheEnd(row) ==
    ~row.free => /\ row.state = "pending"
                 /\ row.window \in Windows
                 /\ row.wait >= 1
                 /\ clock + row.wait \in {row.window.end, row.window.end + DayLength}

RowsHold == \A n \in DOMAIN notices : CountsHold(notices[n]) /\ WaitsForTheEnd(notices[n])

\* What a pass has read has seen such a moment; what it is sending nobody else
\* may claim, and has not been handed over unless its result says so.
BatchHolds(q) == \A r \in pass[q].batch : r.id \in DOMAIN notices /\ notices[r.id].free

SendingHolds(q) ==
    /\ pass[q].sending = NoRead => pass[q].result = "none"
    /\ pass[q].sending # NoRead =>
          LET row == notices[pass[q].sending.id]
          IN  /\ pass[q].sending.id \in DOMAIN notices
              /\ row.state = "sending" /\ row.free
              /\ pass[q].result # "ok" => row.reached <= row.unheard

PassesHold == \A q \in Passes : BatchHolds(q) /\ SendingHolds(q)

OneSender ==
    \A p, q \in Passes :
        pass[p].sending # NoRead /\ pass[q].sending # NoRead
            /\ pass[p].sending.id = pass[q].sending.id => p = q

IInv == Shape /\ RowsAreOld /\ RowsHold /\ PassesHold /\ OneSender

-----------------------------------------------------------------------------
\* A read is a record of another shape than the absence of one.
LEMMA NoReadIsNone == NoRead \notin Reads
  <1>1. DOMAIN NoRead = {"to"}
    BY DEF NoRead
  <1>2. \A r \in Reads : "id" \in DOMAIN r
    BY DEF Reads
  <1>. QED
    BY <1>1, <1>2

LEMMA IdleType == Idle \in PassStates
  BY DEF Idle, PassStates

LEMMA InvInit == Init => IInv
  <1> SUFFICES ASSUME Init PROVE IInv
    OBVIOUS
  <1>1. notices = [n \in {} |-> 0] /\ DOMAIN notices = {}
    BY DEF Init
  <1>2. 0 \in Clock
    BY NotifyAssumption DEF Clock
  <1>3. Shape
    BY <1>1, <1>2, IdleType DEF Init, Shape
  <1>4. RowsAreOld /\ RowsHold
    BY <1>1 DEF RowsAreOld, RowsHold
  <1>5. PassesHold /\ OneSender
    BY DEF Init, PassesHold, BatchHolds, SendingHolds, OneSender, Idle
  <1>. QED
    BY <1>3, <1>4, <1>5 DEF IInv

-----------------------------------------------------------------------------
(***************************************************************************)
(* Raising and time.                                                       *)
(***************************************************************************)

\* Inside quiet hours a row waits for their end; outside it is free at once.
LEMMA NewRowHolds ==
    ASSUME clock \in Clock, quiet \in [People -> Windows \cup {NoWindow}],
           NEW p \in People, NEW subject \in Subjects \cup {"none"}
    PROVE  /\ NewRow(p, subject) \in Table
           /\ CountsHold(NewRow(p, subject))
           /\ WaitsForTheEnd(NewRow(p, subject))
  <1> DEFINE w == quiet[p]
             row == NewRow(p, subject)
  <1>1. DayLength \in Nat \ {0} /\ clock \in 0..(DayLength - 1)
    BY NotifyAssumption DEF Clock
  <1>2. w \in Windows \cup {NoWindow}
    OBVIOUS
  <1>3. /\ w.start \in 0..(DayLength - 1) /\ w.end \in 0..(DayLength - 1)
        /\ w # NoWindow => w \in Windows /\ w.start # w.end
    BY <1>1, <1>2, NotifyAssumption DEF NoWindow, Clock
  <1>4. /\ row.state = "pending" /\ row.subject = subject /\ row.attempts = 0
        /\ row.reached = 0 /\ row.unheard = 0
        /\ row.window = w
        /\ row.wait = IF Release(w, clock) > clock THEN Release(w, clock) - clock ELSE 0
    BY DEF NewRow
  <1>5. Release(w, clock) \in Int
    BY <1>1, <1>3 DEF Release
  <1>6. InWindow(w, clock) =>
           /\ w # NoWindow
           /\ Release(w, clock) > clock
           /\ Release(w, clock) \in {w.end, w.end + DayLength}
    BY <1>1, <1>3 DEF InWindow, Release, NoWindow
  <1>7. row \in Table
    <2>1. PICK free \in BOOLEAN :
             row = [state |-> "pending", subject |-> subject, attempts |-> 0, reached |-> 0, unheard |-> 0,
                    wait |-> IF Release(w, clock) > clock THEN Release(w, clock) - clock ELSE 0,
                    window |-> w, free |-> free]
      <3>1. (~InWindow(w, clock)) \in BOOLEAN
        OBVIOUS
      <3>. QED
        BY <3>1, Zenon DEF NewRow
    <2>. QED
      BY <1>1, <1>2, <1>5, <2>1 DEF Table
  <1>8. CountsHold(row)
    BY <1>4 DEF CountsHold
  <1>9. WaitsForTheEnd(row)
    <2>1. ~row.free => InWindow(w, clock)
      BY Zenon DEF NewRow
    <2>. QED
      BY <1>1, <1>2, <1>3, <1>4, <1>5, <1>6, <2>1 DEF WaitsForTheEnd
  <1>. QED
    BY <1>7, <1>8, <1>9

\* A step that keeps the rows a pass refers to keeps what is known of the pass.
LEMMA PassFrame ==
    ASSUME IInv, UNCHANGED pass, DOMAIN notices \subseteq DOMAIN notices',
           \A n \in DOMAIN notices : /\ notices'[n].state = notices[n].state
                                     /\ notices'[n].reached = notices[n].reached
                                     /\ notices'[n].unheard = notices[n].unheard
                                     /\ notices[n].free => notices'[n].free
    PROVE  PassesHold' /\ OneSender'
  <1>1. ASSUME NEW q \in Passes PROVE BatchHolds(q)' /\ SendingHolds(q)'
    <2>1. BatchHolds(q) /\ SendingHolds(q)
      BY DEF IInv, PassesHold
    <2>2. BatchHolds(q)'
      BY <2>1 DEF BatchHolds
    <2>3. SendingHolds(q)'
      BY <2>1 DEF SendingHolds
    <2>. QED
      BY <2>2, <2>3
  <1>2. OneSender'
    BY DEF IInv, OneSender
  <1>. QED
    BY <1>1, <1>2 DEF PassesHold

\* RaiseIn adds rows and touches none that exists.
LEMMA RaiseEffect ==
    ASSUME IInv, Raising, NEW raised, RaiseIn(raised),
           \A r \in raised : r.subject \in Subjects \cup {"none"}
    PROVE  /\ DOMAIN notices \subseteq DOMAIN notices'
           /\ DOMAIN notices' \in SUBSET Ids
           /\ \A n \in DOMAIN notices : notices'[n] = notices[n]
           /\ \A n \in DOMAIN notices' : n \in DOMAIN notices \/
                 (n.raise = raises + 1 /\ \E p \in People, subject \in Subjects \cup {"none"} :
                                             notices'[n] = NewRow(p, subject))
           /\ notices' = [n \in DOMAIN notices' |-> notices'[n]]
  <1> DEFINE told  == {n \in Ids : /\ n.raise = raises + 1
                                   /\ \E r \in raised : r.kind = n.kind /\ Consented(n, r.audience)}
             Of(n) == CHOOSE r \in raised : r.kind = n.kind
  <1>1. notices' = [n \in DOMAIN notices \cup told |->
                       IF n \in told THEN NewRow(n.to, Of(n).subject) ELSE notices[n]]
    BY DEF RaiseIn
  <1>2. DOMAIN notices \in SUBSET Ids /\ raises \in Nat /\ RowsAreOld
    BY DEF IInv, Shape
  <1>3. \A n \in DOMAIN notices : n \notin told
    <2>1. SUFFICES ASSUME NEW n \in DOMAIN notices, n \in told PROVE FALSE
      OBVIOUS
    <2>2. n.raise <= raises /\ n.raise = raises + 1 /\ n.raise \in Int
      BY <1>2, <2>1 DEF RowsAreOld, Ids
    <2>. QED
      BY <1>2, <2>2
  <1>4. \A n \in told : n \in Ids /\ n.raise = raises + 1 /\ \E r \in raised : r.kind = n.kind
    OBVIOUS
  <1>5. \A n \in told : Of(n) \in raised
    BY <1>4
  <1>6. \A n \in told : n.to \in People /\ Of(n).subject \in Subjects \cup {"none"}
    BY <1>4, <1>5 DEF Ids
  <1>. HIDE DEF told, Of
  <1>7. DOMAIN notices' = DOMAIN notices \cup told
    BY <1>1
  <1>8. \A n \in DOMAIN notices : notices'[n] = notices[n]
    BY <1>1, <1>3
  <1>9. \A n \in told : notices'[n] = NewRow(n.to, Of(n).subject)
    BY <1>1
  <1>. QED
    BY <1>1, <1>2, <1>4, <1>6, <1>7, <1>8, <1>9

LEMMA RaiseStep ==
    ASSUME IInv, Raising, NEW raised, RaiseIn(raised),
           \A r \in raised : r.subject \in Subjects \cup {"none"}
    PROVE  IInv'
  <1>0. Shape /\ RowsAreOld /\ RowsHold
    BY DEF IInv
  <1>1. /\ DOMAIN notices \subseteq DOMAIN notices'
        /\ DOMAIN notices' \in SUBSET Ids
        /\ \A n \in DOMAIN notices : notices'[n] = notices[n]
        /\ \A n \in DOMAIN notices' : n \in DOMAIN notices \/
              (n.raise = raises + 1 /\ \E p \in People, subject \in Subjects \cup {"none"} :
                                          notices'[n] = NewRow(p, subject))
        /\ notices' = [n \in DOMAIN notices' |-> notices'[n]]
    BY RaiseEffect
  <1>2. UNCHANGED <<clock, quiet, pass>> /\ raises' = raises + 1
    BY DEF Raising, settings
  <1>3. ASSUME NEW n \in DOMAIN notices'
        PROVE  notices'[n] \in Table /\ CountsHold(notices'[n]) /\ WaitsForTheEnd(notices'[n])
    <2>1. CASE n \in DOMAIN notices
      BY <1>0, <1>1, <2>1 DEF Shape, RowsHold
    <2>2. CASE n \notin DOMAIN notices
      BY <1>0, <1>1, <1>3, <2>2, NewRowHolds DEF Shape
    <2>. QED
      BY <2>1, <2>2
  <1>4. Shape'
    <2>1. notices' \in [DOMAIN notices' -> Table]
      BY <1>1, <1>3
    <2>. QED
      BY <1>0, <1>1, <1>2, <2>1 DEF Shape
  <1>5. RowsAreOld'
    <2>1. \A n \in DOMAIN notices : n.raise \in Int
      BY <1>0 DEF Shape, Ids
    <2>. QED
      BY <1>0, <1>1, <1>2, <2>1 DEF RowsAreOld, Shape
  <1>6. RowsHold'
    BY <1>2, <1>3 DEF RowsHold, WaitsForTheEnd, CountsHold
  <1>7. PassesHold' /\ OneSender'
    BY <1>1, <1>2, PassFrame
  <1>. QED
    BY <1>4, <1>5, <1>6, <1>7 DEF IInv

\* The time of day goes on, and starts again at the end of the day.
LEMMA NextMoment ==
    ASSUME clock \in Clock
    PROVE  (clock + 1) % DayLength = IF clock + 1 = DayLength THEN 0 ELSE clock + 1
  <1>1. DayLength \in Nat \ {0} /\ clock \in 0..(DayLength - 1)
    BY NotifyAssumption DEF Clock
  <1>2. CASE clock + 1 = DayLength
    BY <1>1, <1>2
  <1>3. CASE clock + 1 # DayLength
    BY <1>1, <1>3
  <1>. QED
    BY <1>2, <1>3

\* Time brings a row that waits for the end of its quiet hours closer to it, and
\* when the wait is over the end has come.
LEMMA TickStep ==
    ASSUME IInv, Tick
    PROVE  IInv'
  <1> DEFINE now == (clock + 1) % DayLength
  <1>0. Shape /\ RowsAreOld /\ RowsHold
    BY DEF IInv
  <1>1. DayLength \in Nat \ {0} /\ clock \in 0..(DayLength - 1) /\ clock' = now
    BY <1>0, NotifyAssumption DEF Clock, Shape, Tick
  <1>2. now = IF clock + 1 = DayLength THEN 0 ELSE clock + 1
    BY <1>0, NextMoment DEF Shape
  <1>. HIDE DEF now
  <1>3. DOMAIN notices' = DOMAIN notices /\ UNCHANGED <<quiet, pass, raises>>
    BY DEF Tick, settings
  <1>4. ASSUME NEW n \in DOMAIN notices
        PROVE  /\ notices'[n] \in Table
               /\ CountsHold(notices'[n])
               /\ ~notices'[n].free =>
                     /\ notices'[n].state = "pending"
                     /\ notices'[n].window \in Windows
                     /\ notices'[n].wait >= 1
                     /\ clock' + notices'[n].wait \in
                          {notices'[n].window.end, notices'[n].window.end + DayLength}
               /\ notices'[n].state = notices[n].state
               /\ notices'[n].reached = notices[n].reached
               /\ notices'[n].unheard = notices[n].unheard
               /\ notices[n].free => notices'[n].free
    <2> DEFINE row == notices[n]
               window == notices[n].window
    <2>1. row \in Table /\ CountsHold(row) /\ WaitsForTheEnd(row)
      BY <1>0 DEF Shape, RowsHold
    <2>2. PICK free \in BOOLEAN :
             /\ free <=> (row.free \/ ~InWindow(window, now))
             /\ notices'[n] = [row EXCEPT !.wait = IF @ = 0 THEN 0 ELSE @ - 1, !.free = free]
      <3>1. (row.free \/ ~InWindow(window, now)) \in BOOLEAN
        OBVIOUS
      <3>2. notices'[n] = [row EXCEPT !.wait = IF @ = 0 THEN 0 ELSE @ - 1,
                                      !.free = @ \/ ~InWindow(window, now)]
        BY Zenon DEF Tick, now
      <3>. QED
        BY <3>1, <3>2, Zenon
    <2>. HIDE DEF row, window
    <2> DEFINE wait == IF row.wait = 0 THEN 0 ELSE row.wait - 1
    <2>3. wait \in Int /\ notices'[n] = [row EXCEPT !.wait = wait, !.free = free]
      <3>1. row.wait \in Int
        BY <2>1 DEF Table
      <3>. QED
        BY <2>2, <3>1
    <2>4. /\ notices'[n].state = row.state /\ notices'[n].reached = row.reached
          /\ notices'[n].unheard = row.unheard /\ notices'[n].window = row.window
          /\ notices'[n].wait = (IF row.wait = 0 THEN 0 ELSE row.wait - 1)
          /\ notices'[n].free = free
          /\ notices'[n] \in Table
      <3>1. notices'[n].wait = wait
        <4>. HIDE DEF wait
        <4>. QED BY <2>1, <2>3 DEF Table
      <3>2. /\ notices'[n].state = row.state /\ notices'[n].reached = row.reached
            /\ notices'[n].unheard = row.unheard /\ notices'[n].window = row.window
            /\ notices'[n].free = free
            /\ notices'[n] \in Table
        <4>. HIDE DEF wait
        <4>. QED BY <2>1, <2>3 DEF Table
      <3>. QED
        BY <3>1, <3>2
    <2>5. CountsHold(notices'[n])
      BY <2>1, <2>4 DEF CountsHold
    <2>6. ASSUME ~free
          PROVE  /\ row.state = "pending" /\ row.window \in Windows
                 /\ notices'[n].wait >= 1
                 /\ clock' + notices'[n].wait \in {row.window.end, row.window.end + DayLength}
      <3>1. ~row.free /\ InWindow(row.window, now)
        BY <2>2, <2>6 DEF row, window
      <3>2. /\ row.state = "pending" /\ row.window \in Windows /\ row.wait >= 1
            /\ clock + row.wait \in {row.window.end, row.window.end + DayLength}
        BY <2>1, <3>1 DEF WaitsForTheEnd
      <3>3. row.window.start \in 0..(DayLength - 1) /\ row.window.end \in 0..(DayLength - 1)
        BY <1>1, <3>2, NotifyAssumption DEF Clock
      <3>4. row.wait \in Int
        BY <2>1 DEF Table
      <3>5. now # row.window.end
        BY <1>1, <1>2, <3>1, <3>3 DEF InWindow
      <3>. QED
        BY <1>1, <1>2, <2>4, <3>2, <3>3, <3>4, <3>5
    <2>. QED
      BY <2>2, <2>4, <2>5, <2>6 DEF row
  <1>5. Shape'
    <2>1. notices' \in [DOMAIN notices' -> Table]
      BY <1>3, <1>4 DEF Tick
    <2>2. clock' \in Clock
      BY <1>1, <1>2 DEF Clock
    <2>. QED
      BY <1>0, <1>3, <2>1, <2>2 DEF Shape
  <1>6. RowsAreOld'
    BY <1>0, <1>3 DEF RowsAreOld
  <1>7. RowsHold'
    BY <1>3, <1>4 DEF RowsHold, WaitsForTheEnd, CountsHold
  <1>8. PassesHold' /\ OneSender'
    BY <1>3, <1>4, PassFrame
  <1>. QED
    BY <1>5, <1>6, <1>7, <1>8 DEF IInv

-----------------------------------------------------------------------------
(***************************************************************************)
(* Delivery.                                                               *)
(***************************************************************************)

\* Steps that leave rows, passes and time alone keep the invariant; people's
\* settings are read only when a notice is raised or sent.
LEMMA SettingsFrame ==
    ASSUME IInv, UNCHANGED <<clock, notices, pass, raises>>,
           quiet' \in [People -> Windows \cup {NoWindow}]
    PROVE  IInv'
  <1>1. Shape'
    BY DEF IInv, Shape
  <1>2. RowsAreOld' /\ RowsHold'
    BY DEF IInv, RowsAreOld, RowsHold, WaitsForTheEnd, CountsHold
  <1>3. PassesHold' /\ OneSender'
    BY PassFrame
  <1>. QED
    BY <1>1, <1>2, <1>3 DEF IInv

LEMMA SettingsStep ==
    ASSUME IInv, Settings
    PROVE  IInv'
  <1>1. UNCHANGED <<clock, notices, pass, raises>>
    BY DEF Settings, SetPreference, Unsubscribe, SetQuietHours, Subscribe, RevokeDevice,
           SetStatus, Change
  <1>2. quiet' \in [People -> Windows \cup {NoWindow}]
    <2>1. quiet \in [People -> Windows \cup {NoWindow}]
      BY DEF IInv, Shape
    <2>2. CASE UNCHANGED quiet
      BY <2>1, <2>2
    <2>3. CASE \E p \in People, w \in Windows \cup {NoWindow} : quiet' = [quiet EXCEPT ![p] = w]
      BY <2>1, <2>3
    <2>. QED
      BY <2>2, <2>3 DEF Settings, SetPreference, Unsubscribe, SetQuietHours, Subscribe,
                        RevokeDevice, SetStatus
  <1>. QED
    BY <1>1, <1>2, SettingsFrame

\* A step of one pass on one row keeps the invariant when the row and the pass
\* it leaves behind do.
LEMMA DeliveryFrame ==
    ASSUME IInv, UNCHANGED <<clock, quiet, raises>>,
           NEW q \in Passes, NEW n \in DOMAIN notices,
           NEW row \in Table, NEW new \in PassStates,
           notices' = [notices EXCEPT ![n] = row],
           pass' = [pass EXCEPT ![q] = new],
           CountsHold(row), WaitsForTheEnd(row),
           notices[n].free => row.free,
           \A p \in Passes \ {q} : pass[p].sending = NoRead \/ pass[p].sending.id # n,
           BatchHolds(q)', SendingHolds(q)',
           new.sending \in {NoRead, pass[q].sending} \/ (new.sending # NoRead /\ new.sending.id = n)
    PROVE  IInv'
  <1>0. Shape /\ RowsAreOld /\ RowsHold /\ PassesHold /\ OneSender
    BY DEF IInv
  <1>1. /\ DOMAIN notices' = DOMAIN notices
        /\ notices'[n] = row
        /\ \A m \in DOMAIN notices : m # n => notices'[m] = notices[m]
        /\ \A m \in DOMAIN notices : notices[m].free => notices'[m].free
    BY <1>0 DEF Shape
  <1>2. pass'[q] = new /\ \A p \in Passes \ {q} : pass'[p] = pass[p]
    BY <1>0 DEF Shape
  <1>3. Shape'
    BY <1>0, <1>1 DEF Shape
  <1>4. RowsAreOld'
    BY <1>0, <1>1 DEF RowsAreOld
  <1>5. RowsHold'
    <2>1. ASSUME NEW m \in DOMAIN notices PROVE CountsHold(notices'[m]) /\ WaitsForTheEnd(notices'[m])
      BY <1>0, <1>1 DEF RowsHold
    <2>. QED
      BY <1>1, <2>1 DEF RowsHold, WaitsForTheEnd, CountsHold
  <1>6. PassesHold'
    <2>1. ASSUME NEW p \in Passes, p # q PROVE BatchHolds(p)' /\ SendingHolds(p)'
      <3>1. BatchHolds(p) /\ SendingHolds(p) /\ pass'[p] = pass[p]
        BY <1>0, <1>2, <2>1 DEF PassesHold
      <3>2. BatchHolds(p)'
        BY <1>1, <3>1 DEF BatchHolds
      <3>3. SendingHolds(p)'
        <4>1. CASE pass[p].sending = NoRead
          BY <3>1, <4>1 DEF SendingHolds
        <4>2. CASE pass[p].sending # NoRead
          <5>1. pass[p].sending.id \in DOMAIN notices /\ pass[p].sending.id # n
            BY <2>1, <3>1, <4>2 DEF SendingHolds
          <5>2. notices'[pass[p].sending.id] = notices[pass[p].sending.id]
            BY <1>1, <5>1
          <5>. QED
            BY <1>1, <3>1, <4>2, <5>1, <5>2 DEF SendingHolds
        <4>. QED
          BY <4>1, <4>2
      <3>. QED
        BY <3>2, <3>3
    <2>. QED
      BY <2>1 DEF PassesHold
  <1>7. OneSender'
    BY <1>0, <1>2 DEF OneSender
  <1>. QED
    BY <1>3, <1>4, <1>5, <1>6, <1>7 DEF IInv

\* The same for a step of one pass that touches no row.
LEMMA PassOnlyFrame ==
    ASSUME IInv, UNCHANGED <<clock, quiet, raises, notices>>,
           NEW q \in Passes, NEW new \in PassStates,
           pass' = [pass EXCEPT ![q] = new],
           BatchHolds(q)', SendingHolds(q)',
           new.sending \in {NoRead, pass[q].sending}
    PROVE  IInv'
  <1>0. Shape /\ RowsAreOld /\ RowsHold /\ PassesHold /\ OneSender
    BY DEF IInv
  <1>1. pass'[q] = new /\ \A p \in Passes \ {q} : pass'[p] = pass[p]
    BY <1>0 DEF Shape
  <1>2. Shape' /\ RowsAreOld' /\ RowsHold'
    BY <1>0 DEF Shape, RowsAreOld, RowsHold, WaitsForTheEnd, CountsHold
  <1>3. PassesHold'
    <2>1. ASSUME NEW p \in Passes, p # q PROVE BatchHolds(p)' /\ SendingHolds(p)'
      <3>1. BatchHolds(p) /\ SendingHolds(p) /\ pass'[p] = pass[p]
        BY <1>0, <1>1, <2>1 DEF PassesHold
      <3>. QED
        BY <3>1 DEF BatchHolds, SendingHolds
    <2>. QED
      BY <2>1 DEF PassesHold
  <1>4. OneSender'
    BY <1>0, <1>1 DEF OneSender
  <1>. QED
    BY <1>2, <1>3, <1>4 DEF IInv

\* What is known of the row a pass is sending.
LEMMA SentRow ==
    ASSUME IInv, NEW q \in Passes, pass[q].sending # NoRead
    PROVE  /\ pass[q].sending \in Reads
           /\ pass[q].sending.id \in DOMAIN notices
           /\ notices[pass[q].sending.id] \in Table
           /\ notices[pass[q].sending.id].state = "sending"
           /\ notices[pass[q].sending.id].free
           /\ pass[q].result # "ok" =>
                notices[pass[q].sending.id].reached <= notices[pass[q].sending.id].unheard
           /\ CountsHold(notices[pass[q].sending.id])
           /\ \A p \in Passes \ {q} : pass[p].sending = NoRead \/ pass[p].sending.id # pass[q].sending.id
  <1>0. Shape /\ RowsHold /\ SendingHolds(q) /\ OneSender
    BY DEF IInv, PassesHold
  <1>1. pass[q] \in PassStates
    BY <1>0 DEF Shape
  <1>2. pass[q].sending \in Reads
    BY <1>1 DEF PassStates
  <1>3. /\ pass[q].sending.id \in DOMAIN notices
        /\ notices[pass[q].sending.id].state = "sending"
        /\ notices[pass[q].sending.id].free
        /\ pass[q].result # "ok" =>
                notices[pass[q].sending.id].reached <= notices[pass[q].sending.id].unheard
    BY <1>0 DEF SendingHolds
  <1>4. notices[pass[q].sending.id] \in Table /\ CountsHold(notices[pass[q].sending.id])
    BY <1>0, <1>3 DEF Shape, RowsHold
  <1>5. \A p \in Passes \ {q} : pass[p].sending = NoRead \/ pass[p].sending.id # pass[q].sending.id
    BY <1>0 DEF OneSender
  <1>. QED
    BY <1>2, <1>3, <1>4, <1>5

\* due() returns rows that wait no more, so their quiet hours have ended.
LEMMA StartPassStep ==
    ASSUME IInv, NEW q \in Passes, StartPass(q)
    PROVE  IInv'
  <1> DEFINE batch == {[id |-> n, attempts |-> notices[n].attempts] : n \in {m \in DOMAIN notices : Due(m)}}
             new == [pass[q] EXCEPT !.batch = batch]
  <1>0. Shape /\ RowsHold /\ SendingHolds(q)
    BY DEF IInv, PassesHold
  <1>1. pass[q] \in PassStates
    BY <1>0 DEF Shape
  <1>2. batch \in SUBSET Reads
    BY <1>0 DEF Shape, Reads, Table
  <1>3. \A r \in batch : r.id \in DOMAIN notices /\ notices[r.id].free
    <2>1. SUFFICES ASSUME NEW n \in DOMAIN notices, Due(n) PROVE notices[n].free
      BY DEF batch
    <2>2. notices[n].wait = 0 /\ WaitsForTheEnd(notices[n])
      BY <1>0, <2>1 DEF Due, RowsHold
    <2>. QED
      BY <2>2 DEF WaitsForTheEnd
  <1>. HIDE DEF batch
  <1>4. new \in PassStates /\ new.batch = batch /\ new.sending = pass[q].sending /\ new.result = pass[q].result
    BY <1>1, <1>2 DEF PassStates
  <1>5. pass' = [pass EXCEPT ![q] = new] /\ UNCHANGED <<clock, quiet, raises, notices>>
    BY <1>0 DEF StartPass, batch, Shape, settings
  <1>6. pass'[q] = new
    BY <1>0, <1>5 DEF Shape
  <1>7. BatchHolds(q)' /\ SendingHolds(q)'
    <2>. HIDE DEF new
    <2>. QED
      BY <1>0, <1>3, <1>4, <1>5, <1>6 DEF BatchHolds, SendingHolds
  <1>. HIDE DEF new
  <1>. QED
    BY <1>4, <1>5, <1>7, PassOnlyFrame

\* The claim is conditional on a state in which nobody is sending the row.
LEMMA ClaimStep ==
    ASSUME IInv, NEW q \in Passes, NEW r \in pass[q].batch, Claim(q, r)
    PROVE  IInv'
  <1>0. Shape /\ RowsHold /\ PassesHold /\ BatchHolds(q) /\ SendingHolds(q)
    BY DEF IInv, PassesHold
  <1>1. pass[q] \in PassStates /\ r \in Reads /\ r # NoRead
    BY <1>0, NoReadIsNone DEF Shape, PassStates
  <1>2. r.id \in DOMAIN notices /\ notices[r.id].free
    BY <1>0 DEF BatchHolds
  <1>3. notices[r.id] \in Table /\ CountsHold(notices[r.id])
    BY <1>0, <1>2 DEF Shape, RowsHold
  <1>4. UNCHANGED <<clock, quiet, raises>> /\ pass[q].sending = NoRead /\ pass[q].result = "none"
    BY <1>0 DEF Claim, settings, SendingHolds
  <1>5. CASE Claims(r.id)
    <2> DEFINE row == [notices[r.id] EXCEPT !.state = "sending", !.attempts = @ + 1]
               new == [pass[q] EXCEPT !.batch = @ \ {r}, !.sending = r]
    <2>1. /\ row \in Table /\ row.state = "sending" /\ row.free = notices[r.id].free
          /\ row.reached = notices[r.id].reached /\ row.unheard = notices[r.id].unheard
      <3> DEFINE old == notices[r.id]
                 attempts == old.attempts + 1
      <3>1. old \in Table /\ attempts \in Nat
        BY <1>3 DEF Table
      <3>2. row = [old EXCEPT !.state = "sending", !.attempts = attempts]
        OBVIOUS
      <3>. HIDE DEF old, attempts, row
      <3>3. /\ row \in Table /\ row.state = "sending" /\ row.free = old.free
            /\ row.reached = old.reached /\ row.unheard = old.unheard
        BY <3>1, <3>2 DEF Table
      <3>. QED
        BY <3>3 DEF old
    <2>2. /\ new \in PassStates /\ new.batch \subseteq pass[q].batch
          /\ new.sending = r /\ new.result = "none"
      BY <1>1, <1>4 DEF PassStates
    <2>3. notices' = [notices EXCEPT ![r.id] = row] /\ pass' = [pass EXCEPT ![q] = new]
      BY <1>0, <1>1, <1>2, <1>5 DEF Claim, Shape
    <2>. HIDE DEF row, new
    <2>4. pass'[q] = new /\ DOMAIN notices' = DOMAIN notices /\ notices'[r.id] = row
      BY <1>0, <1>2, <2>3 DEF Shape
    <2>5. row.reached <= row.unheard
      BY <1>3, <1>5, <2>1 DEF Claims, CountsHold
    <2>6. CountsHold(row) /\ WaitsForTheEnd(row)
      BY <1>2, <2>1, <2>5 DEF CountsHold, WaitsForTheEnd, Table
    <2>7. BatchHolds(q)'
      <3>1. \A x \in pass[q].batch : x.id \in DOMAIN notices /\ notices'[x.id].free
        BY <1>0, <2>1, <2>3, <2>4 DEF BatchHolds, Shape
      <3>. QED
        BY <2>2, <2>4, <3>1 DEF BatchHolds
    <2>8. SendingHolds(q)'
      BY <1>1, <1>2, <2>1, <2>2, <2>4, <2>5 DEF SendingHolds
    <2>9. \A p \in Passes \ {q} : pass[p].sending = NoRead \/ pass[p].sending.id # r.id
      BY <1>0, <1>5 DEF Claims, PassesHold, SendingHolds
    <2>. QED
      BY <1>1, <1>2, <1>4, <2>1, <2>2, <2>3, <2>6, <2>7, <2>8, <2>9, DeliveryFrame
  <1>6. CASE ~Claims(r.id)
    <2> DEFINE new == [pass[q] EXCEPT !.batch = @ \ {r}]
    <2>1. /\ new \in PassStates /\ new.batch \subseteq pass[q].batch
          /\ new.sending = NoRead /\ new.result = "none"
      BY <1>1, <1>4 DEF PassStates
    <2>2. UNCHANGED notices /\ pass' = [pass EXCEPT ![q] = new]
      BY <1>0, <1>6 DEF Claim, Shape
    <2>. HIDE DEF new
    <2>3. pass'[q] = new
      BY <1>0, <2>2 DEF Shape
    <2>4. BatchHolds(q)' /\ SendingHolds(q)'
      BY <1>0, <2>1, <2>2, <2>3 DEF BatchHolds, SendingHolds
    <2>. QED
      BY <1>4, <2>1, <2>2, <2>4, PassOnlyFrame
  <1>. QED
    BY <1>5, <1>6

\* What a send does to its row.
Handed(row, reached, unheard) ==
    [row EXCEPT !.reached = row.reached + reached, !.unheard = row.unheard + unheard]

HandsOver(q, reached, unheard) ==
    notices' = [notices EXCEPT ![pass[q].sending.id] =
                   Handed(notices[pass[q].sending.id], reached, unheard)]

\* A row is handed over at most once before its pass knows the result, and an
\* error comes back only where nothing was handed over or the answer was lost.
LEMMA SendFrame ==
    ASSUME IInv, NEW q \in Passes, Sending(q), UNCHANGED <<clock, quiet, raises>>,
           NEW reached \in {0, 1}, NEW unheard \in {0, 1}, NEW result \in {"ok", "error"},
           result = "error" => reached <= unheard,
           HandsOver(q, reached, unheard),
           pass' = [pass EXCEPT ![q].result = result]
    PROVE  IInv'
  <1> DEFINE n == pass[q].sending.id
             old == notices[n]
             row == Handed(old, reached, unheard)
             new == [pass[q] EXCEPT !.result = result]
  <1>0. Shape /\ RowsHold /\ PassesHold /\ BatchHolds(q)
    BY DEF IInv, PassesHold
  <1>1. pass[q] \in PassStates /\ pass[q].sending # NoRead /\ pass[q].result = "none"
    BY <1>0 DEF Shape, Sending
  <1>2. /\ n \in DOMAIN notices /\ old \in Table
        /\ old.state = "sending" /\ old.free /\ old.reached <= old.unheard
        /\ \A p \in Passes \ {q} : pass[p].sending = NoRead \/ pass[p].sending.id # n
    BY <1>1, SentRow
  <1>3. notices' = [notices EXCEPT ![n] = row]
    BY DEF HandsOver
  <1>4. /\ row \in Table /\ row.state = "sending" /\ row.free = old.free
        /\ row.reached = old.reached + reached /\ row.unheard = old.unheard + unheard
    <2>. HIDE DEF old
    <2>1. old.reached + reached \in Nat /\ old.unheard + unheard \in Nat
      BY <1>2 DEF Table
    <2>. QED
      BY <1>2, <2>1 DEF Table, Handed
  <1>5. /\ new \in PassStates /\ new.batch = pass[q].batch
        /\ new.sending = pass[q].sending /\ new.result = result
    BY <1>1 DEF PassStates
  <1>6. pass' = [pass EXCEPT ![q] = new]
    BY <1>0 DEF Shape
  <1>. HIDE DEF row, new
  <1>7. pass'[q] = new /\ DOMAIN notices' = DOMAIN notices /\ notices'[n] = row
    BY <1>0, <1>2, <1>3, <1>6 DEF Shape
  <1>8. CountsHold(row) /\ WaitsForTheEnd(row)
    <2>1. old.reached \in Nat /\ old.unheard \in Nat
      BY <1>2 DEF Table
    <2>. QED
      BY <1>2, <1>4, <2>1 DEF CountsHold, WaitsForTheEnd
  <1>9. BatchHolds(q)'
    <2>1. \A m \in DOMAIN notices : notices[m].free => notices'[m].free
      BY <1>0, <1>2, <1>3, <1>4, <1>7 DEF Shape
    <2>. QED
      BY <1>0, <1>5, <1>7, <2>1 DEF BatchHolds
  <1>10. SendingHolds(q)'
    <2>1. old.reached \in Nat /\ old.unheard \in Nat
      BY <1>2 DEF Table
    <2>2. result # "ok" => row.reached <= row.unheard
      BY <1>2, <1>4, <2>1
    <2>. HIDE DEF old
    <2>. QED
      BY <1>1, <1>2, <1>4, <1>5, <1>7, <2>2 DEF SendingHolds
  <1>11. notices[n].free => row.free
    BY <1>2, <1>4
  <1>. HIDE DEF n, old
  <1>. QED
    BY <1>2, <1>3, <1>4, <1>5, <1>6, <1>8, <1>9, <1>10, <1>11, DeliveryFrame

LEMMA HandedNothing ==
    ASSUME NEW row \in Table
    PROVE  Handed(row, 0, 0) = row
  <1>1. row.reached + 0 = row.reached /\ row.unheard + 0 = row.unheard
    BY DEF Table
  <1>. QED
    BY <1>1 DEF Handed, Table

LEMMA HandedOnce ==
    ASSUME NEW row \in Table
    PROVE  [row EXCEPT !.reached = row.reached + 1] = Handed(row, 1, 0)
  <1>1. row.unheard + 0 = row.unheard
    BY DEF Table
  <1>. QED
    BY <1>1 DEF Handed, Table


\* The ways a send may change its row.
LEMMA WaysOfHanding ==
    ASSUME IInv, NEW q \in Passes, Sending(q)
    PROVE  /\ UNCHANGED notices => HandsOver(q, 0, 0)
           /\ notices' = [notices EXCEPT ![pass[q].sending.id].reached = @ + 1] => HandsOver(q, 1, 0)
           /\ Unheard(pass[q].sending.id) => HandsOver(q, 1, 1)
  <1> DEFINE n == pass[q].sending.id
             old == notices[n]
  <1>1. n \in DOMAIN notices /\ old \in Table
    BY SentRow DEF Sending
  <1>2. notices \in [DOMAIN notices -> Table]
    BY DEF IInv, Shape
  <1>3. UNCHANGED notices => HandsOver(q, 0, 0)
    <2>1. old = Handed(old, 0, 0)
      BY <1>1, HandedNothing
    <2>. HIDE DEF n, old
    <2>2. notices = [notices EXCEPT ![n] = old]
      BY <1>1, <1>2 DEF old
    <2>. QED
      BY <2>1, <2>2 DEF HandsOver, n, old
  <1>4. notices' = [notices EXCEPT ![n].reached = @ + 1] => HandsOver(q, 1, 0)
    <2>1. [old EXCEPT !.reached = old.reached + 1] = Handed(old, 1, 0)
      BY <1>1, HandedOnce
    <2>. QED
      BY <2>1 DEF HandsOver
  <1>5. Unheard(n) => HandsOver(q, 1, 1)
    BY <1>1, <1>2 DEF HandsOver, Unheard, Handed
  <1>. QED
    BY <1>3, <1>4, <1>5

\* A send hands its row over at most once, and says so unless the answer was lost.
Hands(q) ==
    \E reached, unheard \in {0, 1}, result \in {"ok", "error"} :
        /\ result = "error" => reached <= unheard
        /\ HandsOver(q, reached, unheard)
        /\ pass' = [pass EXCEPT ![q].result = result]

LEMMA SendEmailHands ==
    ASSUME IInv, NEW q \in Passes, SendEmail(q)
    PROVE  Sending(q) /\ Hands(q) /\ UNCHANGED <<clock, quiet, raises>>
  <1>1. Sending(q) /\ UNCHANGED <<clock, quiet, raises>>
    BY DEF SendEmail, settings
  <1>. QED
    BY <1>1, WaysOfHanding DEF SendEmail, Hands

LEMMA SendPushHands ==
    ASSUME IInv, NEW q \in Passes, SendPush(q)
    PROVE  Sending(q) /\ Hands(q) /\ UNCHANGED <<clock, quiet, raises>>
  <1> DEFINE n == pass[q].sending.id
  <1>1. Sending(q) /\ UNCHANGED <<clock, quiet, raises>>
    BY DEF SendPush
  <1>2. PICK answer \in [devices[n.to] -> {"taken", "gone", "failed", "unheard"}] :
           LET With(a) == {d \in devices[n.to] : answer[d] = a}
           IN  /\ IF With("unheard") # {} THEN Unheard(n)
                  ELSE /\ notices' = [notices EXCEPT ![n].reached =
                                         IF With("taken") # {} THEN @ + 1 ELSE @]
                       /\ UNCHANGED faults
               /\ pass' = [pass EXCEPT ![q].result =
                              IF With("taken") = {} /\ With("failed") \cup With("unheard") # {}
                              THEN "error" ELSE "ok"]
    BY DEF SendPush
  <1> DEFINE With(a) == {d \in devices[n.to] : answer[d] = a}
             result == IF With("taken") = {} /\ With("failed") \cup With("unheard") # {}
                       THEN "error" ELSE "ok"
  <1>3. pass' = [pass EXCEPT ![q].result = result] /\ result \in {"ok", "error"}
    BY <1>2
  <1>4. CASE With("unheard") # {}
    <2>1. HandsOver(q, 1, 1)
      BY <1>1, <1>2, <1>4, WaysOfHanding
    <2>. HIDE DEF result, With
    <2>2. CASE result = "ok"
      BY <1>1, <1>3, <2>1, <2>2 DEF Hands
    <2>3. CASE result = "error"
      BY <1>1, <1>3, <2>1, <2>3 DEF Hands
    <2>. QED
      BY <1>3, <2>2, <2>3
  <1>5. CASE With("unheard") = {} /\ With("taken") # {}
    <2>1. HandsOver(q, 1, 0)
      BY <1>1, <1>2, <1>5, WaysOfHanding
    <2>2. result = "ok"
      BY <1>5
    <2>. HIDE DEF result, With
    <2>. QED
      BY <1>1, <1>3, <2>1, <2>2 DEF Hands
  <1>6. CASE With("unheard") = {} /\ With("taken") = {}
    <2>1. n \in DOMAIN notices /\ notices[n] \in Table /\ notices \in [DOMAIN notices -> Table]
      BY <1>1, SentRow DEF Sending, IInv, Shape
    <2>2. notices' = [notices EXCEPT ![n].reached = @]
      BY <1>2, <1>6
    <2>3. [notices[n] EXCEPT !.reached = notices[n].reached] = notices[n]
      BY <2>1 DEF Table
    <2>4. UNCHANGED notices
      BY <2>1, <2>2, <2>3
    <2>5. HandsOver(q, 0, 0)
      BY <1>1, <2>4, WaysOfHanding
    <2>. HIDE DEF result, With
    <2>6. CASE result = "ok"
      BY <1>1, <1>3, <2>5, <2>6 DEF Hands
    <2>7. CASE result = "error"
      BY <1>1, <1>3, <2>5, <2>7 DEF Hands
    <2>. QED
      BY <1>3, <2>6, <2>7
  <1>. QED
    BY <1>4, <1>5, <1>6

LEMMA SendStep ==
    ASSUME IInv, NEW q \in Passes, SendEmail(q) \/ SendPush(q)
    PROVE  IInv'
  <1>1. Sending(q) /\ Hands(q) /\ UNCHANGED <<clock, quiet, raises>>
    BY SendEmailHands, SendPushHands
  <1>. QED
    BY <1>1, SendFrame DEF Hands

\* The pass a written outcome leaves behind: on to the next row.
LEMMA NextRowEffect ==
    ASSUME IInv, NEW q \in Passes, NextRow(q)
    PROVE  /\ [Idle EXCEPT !.batch = pass[q].batch] \in PassStates
           /\ [Idle EXCEPT !.batch = pass[q].batch].batch = pass[q].batch
           /\ [Idle EXCEPT !.batch = pass[q].batch].sending = NoRead
           /\ [Idle EXCEPT !.batch = pass[q].batch].result = "none"
           /\ pass'[q] = [Idle EXCEPT !.batch = pass[q].batch]
  <1>1. pass \in [Passes -> PassStates] /\ pass[q] \in PassStates
    BY DEF IInv, Shape
  <1>. QED
    BY <1>1 DEF NextRow, Idle, PassStates

\* A pass that has a result is sending.
LEMMA ResultOfSending ==
    ASSUME IInv, NEW q \in Passes, pass[q].result # "none"
    PROVE  pass[q].sending # NoRead
  BY DEF IInv, PassesHold, SendingHolds

\* The row a pass lets go keeps its counts, and may be claimed again only where
\* its handing over was not confirmed.
LEMMA OutcomeFrame ==
    ASSUME IInv, NEW q \in Passes, pass[q].result # "none",
           UNCHANGED <<clock, quiet, raises>>, NextRow(q),
           NEW state \in {"sent", "failed", "abandoned"}, NEW wait \in Int,
           state = "failed" => pass[q].result # "ok",
           notices' = [notices EXCEPT ![pass[q].sending.id] =
                          [notices[pass[q].sending.id] EXCEPT !.state = state, !.wait = wait]]
    PROVE  IInv'
  <1> DEFINE n == pass[q].sending.id
             old == notices[n]
             row == [old EXCEPT !.state = state, !.wait = wait]
             new == [Idle EXCEPT !.batch = pass[q].batch]
  <1>0. Shape /\ BatchHolds(q)
    BY DEF IInv, PassesHold
  <1>1. /\ n \in DOMAIN notices /\ old \in Table /\ old.free
        /\ pass[q].result # "ok" => old.reached <= old.unheard
        /\ CountsHold(old)
        /\ \A p \in Passes \ {q} : pass[p].sending = NoRead \/ pass[p].sending.id # n
    BY ResultOfSending, SentRow
  <1>2. /\ row \in Table /\ row.state = state /\ row.free = old.free
        /\ row.reached = old.reached /\ row.unheard = old.unheard
    <2>. HIDE DEF old
    <2>. QED
      BY <1>1 DEF Table
  <1>3. /\ new \in PassStates /\ new.batch = pass[q].batch /\ new.sending = NoRead
        /\ new.result = "none" /\ pass'[q] = new
    BY NextRowEffect
  <1>4. notices' = [notices EXCEPT ![n] = row] /\ pass' = [pass EXCEPT ![q] = new]
    BY DEF NextRow
  <1>. HIDE DEF row, new
  <1>5. DOMAIN notices' = DOMAIN notices /\ notices'[n] = row
    BY <1>0, <1>1, <1>4 DEF Shape
  <1>6. CountsHold(row) /\ WaitsForTheEnd(row)
    BY <1>1, <1>2 DEF CountsHold, WaitsForTheEnd
  <1>7. BatchHolds(q)'
    <2>1. \A m \in DOMAIN notices : notices[m].free => notices'[m].free
      BY <1>0, <1>1, <1>2, <1>4, <1>5 DEF Shape
    <2>. QED
      BY <1>0, <1>3, <1>5, <2>1 DEF BatchHolds
  <1>8. SendingHolds(q)'
    BY <1>3 DEF SendingHolds
  <1>. HIDE DEF n, old
  <1>9. notices[n].free => row.free
    BY <1>1, <1>2 DEF old
  <1>. QED
    BY <1>1, <1>2, <1>3, <1>4, <1>6, <1>7, <1>8, <1>9, DeliveryFrame

LEMMA MarkSentStep ==
    ASSUME IInv, NEW q \in Passes, MarkSent(q)
    PROVE  IInv'
  <1> DEFINE old == notices[pass[q].sending.id]
  <1>1. /\ pass[q].result # "none" /\ UNCHANGED <<clock, quiet, raises>> /\ NextRow(q)
        /\ notices' = [notices EXCEPT ![pass[q].sending.id].state = "sent"]
    BY DEF MarkSent, settings
  <1>2. old \in Table
    BY <1>1, ResultOfSending, SentRow
  <1>3. old.wait \in Int /\ [old EXCEPT !.state = "sent"] = [old EXCEPT !.state = "sent", !.wait = old.wait]
    <2>. HIDE DEF old
    <2>. QED
      BY <1>2 DEF Table
  <1>4. notices' = [notices EXCEPT ![pass[q].sending.id] = [old EXCEPT !.state = "sent", !.wait = old.wait]]
    BY <1>1, <1>3
  <1>. QED
    BY <1>1, <1>3, <1>4, OutcomeFrame

LEMMA RecordFailureStep ==
    ASSUME IInv, NEW q \in Passes, RecordFailure(q)
    PROVE  IInv'
  <1> DEFINE old == notices[pass[q].sending.id]
             attempts == pass[q].sending.attempts + 1
             state == IF GivesUp(attempts) THEN "abandoned" ELSE "failed"
  <1>1. /\ pass[q].result = "error" /\ UNCHANGED <<clock, quiet, raises>> /\ NextRow(q)
        /\ notices' = [notices EXCEPT ![pass[q].sending.id].state = state,
                                      ![pass[q].sending.id].wait = Backoff(attempts)]
    BY DEF RecordFailure, settings
  <1>2. pass[q].sending \in Reads /\ pass[q].sending.id \in DOMAIN notices
    BY <1>1, ResultOfSending, SentRow
  <1>3. Backoff(attempts) \in Int
    <2>1. attempts \in Nat
      BY <1>2 DEF Reads
    <2>. HIDE DEF attempts
    <2>2. 3^attempts \in Int
      BY <2>1
    <2>. QED
      BY <2>2, NotifyAssumption DEF Backoff
  <1>4. state \in {"sent", "failed", "abandoned"}
    OBVIOUS
  <1>. HIDE DEF state, attempts
  <1>5. notices' = [notices EXCEPT ![pass[q].sending.id] =
                       [old EXCEPT !.state = state, !.wait = Backoff(attempts)]]
    BY <1>1, <1>2 DEF IInv, Shape
  <1>. QED
    BY <1>1, <1>3, <1>4, <1>5, OutcomeFrame

LEMMA LoseOutcomeStep ==
    ASSUME IInv, NEW q \in Passes, LoseOutcome(q)
    PROVE  IInv'
  <1>0. Shape /\ BatchHolds(q)
    BY DEF IInv, PassesHold
  <1>1. UNCHANGED <<clock, quiet, raises, notices>>
    BY DEF LoseOutcome, Fault, settings
  <1>2. CASE pass' = [pass EXCEPT ![q] = Idle]
    <2>1. pass'[q] = Idle
      BY <1>0, <1>2 DEF Shape
    <2>2. BatchHolds(q)' /\ SendingHolds(q)' /\ Idle.sending = NoRead
      BY <2>1 DEF BatchHolds, SendingHolds, Idle
    <2>. QED
      BY <1>1, <1>2, <2>2, IdleType, PassOnlyFrame
  <1>3. CASE NextRow(q)
    <2> DEFINE new == [Idle EXCEPT !.batch = pass[q].batch]
    <2>1. /\ new \in PassStates /\ new.batch = pass[q].batch /\ new.sending = NoRead
          /\ new.result = "none" /\ pass'[q] = new
      BY <1>3, NextRowEffect
    <2>2. pass' = [pass EXCEPT ![q] = new]
      BY <1>3 DEF NextRow
    <2>. HIDE DEF new
    <2>3. BatchHolds(q)' /\ SendingHolds(q)'
      BY <1>0, <1>1, <2>1 DEF BatchHolds, SendingHolds
    <2>. QED
      BY <1>1, <2>1, <2>2, <2>3, PassOnlyFrame
  <1>. QED
    BY <1>2, <1>3 DEF LoseOutcome

LEMMA CrashStep ==
    ASSUME IInv, Crash
    PROVE  IInv'
  <1>1. UNCHANGED <<clock, quiet, raises, notices>> /\ pass' = [q \in Passes |-> Idle]
    BY DEF Crash, Fault, settings
  <1>2. Shape' /\ RowsAreOld' /\ RowsHold'
    BY <1>1, IdleType DEF IInv, Shape, RowsAreOld, RowsHold, WaitsForTheEnd, CountsHold
  <1>3. \A q \in Passes : pass'[q].batch = {} /\ pass'[q].sending = NoRead /\ pass'[q].result = "none"
    BY <1>1 DEF Idle
  <1>4. PassesHold' /\ OneSender'
    BY <1>3 DEF PassesHold, BatchHolds, SendingHolds, OneSender
  <1>. QED
    BY <1>2, <1>4 DEF IInv

LEMMA RaisesStep ==
    ASSUME IInv, Raises
    PROVE  /\ IInv'
           /\ \A n \in DOMAIN notices : notices'[n] = notices[n]
  <1>1. Raising /\ \E raised : /\ RaiseIn(raised)
                               /\ \A r \in raised : r.subject \in Subjects \cup {"none"}
    <2>1. CASE \E p \in People : RaiseFill(p)
      BY <2>1 DEF RaiseFill
    <2>2. CASE RaiseImportFailure
      BY <2>2 DEF RaiseImportFailure, Telling
    <2>3. CASE \E s \in Subjects : RaiseFallback(s) \/ AnnounceVersion(s)
      BY <2>3 DEF RaiseFallback, AnnounceVersion, Telling
    <2>4. ASSUME NEW waiting \in BOOLEAN, NEW sessions \in SUBSET Subjects, Survey(waiting, sessions)
          PROVE  Raising /\ \E raised : /\ RaiseIn(raised)
                                        /\ \A r \in raised : r.subject \in Subjects \cup {"none"}
      <3> DEFINE fresh == {s \in sessions : [kind |-> "signal_change", subject |-> s] \notin claimed}
                 raised == {Telling("signal_change", s) : s \in fresh}
                              \cup (IF waiting THEN {Telling("decision_waiting", "none")} ELSE {})
      <3>1. Raising /\ RaiseIn(raised)
        BY <2>4 DEF Survey
      <3>2. fresh \subseteq Subjects
        OBVIOUS
      <3>. HIDE DEF fresh
      <3>3. \A r \in raised : r.subject \in Subjects \cup {"none"}
        BY <3>2 DEF Telling
      <3>. QED
        BY <3>1, <3>3
    <2>5. CASE \E waiting \in BOOLEAN, session \in Subjects :
                  Survey(waiting, {session}) \/ Survey(waiting, {})
      <3>1. PICK waiting \in BOOLEAN, session \in Subjects :
                  Survey(waiting, {session}) \/ Survey(waiting, {})
        BY <2>5
      <3>2. {session} \in SUBSET Subjects /\ {} \in SUBSET Subjects
        OBVIOUS
      <3>. QED
        BY <2>4, <3>1, <3>2
    <2>. QED
      BY <2>1, <2>2, <2>3, <2>5 DEF Raises
  <1>. QED
    BY <1>1, RaiseStep, RaiseEffect

-----------------------------------------------------------------------------
LEMMA InvStep ==
    ASSUME IInv, [Next]_vars
    PROVE  IInv'
  <1>1. CASE UNCHANGED vars
    <2>1. UNCHANGED <<clock, notices, pass, raises, quiet>>
      BY <1>1 DEF vars, settings
    <2>. QED
      BY <2>1, SettingsFrame DEF IInv, Shape
  <1>2. CASE Settings
    BY <1>2, SettingsStep
  <1>3. CASE Raises
    BY <1>3, RaisesStep
  <1>4. CASE \E q \in Passes : StartPass(q) \/ Deliver(q) \/ LoseOutcome(q)
    BY <1>4, StartPassStep, ClaimStep, SendStep, MarkSentStep, RecordFailureStep, LoseOutcomeStep
       DEF Deliver
  <1>5. CASE Crash
    BY <1>5, CrashStep
  <1>6. CASE Tick
    BY <1>6, TickStep
  <1>. QED
    BY <1>1, <1>2, <1>3, <1>4, <1>5, <1>6 DEF Next

\* The rows, what the passes know of them and the time of day stay consistent,
\* through every interleaving of passes, settings, raises, crashes and lost writes.
THEOREM Invariance == Spec => []IInv
  <1>1. Init => IInv
    BY InvInit
  <1>2. IInv /\ [Next]_vars => IInv'
    BY InvStep
  <1>. QED
    BY <1>1, <1>2, PTL DEF Spec

\* "Nothing is sent twice", as far as the code can know (DeliverDue): whichever
\* passes read a row together and wherever one is cut short, the row is handed over
\* once, and once more for every answer that was lost.
THEOREM ToldOnce == Spec => []NobodyIsToldTwice
  <1>1. IInv => NobodyIsToldTwice
    BY DEF IInv, RowsHold, CountsHold, NobodyIsToldTwice
  <1>. QED
    BY <1>1, Invariance, PTL

\* Only a send raises the count of a row, and it does so for the row it holds.
LEMMA SendsAreFree ==
    ASSUME IInv, [Next]_vars
    PROVE  \A n \in DOMAIN notices : notices'[n].reached > notices[n].reached => notices[n].free
  <1> SUFFICES ASSUME NEW n \in DOMAIN notices
               PROVE  notices'[n].reached > notices[n].reached => notices[n].free
    OBVIOUS
  <1>0. notices \in [DOMAIN notices -> Table] /\ notices[n] \in Table /\ notices[n].reached \in Nat
    BY DEF IInv, Shape, Table
  <1>1. ASSUME notices'[n].reached = notices[n].reached
        PROVE  notices'[n].reached > notices[n].reached => notices[n].free
    BY <1>0, <1>1
  <1>2. CASE UNCHANGED notices
    BY <1>1, <1>2
  <1>3. CASE Settings
    BY <1>2, <1>3 DEF Settings, SetPreference, Unsubscribe, SetQuietHours, Subscribe, RevokeDevice,
                      SetStatus, Change
  <1>4. CASE Raises
    BY <1>1, <1>4, RaisesStep
  <1>5. ASSUME NEW q \in Passes, SendEmail(q) \/ SendPush(q)
        PROVE  notices'[n].reached > notices[n].reached => notices[n].free
    <2>1. Sending(q) /\ Hands(q)
      BY <1>5, SendEmailHands, SendPushHands
    <2>2. notices[pass[q].sending.id].free
      BY <2>1, SentRow DEF Sending
    <2>3. n # pass[q].sending.id => notices'[n] = notices[n]
      BY <2>1 DEF Hands, HandsOver
    <2>. QED
      BY <1>1, <2>2, <2>3
  <1>6. ASSUME NEW q \in Passes, NEW r \in pass[q].batch, Claim(q, r)
        PROVE  notices'[n].reached > notices[n].reached => notices[n].free
    <2>1. n # r.id => notices'[n] = notices[n]
      BY <1>0, <1>6 DEF Claim
    <2>2. notices[r.id].free
      BY <1>6 DEF IInv, PassesHold, BatchHolds
    <2>. QED
      BY <1>1, <2>1, <2>2
  <1>7. ASSUME NEW q \in Passes, MarkSent(q) \/ RecordFailure(q)
        PROVE  notices'[n].reached > notices[n].reached => notices[n].free
    <2>1. n # pass[q].sending.id => notices'[n] = notices[n]
      BY <1>0, <1>7 DEF MarkSent, RecordFailure
    <2>2. notices[pass[q].sending.id].free
      BY <1>7, ResultOfSending, SentRow DEF MarkSent, RecordFailure
    <2>. QED
      BY <1>1, <2>1, <2>2
  <1>8. CASE \E q \in Passes : StartPass(q) \/ LoseOutcome(q)
    BY <1>2, <1>8 DEF StartPass, LoseOutcome, Fault
  <1>9. CASE Crash
    BY <1>2, <1>9 DEF Crash, Fault
  <1>10. CASE Tick
    <2>1. /\ notices' = [m \in DOMAIN notices |->
                [notices[m] EXCEPT !.wait = IF @ = 0 THEN 0 ELSE @ - 1,
                                   !.free = @ \/ ~InWindow(notices[m].window, (clock + 1) % DayLength)]]
      BY <1>10, Zenon DEF Tick
    <2>2. notices'[n].reached = notices[n].reached
      BY <1>0, <2>1 DEF Table
    <2>. QED
      BY <1>1, <2>2
  <1>11. CASE UNCHANGED vars
    BY <1>2, <1>11 DEF vars
  <1>. QED
    BY <1>3, <1>4, <1>5, <1>6, <1>7, <1>8, <1>9, <1>10, <1>11 DEF Next, Deliver

\* "Nothing raised inside quiet hours is sent early": a notice is handed over only
\* after a moment outside the window it was raised under, whatever its person
\* changes meanwhile and however long the day.
THEOREM NotEarly == Spec => NeverSentEarly
  <1>1. IInv /\ [Next]_vars =>
           [\A n \in DOMAIN notices : notices'[n].reached > notices[n].reached => notices[n].free]_vars
    BY SendsAreFree
  <1>. QED
    BY <1>1, Invariance, PTL DEF Spec, NeverSentEarly
=============================================================================

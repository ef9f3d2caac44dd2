------------------------------- MODULE Notify -------------------------------
(***************************************************************************)
(* Notifications (internal/notify): raised on the transaction of the       *)
(* change they report, held for quiet hours, claimed and sent by delivery  *)
(* passes, tried again after a failure and given up on in the end.         *)
(*                                                                         *)
(* Two passes run in the process: the one of internal/scheduler's ticker   *)
(* and the one at the end of the night.  Time is the time of day; a row's  *)
(* available_at is the time it still has to wait.                          *)
(***************************************************************************)
EXTENDS Integers, FiniteSets

CONSTANTS
    People, Owners,
    Consents,         \* the switches people may start with
    Switched,         \* the kinds whose switches they change (bound)
    Subjects,         \* the sessions, versions and fallback periods there are to tell of
    Devices,          \* browsers a person may subscribe
    Windows,          \* quiet hours people set: [start, end] of a day
    DayLength,        \* moments of a day
    MaximumAttempts,
    BackoffCap,       \* 240 minutes in the code
    Passes,
    MaxRaises,        \* transactions that raise (bound)
    MaxChanges,       \* changes people make to their settings (bound)
    MaxFaults         \* crashes and lost writes (bound)

OwnerOnlyKinds == {"pipeline_failure", "market_data_fallback"}
Kinds == OwnerOnlyKinds \cup {"decision_waiting", "paper_fill", "signal_change", "release_deployed"}
Channels == {"email", "web_push"}
Clock    == 0..(DayLength - 1)
NoWindow == [start |-> 0, end |-> 0]

ASSUME NotifyAssumption ==
    /\ \A consent \in Consents : \A switch \in consent :
          /\ switch \in [who: People, kind: Kinds, channel: Channels]
          /\ switch.kind \in OwnerOnlyKinds => switch.who \in Owners
    /\ IsFiniteSet(Passes)
    /\ Owners \subseteq People
    /\ Switched \subseteq Kinds
    /\ "none" \notin Subjects
    /\ DayLength \in Nat \ {0}
    /\ Windows \subseteq {w \in [start: Clock, end: Clock] : w.start # w.end}
    /\ MaximumAttempts \in Nat \ {0}
    /\ BackoffCap \in Nat \ {0}
    /\ {MaxRaises, MaxChanges, MaxFaults} \subseteq Nat

VARIABLES
    clock,     \* the time of day
    active,    \* people whose account is active
    prefs,     \* notification_preferences that are enabled
    quiet,     \* notification_quiet_hours
    devices,   \* push_subscriptions
    notices,   \* notifications
    claimed,   \* signal_change_sessions and deployed_versions
    pass,      \* each pass: what it read and has not tried, what it is sending
    raises, changes, faults

settings == <<active, prefs, quiet, devices, changes>>
vars     == <<clock, settings, notices, claimed, pass, raises, faults>>

Ids == [raise: 1..MaxRaises, kind: Kinds, to: People, channel: Channels]

\* A notification row, and its history: how often a server took it, how often the
\* answer to that was lost, the quiet window in force when it was raised, and
\* whether a moment outside it has come.
Waits == 0..(IF DayLength > BackoffCap THEN DayLength ELSE BackoffCap)
Rows  == [state: {"pending", "sending", "sent", "failed", "abandoned"},
          subject: Subjects \cup {"none"}, wait: Waits, attempts: Nat,
          reached: Nat, unheard: Nat, window: Windows \cup {NoWindow}, free: BOOLEAN]

\* What due() returned of a row.
Reads  == [id: Ids, attempts: Nat]
NoRead == [to |-> "nobody"]
Idle   == [batch |-> {}, sending |-> NoRead, result |-> "none"]

TypeOK ==
    /\ clock \in Clock
    /\ active \subseteq People
    /\ prefs \subseteq [who: People, kind: Kinds, channel: Channels]
    /\ quiet \in [People -> Windows \cup {NoWindow}]
    /\ devices \in [People -> SUBSET Devices]
    /\ DOMAIN notices \subseteq Ids
    /\ notices \in [DOMAIN notices -> Rows]
    /\ claimed \subseteq [kind: Kinds, subject: Subjects]
    /\ DOMAIN pass = Passes
    /\ \A q \in Passes : /\ pass[q].batch \subseteq Reads
                          /\ pass[q].sending \in Reads \cup {NoRead}
                          /\ pass[q].result \in {"none", "ok", "error"}
    /\ raises \in 0..MaxRaises
    /\ changes \in 0..MaxChanges
    /\ faults \in 0..MaxFaults

Init ==
    /\ clock = 0
    /\ active = People
    /\ prefs \in Consents
    /\ quiet \in [People -> Windows \cup {NoWindow}]
    /\ devices \in [People -> SUBSET Devices]
    /\ notices = [n \in {} |-> 0]
    /\ claimed = {}
    /\ pass = [q \in Passes |-> Idle]
    /\ raises = 0
    /\ changes = 0
    /\ faults = 0

-----------------------------------------------------------------------------
(***************************************************************************)
(* What people say about being told things.                                *)
(***************************************************************************)
Change ==
    /\ changes < MaxChanges
    /\ changes' = changes + 1
    /\ UNCHANGED <<clock, notices, claimed, pass, raises, faults>>

\* SetPreference: an owner's kind is refused to anybody else.
SetPreference(p, kind, channel, enabled) ==
    LET switch == [who |-> p, kind |-> kind, channel |-> channel]
    IN  /\ Change
        /\ p \in active
        /\ kind \in OwnerOnlyKinds => p \in Owners
        /\ prefs' = IF enabled THEN prefs \cup {switch} ELSE prefs \ {switch}
        /\ UNCHANGED <<active, quiet, devices>>

\* Unsubscribe: the signed link of an email, good whether or not the account is.
Unsubscribe(n) ==
    /\ Change
    /\ n.channel = "email"
    /\ notices[n].reached > 0
    /\ prefs' = prefs \ {[who |-> n.to, kind |-> n.kind, channel |-> n.channel]}
    /\ UNCHANGED <<active, quiet, devices>>

SetQuietHours(p, window) ==
    /\ Change
    /\ p \in active
    /\ quiet' = [quiet EXCEPT ![p] = window]
    /\ UNCHANGED <<active, prefs, devices>>

Subscribe(p, device) ==
    /\ Change
    /\ p \in active
    /\ devices' = [devices EXCEPT ![p] = @ \cup {device}]
    /\ UNCHANGED <<active, prefs, quiet>>

RevokeDevice(p, device) ==
    /\ Change
    /\ p \in active /\ device \in devices[p]
    /\ devices' = [devices EXCEPT ![p] = @ \ {device}]
    /\ UNCHANGED <<active, prefs, quiet>>

\* The owner deactivates a member's account, or activates it again.
SetStatus(p) ==
    /\ Change
    /\ p \notin Owners
    /\ active' = IF p \in active THEN active \ {p} ELSE active \cup {p}
    /\ UNCHANGED <<prefs, quiet, devices>>

-----------------------------------------------------------------------------
(***************************************************************************)
(* Raising.                                                                *)
(***************************************************************************)

\* Fault: the evening half of a window across midnight ends the same day.
ReleaseSameDay(w, now) ==
    IF w = NoWindow THEN now
    ELSE IF w.start < w.end
         THEN IF w.start <= now /\ now < w.end THEN w.end ELSE now
         ELSE IF w.start <= now \/ now < w.end THEN w.end ELSE now

\* QuietHours.Release: now outside the window, its end inside.  A window whose
\* end is before its start crosses midnight.
Release(w, now) ==
    IF w = NoWindow THEN now
    ELSE IF w.start < w.end
         THEN IF w.start <= now /\ now < w.end THEN w.end ELSE now
         ELSE IF w.start <= now THEN w.end + DayLength
              ELSE IF now < w.end THEN w.end ELSE now

InWindow(w, t) ==
    IF w.start <= w.end THEN w.start <= t /\ t < w.end ELSE t >= w.start \/ t < w.end

\* RaiseIn: one row per active person who enabled the kind, per channel.  An
\* empty audience is everybody.  A raise is [kind, subject, audience].
Consented(n, audience) ==
    /\ n.to \in active
    /\ [who |-> n.to, kind |-> n.kind, channel |-> n.channel] \in prefs
    /\ n.kind \in OwnerOnlyKinds => n.to \in Owners
    /\ audience = {} \/ n.to \in audience

NewRow(p, subject) ==
    LET release == Release(quiet[p], clock)
    IN  [state |-> "pending", subject |-> subject, attempts |-> 0, reached |-> 0, unheard |-> 0,
         wait |-> IF release > clock THEN release - clock ELSE 0,
         window |-> quiet[p], free |-> ~InWindow(quiet[p], clock)]

RaiseIn(raised) ==
    LET told == {n \in Ids : /\ n.raise = raises + 1
                             /\ \E r \in raised : r.kind = n.kind /\ Consented(n, r.audience)}
        Of(n) == CHOOSE r \in raised : r.kind = n.kind
    IN  notices' = [n \in DOMAIN notices \cup told |->
                       IF n \in told THEN NewRow(n.to, Of(n).subject) ELSE notices[n]]

Telling(kind, subject) == [kind |-> kind, subject |-> subject, audience |-> {}]

Raising ==
    /\ raises < MaxRaises
    /\ raises' = raises + 1
    /\ UNCHANGED <<clock, settings, pass, faults>>

\* A paper order filled or could not: its owner is told.
RaiseFill(p) ==
    /\ Raising
    /\ RaiseIn({[kind |-> "paper_fill", subject |-> "none", audience |-> {p}]})
    /\ UNCHANGED claimed

RaiseImportFailure ==
    /\ Raising
    /\ RaiseIn({Telling("pipeline_failure", "none")})
    /\ UNCHANGED claimed

\* The period is told unless a notice of it exists.
RaiseFallback(period) ==
    /\ Raising
    /\ \A n \in DOMAIN notices : ~(n.kind = "market_data_fallback" /\ notices[n].subject = period)
    /\ RaiseIn({Telling("market_data_fallback", period)})
    /\ UNCHANGED claimed

\* Survey: decisions that wait are told each time; a session whose signals changed
\* is told by whoever inserts its row, and by nobody later.
Survey(waiting, sessions) ==
    LET fresh == {s \in sessions : [kind |-> "signal_change", subject |-> s] \notin claimed}
    IN  /\ Raising
        /\ claimed' = claimed \cup {[kind |-> "signal_change", subject |-> s] : s \in fresh}
        /\ RaiseIn({Telling("signal_change", s) : s \in fresh}
                      \cup (IF waiting THEN {Telling("decision_waiting", "none")} ELSE {}))

\* AnnounceVersion: whoever records the version first tells of it.
AnnounceVersion(version) ==
    LET deployed == [kind |-> "release_deployed", subject |-> version]
    IN  /\ Raising
        /\ deployed \notin claimed
        /\ claimed' = claimed \cup {deployed}
        /\ RaiseIn({Telling("release_deployed", version)})

-----------------------------------------------------------------------------
(***************************************************************************)
(* DeliverDue.                                                             *)
(***************************************************************************)

\* Fault: a notice that failed once is not due again.
DueOnce(n) ==
    /\ notices[n].state = "pending"
    /\ notices[n].wait = 0
    /\ n.to \in active

Due(n) ==
    /\ notices[n].state \in {"pending", "failed"}
    /\ notices[n].wait = 0
    /\ n.to \in active

\* due(): the rows that are due now, with the attempts they had.  The code tries
\* them in the order of available_at; here the order is any.
StartPass(q) ==
    /\ pass[q] = Idle
    /\ \E n \in DOMAIN notices : Due(n)
    /\ pass' = [pass EXCEPT ![q].batch =
                   {[id |-> n, attempts |-> notices[n].attempts] : n \in {m \in DOMAIN notices : Due(m)}}]
    /\ UNCHANGED <<clock, settings, notices, claimed, raises, faults>>

\* Fault: the claim is not conditional.
ClaimsAlways(n) == TRUE

\* claim: a conditional update, so one pass of several wins the row.
Claims(n) == notices[n].state \in {"pending", "failed"}

Claim(q, r) ==
    /\ r \in pass[q].batch
    /\ pass[q].sending = NoRead
    /\ IF Claims(r.id)
       THEN /\ notices' = [notices EXCEPT ![r.id].state = "sending", ![r.id].attempts = @ + 1]
            /\ pass' = [pass EXCEPT ![q].batch = @ \ {r}, ![q].sending = r]
       ELSE /\ UNCHANGED notices
            /\ pass' = [pass EXCEPT ![q].batch = @ \ {r}]
    /\ UNCHANGED <<clock, settings, claimed, raises, faults>>

Sending(q) == pass[q].sending # NoRead /\ pass[q].result = "none"

\* The server took the message and its answer was lost: SMTP's reply to the end of
\* the message or to QUIT, a push service's response.
Unheard(n) ==
    /\ faults < MaxFaults
    /\ faults' = faults + 1
    /\ notices' = [notices EXCEPT ![n].reached = @ + 1, ![n].unheard = @ + 1]

\* mailer.Send: the message is taken, or an error comes back.
SendEmail(q) ==
    LET n == pass[q].sending.id
    IN  /\ Sending(q)
        /\ n.channel = "email"
        /\ \/ /\ notices' = [notices EXCEPT ![n].reached = @ + 1]
              /\ pass' = [pass EXCEPT ![q].result = "ok"]
              /\ UNCHANGED faults
           \/ /\ pass' = [pass EXCEPT ![q].result = "error"]
              /\ UNCHANGED <<notices, faults>>
           \/ /\ pass' = [pass EXCEPT ![q].result = "error"]
              /\ Unheard(n)
        /\ UNCHANGED <<clock, settings, claimed, raises>>

\* Every device of the person is tried; one that is gone is deleted, and the
\* attempt fails only when a device failed and none was reached.
SendPush(q) ==
    LET n == pass[q].sending.id
    IN  /\ Sending(q)
        /\ n.channel = "web_push"
        /\ \E answer \in [devices[n.to] -> {"taken", "gone", "failed", "unheard"}] :
              LET With(a) == {d \in devices[n.to] : answer[d] = a}
              IN  /\ devices' = [devices EXCEPT ![n.to] = @ \ With("gone")]
                  /\ IF With("unheard") # {} THEN Unheard(n)
                     ELSE /\ notices' = [notices EXCEPT ![n].reached =
                                            IF With("taken") # {} THEN @ + 1 ELSE @]
                          /\ UNCHANGED faults
                  /\ pass' = [pass EXCEPT ![q].result =
                                 IF With("taken") = {} /\ With("failed") \cup With("unheard") # {}
                                 THEN "error" ELSE "ok"]
        /\ UNCHANGED <<clock, active, prefs, quiet, changes, claimed, raises>>

\* On to the next row of what the pass read.
NextRow(q) == pass' = [pass EXCEPT ![q] = [Idle EXCEPT !.batch = pass[q].batch]]

MarkSent(q) ==
    /\ pass[q].result = "ok"
    /\ notices' = [notices EXCEPT ![pass[q].sending.id].state = "sent"]
    /\ NextRow(q)
    /\ UNCHANGED <<clock, settings, claimed, raises, faults>>

\* backoff: 3^attempts minutes, capped.
Backoff(attempts) == IF 3^attempts > BackoffCap THEN BackoffCap ELSE 3^attempts

GivesUp(attempts) == attempts >= MaximumAttempts

\* recordFailure counts from the attempts the pass read, not from the row.
RecordFailure(q) ==
    LET attempts == pass[q].sending.attempts + 1
    IN  /\ pass[q].result = "error"
        /\ notices' = [notices EXCEPT
              ![pass[q].sending.id].state = IF GivesUp(attempts) THEN "abandoned" ELSE "failed",
              ![pass[q].sending.id].wait = Backoff(attempts)]
        /\ NextRow(q)
        /\ UNCHANGED <<clock, settings, claimed, raises, faults>>

Fault ==
    /\ faults < MaxFaults
    /\ faults' = faults + 1
    /\ UNCHANGED <<clock, settings, notices, claimed, raises>>

\* The outcome cannot be written: after a failure the pass goes on, after a
\* success it returns.
LoseOutcome(q) ==
    /\ Fault
    /\ pass[q].result # "none"
    /\ IF pass[q].result = "ok" THEN pass' = [pass EXCEPT ![q] = Idle] ELSE NextRow(q)

\* The process stops: both passes are gone, the rows stay as they are.
Crash ==
    /\ Fault
    /\ \E q \in Passes : pass[q] # Idle
    /\ pass' = [q \in Passes |-> Idle]

\* A minute passes.
Tick ==
    LET now == (clock + 1) % DayLength
    IN  /\ clock' = now
        /\ notices' = [n \in DOMAIN notices |->
              [notices[n] EXCEPT !.wait = IF @ = 0 THEN 0 ELSE @ - 1,
                                 !.free = @ \/ ~InWindow(notices[n].window, now)]]
        /\ UNCHANGED <<settings, claimed, pass, raises, faults>>

-----------------------------------------------------------------------------
Deliver(q) ==
    \/ \E r \in pass[q].batch : Claim(q, r)
    \/ SendEmail(q) \/ SendPush(q) \/ MarkSent(q) \/ RecordFailure(q)

Settings ==
    \/ \E p \in People, k \in Switched, c \in Channels, on \in BOOLEAN : SetPreference(p, k, c, on)
    \/ \E n \in DOMAIN notices : Unsubscribe(n)
    \/ \E p \in People, w \in Windows \cup {NoWindow} : SetQuietHours(p, w)
    \/ \E p \in People, d \in Devices : Subscribe(p, d) \/ RevokeDevice(p, d)
    \/ \E p \in People : SetStatus(p)

Raises ==
    \/ \E p \in People : RaiseFill(p)
    \/ RaiseImportFailure
    \/ \E waiting \in BOOLEAN, session \in Subjects : Survey(waiting, {session}) \/ Survey(waiting, {})
    \/ \E s \in Subjects : RaiseFallback(s) \/ AnnounceVersion(s)

Next ==
    \/ Settings
    \/ Raises
    \/ \E q \in Passes : StartPass(q) \/ Deliver(q) \/ LoseOutcome(q)
    \/ Crash
    \/ Tick

Spec == Init /\ [][Next]_vars

(***************************************************************************)
(* Fairness: time passes, the ticker starts a pass every minute, and a     *)
(* pass goes on (a send has a time-out).                                   *)
(***************************************************************************)
FairSpec ==
    /\ Spec
    /\ WF_vars(Tick)
    /\ \A q \in Passes : WF_vars(StartPass(q)) /\ WF_vars(Deliver(q))

-----------------------------------------------------------------------------
(***************************************************************************)
(* Properties.                                                             *)
(***************************************************************************)

\* "Nothing is sent twice", as far as the code can know: whichever passes read a row
\* together, and wherever one is cut short, the row is handed over once, and once
\* more for every answer that was lost.
NobodyIsToldTwice ==
    \A n \in DOMAIN notices : notices[n].reached <= 1 + notices[n].unheard

\* DeliverDue's comment: "At most once per channel comes from the row's state
\* machine".  networkSMTPTransport.Send returns the error of QUIT, after the server
\* took the message.
AtMostOncePerChannel == \A n \in DOMAIN notices : notices[n].reached <= 1

\* "Nothing raised inside quiet hours is sent early": before a notice is handed
\* over, a moment outside the window it was raised under has come.
NeverSentEarly ==
    [][\A n \in DOMAIN notices : notices'[n].reached > notices[n].reached => notices[n].free]_vars

\* "... or lost": a notice for somebody whose account stays active is sent or
\* given up on, unless the pass that claimed it was cut short.
Orphaned(n) ==
    /\ notices[n].state = "sending"
    /\ \A q \in Passes : pass[q].sending = NoRead \/ pass[q].sending.id # n

Settled(n) == notices[n].state \in {"sent", "abandoned"} \/ n.to \notin active \/ Orphaned(n)

NoticesSettle == []<>(\A n \in DOMAIN notices : Settled(n))
=============================================================================

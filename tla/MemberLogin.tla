----------------------------- MODULE MemberLogin -----------------------------
(***************************************************************************)
(* How members sign in (internal/auth): a code is requested and mailed,    *)
(* and a code is entered, under sliding-window rate limits, a temporary    *)
(* block and a lock only the owner lifts.                                  *)
(*                                                                         *)
(* A request reads the clock once, at its beginning, and its transactions  *)
(* run later: those of two requests may come in the other order than their *)
(* times.  Transactions on one member take the lock of the member's row.   *)
(***************************************************************************)
EXTENDS Integers, Sequences, FiniteSetsExt, SequencesExt

CONSTANTS
    Members, Requests,
    CodeTTL, BlockThreshold, BlockDuration, LockThreshold, LockWindow,
    DeliveryLimits,    \* per member: [limit, window]
    OriginLimits,      \* per origin, for requesting and for entering codes
    MaxTime, MaxCodes, \* bounds
    MaxChanges         \* what the owner and the operator do (bound)

Times    == 0..MaxTime
Origins  == {"code_request", "code_verify"}
Buckets  == Members \cup Origins
Limits(bucket) == IF bucket \in Members THEN DeliveryLimits ELSE OriginLimits[bucket]

ASSUME LoginAssumption ==
    /\ Members \cap Origins = {}
    /\ {CodeTTL, BlockThreshold, BlockDuration, LockThreshold, LockWindow} \subseteq Nat \ {0}
    /\ \A b \in Buckets : \A l \in Limits(b) : {l.limit, l.window} \subseteq Nat \ {0}
    /\ {MaxTime, MaxCodes, MaxChanges} \subseteq Nat

VARIABLES
    now,
    status,     \* users.status
    login,      \* member_login_state
    failed,     \* login_failure_events: how many of each member at each time
    rates,      \* auth_rate_events: how many in each bucket at each time
    codes,      \* member_login_challenges, in the order of their insertion
    sessions,   \* sessions that codes opened
    requests,   \* the handlers that are under way
    changes

shared == <<status, login, failed, rates, codes, sessions>>
vars   == <<now, shared, requests, changes>>

Idle == [op |-> "none"]

CodeStates == {"active", "used", "superseded", "expired", "revoked"}

\* A code with, as history, the wrong entries it met while it was active.
CodeRows  == [user: Members, state: CodeStates, created: Times, expires: 0..(MaxTime + CodeTTL), wrong: Nat]
LoginRows == [failures: 0..(BlockThreshold - 1), blocked: 0..(MaxTime + BlockDuration), locked: BOOLEAN]

Never == 0

TypeOK ==
    /\ now \in Times
    /\ status \in [Members -> {"active", "deactivated"}]
    /\ login \in [Members -> LoginRows]
    /\ failed \in [Members -> [Times -> Nat]]
    /\ rates \in [Buckets -> [Times -> Nat]]
    /\ codes \in Seq(CodeRows) /\ Len(codes) <= MaxCodes
    /\ sessions \in Seq([code: 1..MaxCodes, revoked: BOOLEAN])
    /\ DOMAIN requests = Requests
    /\ changes \in 0..MaxChanges

Init ==
    /\ now = 0
    /\ status = [m \in Members |-> "active"]
    /\ login = [m \in Members |-> [failures |-> 0, blocked |-> Never, locked |-> FALSE]]
    /\ failed = [m \in Members |-> [t \in Times |-> 0]]
    /\ rates = [b \in Buckets |-> [t \in Times |-> 0]]
    /\ codes = <<>>
    /\ sessions = <<>>
    /\ requests = [r \in Requests |-> Idle]
    /\ changes = 0

-----------------------------------------------------------------------------
Active(m)      == {c \in DOMAIN codes : codes[c].user = m /\ codes[c].state = "active"}
Blocked(m, at) == at < login[m].blocked

\* Every active code of m gets the state.
Retired(rows, m, state) ==
    [c \in DOMAIN rows |-> IF rows[c].user = m /\ rows[c].state = "active"
                           THEN [rows[c] EXCEPT !.state = state] ELSE rows[c]]

\* The table's constraint: no code is used or invalidated before its creation, or
\* the transaction fails.
Stampable(these, at) == \A c \in these : codes[c].created <= at

\* Fault: events of requests that began later are not counted.
CountedToNow(events, at, window) ==
    MapThenSumSet(LAMBDA t : events[t], {t \in Times : at - window < t /\ t <= at})

\* The events a sliding window counts: those after its start.
Counted(events, at, window) ==
    MapThenSumSet(LAMBDA t : events[t], {t \in Times : at - window < t})

\* AllowRate, under the bucket's advisory lock: the attempt is recorded when every
\* window has room for it, and only then.
Allowed(bucket, at) == \A l \in Limits(bucket) : Counted(rates[bucket], at, l.window) < l.limit

Recorded(bucket, at) == rates' = [rates EXCEPT ![bucket][at] = @ + 1]

Step(r, step) == requests' = [requests EXCEPT ![r].step = step]
Finish(r)     == requests' = [requests EXCEPT ![r] = Idle]

-----------------------------------------------------------------------------
(***************************************************************************)
(* StartSignIn.                                                            *)
(***************************************************************************)
Begin(r, request) ==
    /\ requests[r] = Idle
    /\ requests' = [requests EXCEPT ![r] = request]
    /\ UNCHANGED <<now, shared, changes>>

BeginStart(r, m) ==
    Begin(r, [op |-> "start", step |-> "origin", user |-> m, at |-> now, code |-> 0, sent |-> FALSE])

At(r, op, step) == requests[r].op = op /\ requests[r].step = step

\* allowOrigin of either operation.
AllowOrigin(r, op, bucket, next) ==
    /\ At(r, op, "origin")
    /\ IF Allowed(bucket, requests[r].at)
       THEN Recorded(bucket, requests[r].at) /\ Step(r, next)
       ELSE UNCHANGED rates /\ Finish(r)
    /\ UNCHANGED <<now, status, login, failed, codes, sessions, changes>>

\* MemberForLogin and the ceiling of mails to one member.
AllowDelivery(r) ==
    LET m == requests[r].user
    IN  /\ At(r, "start", "delivery")
        /\ IF status[m] = "active" /\ Allowed(m, requests[r].at)
           THEN Recorded(m, requests[r].at) /\ Step(r, "issue")
           ELSE UNCHANGED rates /\ Finish(r)
        /\ UNCHANGED <<now, status, login, failed, codes, sessions, changes>>

\* Fault: the account is not looked at again.
MayReceiveUnchecked(m, at) == ~login[m].locked /\ ~Blocked(m, at)

MayReceive(m, at) == status[m] = "active" /\ ~login[m].locked /\ ~Blocked(m, at)

\* IssueMemberChallenge: the newest code supersedes the others.
IssueMemberChallenge(r) ==
    LET m  == requests[r].user
        at == requests[r].at
    IN  /\ At(r, "start", "issue")
        /\ Len(codes) < MaxCodes
        /\ IF MayReceive(m, at) /\ Stampable(Active(m), at)
           THEN /\ codes' = Append(Retired(codes, m, "superseded"),
                               [user |-> m, state |-> "active", created |-> at,
                                expires |-> at + CodeTTL, wrong |-> 0])
                /\ requests' = [requests EXCEPT ![r].step = "send", ![r].code = Len(codes) + 1]
           ELSE UNCHANGED codes /\ Finish(r)
        /\ UNCHANGED <<now, status, login, failed, rates, sessions, changes>>

\* The mail server takes the message, or does not.
Send(r, sent) ==
    /\ At(r, "start", "send")
    /\ requests' = [requests EXCEPT ![r].step = "mark", ![r].sent = sent]
    /\ UNCHANGED <<now, shared, changes>>

\* MarkMemberCodeDelivery: a code that could not be mailed is revoked if it still waits.
MarkMemberCodeDelivery(r) ==
    LET c == requests[r].code
    IN  /\ At(r, "start", "mark")
        /\ codes' = IF ~requests[r].sent /\ codes[c].state = "active"
                    THEN [codes EXCEPT ![c].state = "revoked"] ELSE codes
        /\ Finish(r)
        /\ UNCHANGED <<now, status, login, failed, rates, sessions, changes>>

-----------------------------------------------------------------------------
(***************************************************************************)
(* VerifyMemberCode.                                                       *)
(***************************************************************************)

\* A member enters the code of some mail, or another one (0).
BeginVerify(r, m, code) ==
    /\ code = 0 \/ (code \in DOMAIN codes /\ codes[code].user = m)
    /\ Begin(r, [op |-> "verify", step |-> "origin", user |-> m, at |-> now, code |-> code, sent |-> FALSE])

\* RecordFailure.
AfterFailure(row, at, rolling) ==
    IF rolling >= LockThreshold THEN [failures |-> 0, blocked |-> Never, locked |-> TRUE]
    ELSE IF row.failures + 1 >= BlockThreshold
         THEN [row EXCEPT !.failures = 0, !.blocked = at + BlockDuration]
         ELSE [row EXCEPT !.failures = @ + 1]

\* Fault: a code that was used stays active.
UsedNever(rows, m) == rows

Used(rows, m) == Retired(rows, m, "used")

\* What VerifyMemberChallenge does with an entry it compares: elapsed codes have
\* expired; the right code opens a session; anything else is a failure, and one that
\* crosses a threshold retires the code.
Compare(m, at, code) ==
    LET live    == [c \in DOMAIN codes |->
                      IF c \in Active(m) /\ codes[c].expires <= at
                      THEN [codes[c] EXCEPT !.state = "expired"] ELSE codes[c]]
        active  == {c \in Active(m) : live[c].state = "active"}
        failure == [failed EXCEPT ![m][at] = @ + 1]
        after   == AfterFailure(login[m], at, Counted(failure[m], at, LockWindow))
        counted == [c \in DOMAIN live |->
                      IF c \in active THEN [live[c] EXCEPT !.wrong = @ + 1] ELSE live[c]]
        crossed == after.locked \/ after.blocked # login[m].blocked
    IN  IF \/ \A c \in DOMAIN codes : codes[c].user # m
           \/ (code \in active \/ crossed) /\ ~Stampable(active, at)
        THEN UNCHANGED <<login, failed, codes, sessions>>
        ELSE IF code \in active
        THEN /\ codes' = Used(live, m)
             /\ login' = [login EXCEPT ![m].failures = 0, ![m].blocked = Never]
             /\ sessions' = Append(sessions, [code |-> code, revoked |-> FALSE])
             /\ UNCHANGED failed
        ELSE /\ failed' = failure
             /\ login' = [login EXCEPT ![m] = after]
             /\ codes' = IF crossed THEN Retired(counted, m, "revoked") ELSE counted
             /\ UNCHANGED sessions

VerifyMemberChallenge(r) ==
    LET m  == requests[r].user
        at == requests[r].at
    IN  /\ At(r, "verify", "verify")
        /\ IF MayReceive(m, at)
           THEN Compare(m, at, requests[r].code)
           ELSE UNCHANGED <<login, failed, codes, sessions>>
        /\ Finish(r)
        /\ UNCHANGED <<now, status, rates, changes>>

-----------------------------------------------------------------------------
(***************************************************************************)
(* The owner and the operator.                                             *)
(***************************************************************************)
Change ==
    /\ changes < MaxChanges
    /\ changes' = changes + 1
    /\ UNCHANGED <<now, requests>>

Revoked(m) == [s \in DOMAIN sessions |->
                  IF codes[sessions[s].code].user = m THEN [sessions[s] EXCEPT !.revoked = TRUE]
                  ELSE sessions[s]]

UnlockMember(m) ==
    /\ Change
    /\ login' = [login EXCEPT ![m] = [failures |-> 0, blocked |-> Never, locked |-> FALSE]]
    /\ failed' = [failed EXCEPT ![m] = [t \in Times |-> 0]]
    /\ codes' = Retired(codes, m, "revoked")
    /\ UNCHANGED <<status, rates, sessions>>

\* SetMemberStatus: deactivation ends the member's sessions and codes.
SetMemberStatus(m, new) ==
    /\ Change
    /\ status[m] # new
    /\ status' = [status EXCEPT ![m] = new]
    /\ IF new = "deactivated" THEN /\ sessions' = Revoked(m)
                                   /\ codes' = Retired(codes, m, "revoked")
       ELSE UNCHANGED <<sessions, codes>>
    /\ UNCHANGED <<login, failed, rates>>

\* RotateSigningKey: every code, session and rate bucket is a digest under the key it
\* replaces and goes with it; blocks and locks stay.
RotateSigningKey ==
    /\ Change
    /\ codes' = [c \in DOMAIN codes |-> IF codes[c].state = "active"
                                        THEN [codes[c] EXCEPT !.state = "revoked"] ELSE codes[c]]
    /\ sessions' = [s \in DOMAIN sessions |-> [sessions[s] EXCEPT !.revoked = TRUE]]
    /\ rates' = [b \in Buckets |-> [t \in Times |-> 0]]
    /\ UNCHANGED <<status, login, failed>>

Tick ==
    /\ now < MaxTime
    /\ now' = now + 1
    /\ UNCHANGED <<shared, requests, changes>>

-----------------------------------------------------------------------------
StartSignIn(r) ==
    \/ \E m \in Members : BeginStart(r, m)
    \/ AllowOrigin(r, "start", "code_request", "delivery")
    \/ AllowDelivery(r)
    \/ IssueMemberChallenge(r)
    \/ \E sent \in BOOLEAN : Send(r, sent)
    \/ MarkMemberCodeDelivery(r)

VerifyMemberCode(r) ==
    \/ \E m \in Members, code \in 0..MaxCodes : BeginVerify(r, m, code)
    \/ AllowOrigin(r, "verify", "code_verify", "verify")
    \/ VerifyMemberChallenge(r)

Administration ==
    \/ \E m \in Members : UnlockMember(m)
    \/ \E m \in Members, new \in {"active", "deactivated"} : SetMemberStatus(m, new)
    \/ RotateSigningKey

Next ==
    \/ \E r \in Requests : StartSignIn(r) \/ VerifyMemberCode(r)
    \/ Administration
    \/ Tick

Spec == Init /\ [][Next]_vars

-----------------------------------------------------------------------------
(***************************************************************************)
(* Properties.                                                             *)
(***************************************************************************)

\* "access stops immediately" (SetMemberStatus): whatever requests are under way, a
\* deactivated member has no session and no code that could open one.
DeactivatedMembersAreOut ==
    \A m \in Members : status[m] = "deactivated" =>
        /\ Active(m) = {}
        /\ \A s \in DOMAIN sessions : codes[sessions[s].code].user = m => sessions[s].revoked

\* A code is entered once, although two requests may hold it.
CodesOpenOneSession ==
    \A s, t \in DOMAIN sessions : sessions[s].code = sessions[t].code => s = t

\* The third wrong entry in a row ends a code (MemberBlockThreshold), so no code is
\* tried wrongly more often, in whichever order the entries are judged.
GuessesAreBounded == \A c \in DOMAIN codes : codes[c].wrong <= BlockThreshold

WindowTotal(events, t, window) ==
    MapThenSumSet(LAMBDA u : events[u], {u \in Times : t - window < u /\ u <= t})

\* The tenth failure "in a rolling day" locks the member (MemberLockThreshold): since
\* the owner last unlocked, no window holds more, although requests are judged out of
\* the order of their times.
LockoutHolds ==
    \A m \in Members : \A t \in {u \in Times : failed[m][u] > 0} :
        WindowTotal(failed[m], t, LockWindow) <= LockThreshold

\* AllowRate "applies every sliding window": none is ever overdrawn, although requests
\* arrive out of the order of their times.
RatesAreHeld ==
    \A b \in Buckets : \A t \in {u \in Times : rates[b][u] > 0} :
        \A l \in Limits(b) : WindowTotal(rates[b], t, l.window) <= l.limit

\* However requests overlap, nobody gets more tries than the code means to give:
\* not on one code, not in the lockout's rolling window, not in any rate window.
AttemptsAreHeldBack == GuessesAreBounded /\ LockoutHolds /\ RatesAreHeld
=============================================================================

---------------------------- MODULE AccountsProofs ----------------------------
(***************************************************************************)
(* What holds of accounts, keys and sessions for every number of processes *)
(* and requests, every address and every timeout.                          *)
(***************************************************************************)
EXTENDS Accounts, FiniteSetTheorems, TLAPS

(***************************************************************************)
(* The invariant, one part for each group of rows.                         *)
(***************************************************************************)
ProcRows    == [state: {"down", "provisioning", "up"}, supplied: Keys, key: Keys, generation: Nat,
                version: 0..MaxVersion]
SigningRows == [key: Keys, generation: Nat]
HashRows    == [password: Nat, old: BOOLEAN]
MailRows    == [invitation: Nat, state: {"pending", "sent", "failed", "abandoned"}]
SessionRows == [user: Nat, key: Keys, created: Times, seen: Times, idle: Nat, absolute: Nat,
                revoked: BOOLEAN, password: Nat, overlapped: BOOLEAN]

Logins     == [op: {"login"}, proc: Processes, hash: HashRows, at: Times]
Touches    == [op: {"touch"}, proc: Processes, session: Nat, next: [seen: Times, idle: Nat]]
Invites    == [op: {"invite"}, proc: Processes, email: Emails, at: Times]
Deliveries == [op: {"deliver"}, proc: Processes, mail: Nat]
Replaces   == [op: {"replace"}, proc: Processes, kinds: SUBSET Kinds]
Handlers   == Logins \cup Touches \cup Invites \cup Deliveries \cup Replaces

\* No process is up without a stored key, none is ahead of it, and no two generations
\* share a number.
KeysHold ==
    /\ signing = NoRow \/ (signing.key # NoKey /\ signing.generation # 0)
    /\ \A p \in Processes :
          /\ procs[p].state # "down" => procs[p].key # NoKey
          /\ Up(p) => signing # NoRow /\ procs[p].generation <= signing.generation
    /\ ProcessesShareOneKey

ProcsHold ==
    /\ procs \in [Processes -> ProcRows] /\ signing \in SigningRows
    /\ minted \in Nat /\ ops \in 0..MaxOps /\ minted <= ops + 1
    /\ now \in Times
    /\ KeysHold

\* Before the setup there is nothing; after it, the owner has the first row of users.
\* A hash with older parameters is the one the installation came with.
SetupHolds ==
    /\ closed \in BOOLEAN /\ hash \in HashRows
    /\ capabilities \in Seq(CapabilityRows) /\ users \in Seq(UserRows)
    /\ creds \in [Kinds -> 0..MaxVersion]
    /\ \A c, d \in DOMAIN capabilities : Usable(c) /\ Usable(d) => c = d
    /\ hash.old => hash.password = 1
    /\ closed => /\ Owner = {1} /\ hash.password # 0
                 /\ \A k \in Kinds : creds[k] # 0
                 /\ \A c \in DOMAIN capabilities : ~Usable(c)
    /\ ~closed => users = <<>> /\ \A k \in Kinds : creds[k] = 0

NothingYet == ~closed => invitations = <<>> /\ sessions = <<>> /\ \A r \in Requests : requests[r] = Idle

Accepted(i) == invitations[i].state = "accepted"

\* The rows of invitations and mails, and one accepted invitation for each member.
InvitationsHold ==
    /\ invitations \in Seq(InvitationRows) /\ mails \in Seq(MailRows)
    /\ \A m \in DOMAIN mails : mails[m].invitation \in DOMAIN invitations
    /\ \A u, v \in DOMAIN users : users[u].email = users[v].email => u = v
    /\ \A i, j \in DOMAIN invitations :
          Accepted(i) /\ Accepted(j) /\ invitations[i].email = invitations[j].email => i = j
    /\ \A i \in DOMAIN invitations : Accepted(i) =>
          \E u \in DOMAIN users : users[u] = [email |-> invitations[i].email, role |-> "member"]
    /\ \A u \in DOMAIN users : users[u].role = "member" =>
          \E i \in DOMAIN invitations : Accepted(i) /\ invitations[i].email = users[u].email

SessionsHold ==
    /\ sessions \in Seq(SessionRows)
    /\ \A s \in DOMAIN sessions : SessionOK(sessions[s])
    /\ ResetsEndSessions

\* What a request carries, until it ends or its process does.
RequestOK(request) ==
    /\ Up(request.proc)
    /\ request.op = "login" /\ request.hash.old => request.hash.password = 1
    /\ request.op = "replace" => procs[request.proc].version # 0
    /\ request.op = "touch" =>
          /\ request.session \in DOMAIN sessions
          /\ sessions[request.session].created <= request.next.seen
          /\ request.next.seen < request.next.idle
          /\ request.next.idle <= sessions[request.session].absolute

RequestsHold ==
    /\ requests \in [Requests -> {Idle} \cup Handlers]
    /\ \A r \in Requests : requests[r] # Idle => RequestOK(requests[r])

IInv == ProcsHold /\ SetupHolds /\ NothingYet /\ InvitationsHold /\ SessionsHold /\ RequestsHold
-----------------------------------------------------------------------------
(***************************************************************************)
(* Constants, keys and the ends of sessions.                               *)
(***************************************************************************)
LEMMA AccountsTypes ==
    /\ IdleTimeout \in Nat \ {0} /\ AbsoluteTimeout \in Nat \ {0} /\ SetupTTL \in Nat \ {0}
    /\ InvitationTTL \in Nat \ {0} /\ MaxVersion \in Nat \ {0}
    /\ MaxInvitationResends \in Nat /\ MaxTime \in Nat /\ MaxOps \in Nat /\ Secrets \subseteq Nat
    /\ 0 \in Times /\ Times \subseteq Nat
  BY AccountsAssumption DEF Times

LEMMA KeyTypes ==
    /\ NoKey \in Keys /\ Supplied \subseteq Keys
    /\ NoRow \in SigningRows /\ Down \in ProcRows /\ Down.state = "down"
    /\ minted \in Nat /\ minted <= MaxOps => FreshKey \in Keys /\ FreshKey # NoKey
  <1>1. NoKey \in Keys /\ Supplied \subseteq Keys
    BY DEF Keys, Supplied
  <1>2. NoRow \in SigningRows
    BY <1>1 DEF NoRow, SigningRows
  <1>3. Down \in ProcRows /\ Down.state = "down"
    BY <1>1, AccountsTypes DEF Down, ProcRows
  <1>4. minted \in Nat /\ minted <= MaxOps => FreshKey \in Keys /\ FreshKey # NoKey
    BY AccountsTypes DEF FreshKey, Keys, NoKey
  <1>. QED
    BY <1>1, <1>2, <1>3, <1>4

LEMMA LesserOf ==
    ASSUME NEW a \in Nat, NEW b \in Nat
    PROVE  /\ Min({a, b}) \in Nat /\ Min({a, b}) <= a /\ Min({a, b}) <= b
           /\ \A c \in Int : c < a /\ c < b => c < Min({a, b})
  <1>1. \E x \in {a, b} : \A y \in {a, b} : x <= y
    OBVIOUS
  <1>2. Min({a, b}) \in {a, b} /\ \A y \in {a, b} : Min({a, b}) <= y
    BY <1>1 DEF Min
  <1>. QED
    BY <1>2

\* A row in which a user's session begins.
Begun(s, user, key, password, overlapped) ==
    /\ s \in SessionRows /\ s.user = user /\ s.key = key /\ s.revoked = FALSE
    /\ s.password = password /\ s.overlapped = overlapped
    /\ s.created <= s.seen /\ s.seen < s.idle /\ s.idle <= s.absolute

LEMMA NewSessionHolds ==
    ASSUME NEW user \in Nat, NEW key \in Keys \ {NoKey}, NEW at \in Times,
           NEW password \in Nat, NEW overlapped \in BOOLEAN
    PROVE  Begun(NewSession(user, key, at, password, overlapped), user, key, password, overlapped)
  <1> DEFINE absolute == at + AbsoluteTimeout
             idle     == Min({at + IdleTimeout, absolute})
             s        == NewSession(user, key, at, password, overlapped)
  <1>1. at \in Nat /\ absolute \in Nat /\ at + IdleTimeout \in Nat /\ at < absolute /\ at < at + IdleTimeout
    BY AccountsTypes
  <1>2. idle \in Nat /\ idle <= absolute /\ at < idle
    <2>. HIDE DEF absolute
    <2>1. \A c \in Int : c < at + IdleTimeout /\ c < absolute => c < idle
      BY <1>1, LesserOf
    <2>2. idle \in Nat /\ idle <= absolute
      BY <1>1, LesserOf
    <2>3. at \in Int
      BY <1>1
    <2>. QED
      BY <1>1, <2>1, <2>2, <2>3
  <1>3. s = [user |-> user, key |-> key, created |-> at, seen |-> at, idle |-> idle, absolute |-> absolute,
             revoked |-> FALSE, password |-> password, overlapped |-> overlapped]
    BY DEF NewSession
  <1>. HIDE DEF idle, absolute, s
  <1>4. s \in SessionRows
    BY <1>1, <1>2, <1>3 DEF SessionRows
  <1>5. /\ s.user = user /\ s.key = key /\ s.revoked = FALSE /\ s.created = at /\ s.seen = at
        /\ s.idle = idle /\ s.absolute = absolute /\ s.password = password /\ s.overlapped = overlapped
    BY <1>3
  <1>. QED
    BY <1>1, <1>2, <1>4, <1>5 DEF s, Begun

-----------------------------------------------------------------------------
(***************************************************************************)
(* What leaves each part of the invariant as it is.                        *)
(***************************************************************************)
LEMMA OpsStep ==
    ASSUME ProcsHold, Operation
    PROVE  ops' \in 0..MaxOps /\ ops' = ops + 1 /\ minted \in Nat /\ minted <= MaxOps
  <1>1. ops \in 0..MaxOps /\ ops < MaxOps /\ ops' = ops + 1 /\ minted \in Nat /\ minted <= ops + 1
    BY DEF ProcsHold, Operation
  <1>. QED
    BY <1>1, AccountsTypes

LEMMA ProcsFrame ==
    ASSUME ProcsHold, UNCHANGED <<now, procs, signing, minted>>, UNCHANGED ops \/ Operation
    PROVE  ProcsHold'
  <1>1. KeysHold'
    BY DEF ProcsHold, KeysHold, ProcessesShareOneKey, Up
  <1>2. ops' \in 0..MaxOps /\ minted <= ops' + 1 /\ minted \in Nat
    BY OpsStep DEF ProcsHold
  <1>. QED
    BY <1>1, <1>2 DEF ProcsHold

LEMMA SetupFrame ==
    ASSUME SetupHolds, UNCHANGED <<closed, capabilities, users, creds, hash>>
    PROVE  SetupHolds'
  BY DEF SetupHolds, Usable, Owner

LEMMA InvitationsFrame ==
    ASSUME InvitationsHold, UNCHANGED <<users, invitations, mails>>
    PROVE  InvitationsHold'
  BY DEF InvitationsHold, Accepted

\* Sessions that go on, and only those, are as they were: where sessions are ended.
SessionsAge ==
    /\ DOMAIN sessions' = DOMAIN sessions
    /\ \A s \in DOMAIN sessions :
          /\ sessions'[s] = sessions[s] \/ sessions'[s] = [sessions[s] EXCEPT !.revoked = TRUE]

LEMMA EndedRow ==
    ASSUME NEW old \in SessionRows, SessionOK(old), NEW new,
           new = old \/ new = [old EXCEPT !.revoked = TRUE]
    PROVE  /\ new \in SessionRows /\ SessionOK(new)
           /\ new.user = old.user /\ new.password = old.password /\ new.overlapped = old.overlapped
           /\ new.created = old.created /\ new.absolute = old.absolute
           /\ ~new.revoked => ~old.revoked
  <1>1. CASE new = old
    BY <1>1
  <1>2. CASE new = [old EXCEPT !.revoked = TRUE]
    <2>1. new \in SessionRows
      BY <1>2, Zenon DEF SessionRows
    <2>2. /\ new.user = old.user /\ new.key = old.key /\ new.created = old.created /\ new.seen = old.seen
          /\ new.idle = old.idle /\ new.absolute = old.absolute /\ new.password = old.password
          /\ new.overlapped = old.overlapped /\ new.revoked = TRUE
      BY <1>2 DEF SessionRows
    <2>. QED
      BY <2>1, <2>2 DEF SessionOK
  <1>. QED
    BY <1>1, <1>2

LEMMA SessionsEnd ==
    ASSUME SessionsHold, SessionsAge, sessions' = [s \in DOMAIN sessions |-> sessions'[s]],
           UNCHANGED <<users, hash>>
    PROVE  SessionsHold'
  <1>1. ASSUME NEW s \in DOMAIN sessions
        PROVE  /\ sessions[s] \in SessionRows /\ SessionOK(sessions[s])
               /\ sessions'[s] \in SessionRows /\ SessionOK(sessions'[s])
               /\ sessions'[s].user = sessions[s].user /\ sessions'[s].password = sessions[s].password
               /\ sessions'[s].overlapped = sessions[s].overlapped
               /\ ~sessions'[s].revoked => ~sessions[s].revoked
    BY EndedRow DEF SessionsHold, SessionsAge
  <1>2. sessions' \in Seq(SessionRows)
    <2>1. DOMAIN sessions = 1..Len(sessions) /\ Len(sessions) \in Nat
      BY DEF SessionsHold
    <2>. QED
      BY <1>1, <2>1
  <1>3. \A s \in DOMAIN sessions' : SessionOK(sessions[s])'
    BY <1>1 DEF SessionsAge, SessionOK
  <1>4. ResetsEndSessions'
    BY <1>1 DEF SessionsHold, SessionsAge, ResetsEndSessions, Owner
  <1>. QED
    BY <1>2, <1>3, <1>4 DEF SessionsHold

LEMMA SessionsFrame ==
    ASSUME SessionsHold, UNCHANGED <<users, hash, sessions>>
    PROVE  SessionsHold'
  BY DEF SessionsHold, ResetsEndSessions, Owner, SessionOK

\* Requests go on while their processes do and their sessions are there.
ProcsStay == \A p \in Processes : Up(p) => Up(p)' /\ procs'[p].version = procs[p].version
SessionsGrow ==
    /\ DOMAIN sessions \subseteq DOMAIN sessions'
    /\ \A s \in DOMAIN sessions : /\ sessions'[s].created = sessions[s].created
                                  /\ sessions'[s].absolute = sessions[s].absolute

LEMMA RequestsStep ==
    ASSUME RequestsHold, ProcsStay, SessionsGrow,
           requests' \in [Requests -> {Idle} \cup Handlers],
           \A r \in Requests : requests'[r] = requests[r] \/ requests'[r] = Idle \/ RequestOK(requests[r])'
    PROVE  RequestsHold'
  <1>1. ASSUME NEW r \in Requests, NEW request, requests[r] = request, request # Idle, requests'[r] = request
        PROVE  RequestOK(request)'
    <2>1. request \in Handlers /\ RequestOK(request)
      BY <1>1 DEF RequestsHold
    <2>2. request.proc \in Processes
      BY <2>1 DEF Handlers, Logins, Touches, Invites, Deliveries, Replaces
    <2>3. Up(request.proc)' /\ procs'[request.proc].version = procs[request.proc].version
      BY <2>1, <2>2 DEF RequestOK, ProcsStay
    <2>. QED
      BY <1>1, <2>1, <2>3 DEF RequestOK, SessionsGrow, Up
  <1>2. ASSUME NEW r \in Requests, requests'[r] # Idle PROVE RequestOK(requests[r])'
    BY <1>1, <1>2
  <1>. QED
    BY <1>2 DEF RequestsHold

-----------------------------------------------------------------------------
(***************************************************************************)
(* The beginning: a new database, or an installation in use.               *)
(***************************************************************************)
LEMMA InvInit == Init => IInv
  <1> SUFFICES ASSUME Init PROVE IInv
    OBVIOUS
  <1> DEFINE key == [source |-> "provisioned", n |-> 1]
  <1>1. key \in Keys /\ key # NoKey
    BY AccountsTypes DEF Keys, NoKey
  <1>2. now \in Times /\ ops = 0 /\ ops \in 0..MaxOps
    BY AccountsTypes DEF Init
  <1>3. /\ capabilities = <<>> /\ sessions = <<>> /\ invitations = <<>> /\ mails = <<>>
        /\ requests = [r \in Requests |-> Idle]
    BY DEF Init
  <1>4. RequestsHold
    BY <1>3 DEF RequestsHold
  <1>5. NothingYet
    BY <1>3 DEF NothingYet
  <1>6. SessionsHold
    BY <1>3 DEF SessionsHold, ResetsEndSessions
  <1>7. CASE Fresh
    <2>1. /\ procs = [p \in Processes |-> Down] /\ signing = NoRow /\ minted = 0 /\ closed = FALSE
          /\ users = <<>> /\ creds = [k \in Kinds |-> 0] /\ hash = [password |-> 0, old |-> FALSE]
      BY <1>7 DEF Fresh
    <2>2. KeysHold
      BY <2>1, KeyTypes DEF KeysHold, ProcessesShareOneKey, Up
    <2>3. ProcsHold
      BY <1>2, <2>1, <2>2, KeyTypes, AccountsTypes DEF ProcsHold
    <2>4. SetupHolds
      <3>1. hash \in HashRows /\ ~hash.old
        BY <2>1 DEF HashRows
      <3>2. creds \in [Kinds -> 0..MaxVersion] /\ \A k \in Kinds : creds[k] = 0
        BY <2>1, AccountsTypes
      <3>3. /\ closed = FALSE /\ users = <<>> /\ users \in Seq(UserRows)
            /\ capabilities \in Seq(CapabilityRows) /\ DOMAIN capabilities = {}
        BY <1>3, <2>1
      <3>4. \A c, d \in DOMAIN capabilities : Usable(c) /\ Usable(d) => c = d
        BY <3>3
      <3>. QED
        BY <3>1, <3>2, <3>3, <3>4 DEF SetupHolds
    <2>5. InvitationsHold
      BY <1>3, <2>1 DEF InvitationsHold
    <2>. QED
      BY <1>4, <1>5, <1>6, <2>3, <2>4, <2>5 DEF IInv
  <1>8. CASE Installed
    <2>1. PICK owner \in Emails, up \in Processes, old \in BOOLEAN :
             /\ signing = [key |-> key, generation |-> 1] /\ minted = 1 /\ closed = TRUE
             /\ procs = [p \in Processes |->
                           IF p = up THEN [Down EXCEPT !.state = "up", !.key = key, !.generation = 1, !.version = 1]
                           ELSE Down]
             /\ users = <<[email |-> owner, role |-> "owner"]>>
             /\ creds = [k \in Kinds |-> 1]
             /\ hash = [password |-> 1, old |-> old]
      BY <1>8 DEF Installed
    <2> DEFINE first == [Down EXCEPT !.state = "up", !.key = key, !.generation = 1, !.version = 1]
    <2>2. /\ first \in ProcRows /\ first.state = "up" /\ first.key = key /\ first.generation = 1
      <3>1. 1 \in 0..MaxVersion /\ Down \in ProcRows
        BY AccountsTypes, KeyTypes
      <3>. HIDE DEF key
      <3>. QED
        BY <1>1, <3>1 DEF ProcRows
    <2>3. \A p \in Processes : procs[p] = first \/ procs[p] = Down
      BY <2>1
    <2>. HIDE DEF first
    <2>4. signing.key = key /\ signing.generation = 1 /\ signing # NoRow /\ signing \in SigningRows
      BY <1>1, <2>1 DEF NoRow, SigningRows
    <2>5. KeysHold
      BY <1>1, <2>2, <2>3, <2>4, KeyTypes DEF KeysHold, ProcessesShareOneKey, Up
    <2>6. procs \in [Processes -> ProcRows]
      BY <2>1, <2>2, KeyTypes DEF first
    <2>7. ProcsHold
      BY <1>2, <2>1, <2>4, <2>5, <2>6 DEF ProcsHold
    <2>8. users \in Seq(UserRows) /\ Owner = {1}
      BY <2>1 DEF UserRows, Owner
    <2>9. hash \in HashRows /\ hash.password = 1
      BY <2>1 DEF HashRows
    <2>10. SetupHolds
      BY <1>3, <2>1, <2>8, <2>9, AccountsTypes DEF SetupHolds
    <2>11. InvitationsHold
      BY <1>3, <2>1 DEF InvitationsHold
    <2>. QED
      BY <1>4, <1>5, <1>6, <2>7, <2>10, <2>11 DEF IInv
  <1>. QED
    BY <1>7, <1>8 DEF Init

-----------------------------------------------------------------------------
(***************************************************************************)
(* Processes start, settle on a key and stop.                              *)
(***************************************************************************)
\* A process that settles on the stored key, or is down or about to settle.
LEMMA ProcStep ==
    ASSUME ProcsHold, NEW p \in Processes, ~Up(p), NEW new \in ProcRows,
           procs' = [procs EXCEPT ![p] = new], UNCHANGED <<now, signing>>,
           minted' \in Nat, minted' <= ops' + 1, ops' \in 0..MaxOps,
           new.state # "down" => new.key # NoKey,
           new.state = "up" => signing # NoRow /\ new.key = signing.key /\ new.generation = signing.generation
    PROVE  ProcsHold' /\ ProcsStay
  <1>1. /\ procs' \in [Processes -> ProcRows] /\ procs'[p] = new
        /\ \A q \in Processes : q # p => procs'[q] = procs[q]
    BY DEF ProcsHold
  <1>2. signing.generation \in Nat
    BY DEF ProcsHold, SigningRows
  <1>3. KeysHold'
    BY <1>1, <1>2 DEF ProcsHold, KeysHold, ProcessesShareOneKey, Up
  <1>4. ProcsStay
    BY <1>1 DEF ProcsStay, Up
  <1>. QED
    BY <1>1, <1>3, <1>4 DEF ProcsHold

\* Nothing but processes changes.
LEMMA OthersFrame ==
    ASSUME IInv, UNCHANGED <<closed, capabilities, users, invitations, mails, hash, sessions, creds>>
    PROVE  SetupHolds' /\ InvitationsHold' /\ SessionsHold' /\ SessionsGrow
  BY SetupFrame, InvitationsFrame, SessionsFrame DEF IInv, SessionsGrow

LEMMA StartProcessStep ==
    ASSUME IInv, NEW p \in Processes, NEW supplied \in Supplied, NEW version \in 0..MaxVersion,
           StartProcess(p, supplied, version)
    PROVE  IInv'
  <1> DEFINE state == IF signing = NoRow THEN "provisioning" ELSE "up"
             new == [state |-> state, supplied |-> supplied, key |-> Resolve(supplied),
                     generation |-> signing.generation, version |-> version]
  <1>0. ProcsHold /\ KeysHold
    BY DEF IInv, ProcsHold
  <1>1. /\ Operation /\ procs[p] = Down /\ Resolve(supplied) # NoKey /\ procs' = [procs EXCEPT ![p] = new]
        /\ minted' = IF signing = NoRow /\ supplied = NoKey THEN minted + 1 ELSE minted
        /\ UNCHANGED <<now, rows, requests>>
    BY DEF StartProcess
  <1>2. /\ ops' \in 0..MaxOps /\ ops' = ops + 1 /\ minted \in Nat /\ minted <= MaxOps /\ minted <= ops + 1
        /\ FreshKey \in Keys
    BY <1>0, <1>1, OpsStep, KeyTypes DEF ProcsHold
  <1>3. signing \in SigningRows /\ signing.key \in Keys /\ signing.generation \in Nat /\ supplied \in Keys
    BY <1>0, KeyTypes DEF ProcsHold, SigningRows
  <1>4. Resolve(supplied) \in Keys
    BY <1>2, <1>3, KeyTypes DEF Resolve
  <1>5. new \in ProcRows
    BY <1>3, <1>4 DEF ProcRows
  <1>6. signing # NoRow => Resolve(supplied) = signing.key
    BY <1>1 DEF Resolve
  <1>7. ~Up(p)
    BY <1>1, KeyTypes DEF Up
  <1>8. minted' \in Nat /\ minted' <= ops' + 1
    BY <1>1, <1>2
  <1>9. /\ new.state # "down" => new.key # NoKey
        /\ new.state = "up" => signing # NoRow /\ new.key = signing.key /\ new.generation = signing.generation
    BY <1>1, <1>6
  <1>10. UNCHANGED <<now, signing>>
    BY <1>1 DEF rows
  <1>. HIDE DEF new
  <1>11. ProcsHold' /\ ProcsStay
    BY <1>0, <1>1, <1>2, <1>5, <1>7, <1>8, <1>9, <1>10, ProcStep
  <1>12. SetupHolds' /\ InvitationsHold' /\ SessionsHold' /\ SessionsGrow
    BY <1>1, OthersFrame DEF rows, identity
  <1>13. RequestsHold'
    BY <1>1, <1>11, <1>12, RequestsStep DEF IInv, RequestsHold
  <1>14. NothingYet'
    BY <1>1 DEF IInv, NothingYet, rows, identity
  <1>. QED
    BY <1>11, <1>12, <1>13, <1>14 DEF IInv

LEMMA ProvisionStep ==
    ASSUME IInv, NEW p \in Processes, Provision(p)
    PROVE  IInv'
  <1>0. ProcsHold /\ KeysHold /\ RequestsHold
    BY DEF IInv, ProcsHold
  <1>1. /\ procs[p].state = "provisioning" /\ procs[p] \in ProcRows /\ ~Up(p) /\ procs[p].key # NoKey
        /\ UNCHANGED <<now, minted, identity, hash, sessions, creds, requests, ops>>
    BY <1>0 DEF Provision, ProcsHold, KeysHold, Up
  <1>2. ProcsHold' /\ ProcsStay
    <2>1. CASE signing = NoRow
      <3> DEFINE new == [procs[p] EXCEPT !.state = "up", !.generation = 1]
      <3>1. signing' = [key |-> procs[p].key, generation |-> 1] /\ procs' = [procs EXCEPT ![p] = new]
        BY <2>1, <1>0 DEF Provision, ProcsHold
      <3>2. new \in ProcRows /\ new.state = "up" /\ new.key = procs[p].key /\ new.generation = 1
            /\ new.version = procs[p].version
        BY <1>1 DEF ProcRows
      <3>3. signing' \in SigningRows /\ signing'.key = new.key /\ signing'.generation = 1
        BY <1>1, <3>1, <3>2 DEF SigningRows, ProcRows
      <3>. HIDE DEF new
      <3>4. /\ procs' \in [Processes -> ProcRows] /\ procs'[p] = new
            /\ \A q \in Processes : q # p => procs'[q] = procs[q]
        BY <1>0, <3>1, <3>2 DEF ProcsHold
      <3>5. \A q \in Processes : ~Up(q)
        BY <1>0, <2>1 DEF KeysHold
      <3>6. signing' # NoRow
        BY <3>3 DEF NoRow
      <3>7. KeysHold'
        BY <1>0, <1>1, <3>2, <3>3, <3>4, <3>5, <3>6 DEF KeysHold, ProcessesShareOneKey, Up
      <3>8. ProcsStay
        BY <3>5 DEF ProcsStay
      <3>. QED
        BY <1>0, <1>1, <3>3, <3>4, <3>7, <3>8 DEF ProcsHold
    <2>2. CASE signing # NoRow
      <3> DEFINE new == IF Adopted(p) = NoKey THEN Down
                        ELSE [procs[p] EXCEPT !.state = "up", !.key = Adopted(p), !.generation = signing.generation]
      <3>1. procs' = [procs EXCEPT ![p] = new] /\ UNCHANGED signing
        BY <2>2, <1>0 DEF Provision, ProcsHold
      <3>2. signing.key \in Keys /\ signing.generation \in Nat
        BY <1>0 DEF ProcsHold, SigningRows
      <3>3. Adopted(p) = NoKey \/ Adopted(p) = signing.key
        BY <2>2 DEF Adopted, Resolve
      <3>4. /\ new \in ProcRows
            /\ new.state # "down" => new.key # NoKey
            /\ new.state = "up" => signing # NoRow /\ new.key = signing.key /\ new.generation = signing.generation
        BY <1>1, <2>2, <3>2, <3>3, KeyTypes DEF ProcRows
      <3>. HIDE DEF new
      <3>5. minted' \in Nat /\ minted' <= ops' + 1 /\ ops' \in 0..MaxOps
        BY <1>0, <1>1 DEF ProcsHold
      <3>6. UNCHANGED <<now, signing>>
        BY <1>1, <3>1
      <3>. QED
        BY <1>0, <1>1, <3>1, <3>4, <3>5, <3>6, ProcStep
    <2>. QED
      BY <2>1, <2>2
  <1>3. SetupHolds' /\ InvitationsHold' /\ SessionsHold' /\ SessionsGrow
    BY <1>1, OthersFrame DEF identity
  <1>4. RequestsHold'
    BY <1>0, <1>1, <1>2, <1>3, RequestsStep DEF RequestsHold
  <1>5. NothingYet'
    BY <1>1 DEF IInv, NothingYet, identity
  <1>. QED
    BY <1>2, <1>3, <1>4, <1>5 DEF IInv

LEMMA StopProcessStep ==
    ASSUME IInv, NEW p \in Processes, StopProcess(p)
    PROVE  IInv'
  <1>0. ProcsHold /\ KeysHold /\ RequestsHold
    BY DEF IInv, ProcsHold
  <1>1. /\ Operation /\ procs' = [procs EXCEPT ![p] = Down] /\ UNCHANGED <<now, rows, minted>>
        /\ requests' = [r \in Requests |-> IF requests[r] # Idle /\ requests[r].proc = p THEN Idle ELSE requests[r]]
    BY DEF StopProcess
  <1>2. /\ procs' \in [Processes -> ProcRows] /\ procs'[p] = Down
        /\ \A q \in Processes : q # p => procs'[q] = procs[q]
    BY <1>0, <1>1, KeyTypes DEF ProcsHold
  <1>3. KeysHold'
    BY <1>0, <1>1, <1>2, KeyTypes DEF KeysHold, ProcessesShareOneKey, Up, rows
  <1>4. ops' \in 0..MaxOps /\ minted' \in Nat /\ minted' <= ops' + 1
    BY <1>0, <1>1, OpsStep DEF ProcsHold
  <1>5. ProcsHold'
    BY <1>0, <1>1, <1>2, <1>3, <1>4 DEF ProcsHold, rows
  <1>6. SetupHolds' /\ InvitationsHold' /\ SessionsHold'
    BY <1>1, OthersFrame DEF rows, identity
  <1>7. requests' \in [Requests -> {Idle} \cup Handlers]
    BY <1>0, <1>1 DEF RequestsHold
  <1>8. ASSUME NEW r \in Requests, NEW request, requests[r] = request, request # Idle, request.proc # p
        PROVE  RequestOK(request)'
    <2>1. RequestOK(request) /\ request.proc \in Processes
      BY <1>0, <1>8 DEF RequestsHold, Handlers, Logins, Touches, Invites, Deliveries, Replaces
    <2>2. procs'[request.proc] = procs[request.proc] /\ UNCHANGED sessions
      BY <1>1, <1>2, <1>8, <2>1 DEF rows
    <2>. QED
      BY <2>1, <2>2 DEF RequestOK, Up
  <1>9. ASSUME NEW r \in Requests, requests'[r] # Idle PROVE RequestOK(requests[r])'
    <2>1. requests[r] # Idle /\ requests[r].proc # p /\ requests'[r] = requests[r]
      BY <1>1, <1>9
    <2>. QED
      BY <1>8, <2>1
  <1>10. NothingYet'
    BY <1>1 DEF IInv, NothingYet, rows, identity
  <1>. QED
    BY <1>5, <1>6, <1>7, <1>9, <1>10 DEF IInv, RequestsHold

-----------------------------------------------------------------------------
(***************************************************************************)
(* What is ended with a key, and what is added.                            *)
(***************************************************************************)
RevokedCapabilities ==
    [c \in DOMAIN capabilities |->
        IF capabilities[c].state = "usable" THEN [capabilities[c] EXCEPT !.state = "revoked"] ELSE capabilities[c]]

LEMMA CapabilitiesEnd ==
    ASSUME SetupHolds
    PROVE  /\ RevokedCapabilities \in Seq(CapabilityRows)
           /\ DOMAIN RevokedCapabilities = DOMAIN capabilities /\ Len(RevokedCapabilities) = Len(capabilities)
           /\ \A c \in DOMAIN capabilities : RevokedCapabilities[c].state # "usable"
  <1> DEFINE new == RevokedCapabilities
  <1>1. ASSUME NEW c \in DOMAIN capabilities PROVE new[c] \in CapabilityRows /\ new[c].state # "usable"
    <2>1. capabilities[c] \in CapabilityRows
      BY DEF SetupHolds
    <2>2. CASE capabilities[c].state = "usable"
      <3>1. new[c] = [capabilities[c] EXCEPT !.state = "revoked"]
        BY <2>2 DEF RevokedCapabilities
      <3>. QED
        BY <2>1, <3>1 DEF CapabilityRows
    <2>3. CASE capabilities[c].state # "usable"
      BY <2>1, <2>3 DEF RevokedCapabilities
    <2>. QED
      BY <2>2, <2>3
  <1>2. DOMAIN capabilities = 1..Len(capabilities) /\ Len(capabilities) \in Nat
    BY DEF SetupHolds
  <1>3. new = [c \in 1..Len(capabilities) |-> new[c]]
    BY <1>2 DEF RevokedCapabilities
  <1>. HIDE DEF new
  <1>. QED
    BY <1>1, <1>2, <1>3 DEF new

\* Pending invitations are revoked, and mails keep their invitations.
LEMMA InvitationsEnd ==
    ASSUME InvitationsHold, UNCHANGED users,
           invitations' = [i \in DOMAIN invitations |-> invitations'[i]],
           \A i \in DOMAIN invitations :
              \/ invitations'[i] = invitations[i]
              \/ /\ invitations[i].state = "pending"
                 /\ invitations'[i] = [invitations[i] EXCEPT !.state = "revoked"],
           mails' \in Seq(MailRows), DOMAIN mails' = DOMAIN mails,
           \A m \in DOMAIN mails : mails'[m].invitation = mails[m].invitation
    PROVE  InvitationsHold' /\ DOMAIN invitations' = DOMAIN invitations
  <1>1. ASSUME NEW i \in DOMAIN invitations
        PROVE  /\ invitations'[i] \in InvitationRows /\ invitations'[i].email = invitations[i].email
               /\ invitations'[i].state = "accepted" <=> invitations[i].state = "accepted"
    <2>1. invitations[i] \in InvitationRows
      BY DEF InvitationsHold
    <2>. QED
      BY <2>1 DEF InvitationRows
  <1>2. DOMAIN invitations = 1..Len(invitations) /\ Len(invitations) \in Nat
    BY DEF InvitationsHold
  <1>3. invitations' \in Seq(InvitationRows) /\ DOMAIN invitations' = DOMAIN invitations
    BY <1>1, <1>2
  <1>4. \A m \in DOMAIN mails' : mails'[m].invitation \in DOMAIN invitations'
    BY <1>3 DEF InvitationsHold
  <1>5. \A i, j \in DOMAIN invitations' :
           Accepted(i)' /\ Accepted(j)' /\ invitations'[i].email = invitations'[j].email => i = j
    BY <1>1, <1>3 DEF InvitationsHold, Accepted
  <1>6. \A i \in DOMAIN invitations' : Accepted(i)' =>
           \E u \in DOMAIN users' : users'[u] = [email |-> invitations'[i].email, role |-> "member"]
    BY <1>1, <1>3 DEF InvitationsHold, Accepted
  <1>7. \A u \in DOMAIN users' : users'[u].role = "member" =>
           \E i \in DOMAIN invitations' : Accepted(i)' /\ invitations'[i].email = users'[u].email
    BY <1>1, <1>3 DEF InvitationsHold, Accepted
  <1>8. \A u, v \in DOMAIN users' : users'[u].email = users'[v].email => u = v
    BY DEF InvitationsHold
  <1>. QED
    BY <1>3, <1>4, <1>5, <1>6, <1>7, <1>8 DEF InvitationsHold

\* A session is opened: for the owner with the password in force, or overtaken.
LEMMA SessionOpened ==
    ASSUME SessionsHold, NEW new \in SessionRows, sessions' = Append(sessions, new),
           DOMAIN users \subseteq DOMAIN users', new.user \in DOMAIN users', new.key # NoKey,
           new.created <= new.seen, new.seen < new.idle, new.idle <= new.absolute,
           hash \in HashRows, hash' \in HashRows,
           sessions = <<>> \/ (Owner' = Owner /\ hash'.password <= hash.password),
           new.user \in Owner' /\ ~new.overlapped => new.password = hash'.password
    PROVE  SessionsHold' /\ SessionsGrow
  <1>1. /\ sessions \in Seq(SessionRows) /\ Len(sessions) \in Nat /\ DOMAIN sessions = 1..Len(sessions)
        /\ \A s \in DOMAIN sessions : sessions[s] \in SessionRows /\ SessionOK(sessions[s])
    BY DEF SessionsHold
  <1>2. /\ sessions' \in Seq(SessionRows) /\ DOMAIN sessions' = 1..(Len(sessions) + 1)
        /\ sessions'[Len(sessions) + 1] = new /\ \A s \in DOMAIN sessions : sessions'[s] = sessions[s]
    BY <1>1
  <1>3. ASSUME NEW s \in DOMAIN sessions'
        PROVE  /\ SessionOK(sessions[s])'
               /\ ~sessions'[s].revoked /\ sessions'[s].user \in Owner' /\ ~sessions'[s].overlapped
                     => sessions'[s].password = hash'.password \/ hash'.password < sessions'[s].password
    <2>1. CASE s = Len(sessions) + 1
      <3>1. sessions'[s] = new
        BY <1>2, <2>1
      <3>2. new.key \in Keys /\ new.created \in Times /\ new.seen \in Times /\ new.revoked \in BOOLEAN
            /\ new.password \in Nat /\ new.overlapped \in BOOLEAN
        BY DEF SessionRows
      <3>. QED
        BY <3>1, <3>2 DEF SessionOK
    <2>2. CASE s # Len(sessions) + 1
      <3>1. s \in DOMAIN sessions /\ sessions'[s] = sessions[s] /\ sessions # <<>>
        BY <1>1, <1>2, <2>2
      <3>2. SessionOK(sessions[s])'
        BY <1>1, <3>1 DEF SessionOK
      <3>3. sessions[s].password \in Nat /\ hash.password \in Nat /\ hash'.password \in Nat
        BY <1>1, <3>1 DEF SessionRows, HashRows
      <3>4. Owner' = Owner /\ hash'.password <= hash.password
        BY <3>1
      <3>5. ~sessions[s].revoked /\ sessions[s].user \in Owner /\ ~sessions[s].overlapped
               => sessions[s].password = hash.password \/ hash.password < sessions[s].password
        BY <3>1 DEF SessionsHold, ResetsEndSessions
      <3>. QED
        BY <3>1, <3>2, <3>3, <3>4, <3>5
    <2>. QED
      BY <2>1, <2>2
  <1>4. ResetsEndSessions'
    BY <1>3 DEF ResetsEndSessions
  <1>. QED
    BY <1>1, <1>2, <1>3, <1>4 DEF SessionsHold, SessionsGrow

\* An operation that changes no process and no request.
LEMMA RequestsFrame ==
    ASSUME RequestsHold, UNCHANGED <<procs, requests>>, SessionsGrow
    PROVE  RequestsHold'
  <1>1. ProcsStay
    BY DEF ProcsStay, Up
  <1>. QED
    BY <1>1, RequestsStep DEF RequestsHold

\* Sessions that are ended are still there.
LEMMA AgeGrows ==
    ASSUME SessionsHold, SessionsAge
    PROVE  SessionsGrow
  <1>1. ASSUME NEW s \in DOMAIN sessions
        PROVE  sessions'[s].created = sessions[s].created /\ sessions'[s].absolute = sessions[s].absolute
    BY EndedRow DEF SessionsHold, SessionsAge
  <1>. QED
    BY <1>1 DEF SessionsGrow, SessionsAge

-----------------------------------------------------------------------------
(***************************************************************************)
(* Keys are rotated.                                                       *)
(***************************************************************************)
LEMMA RotateSigningKeyStep ==
    ASSUME IInv, NEW p \in Processes, RotateSigningKey(p)
    PROVE  IInv'
  <1>0. ProcsHold /\ KeysHold /\ SetupHolds /\ InvitationsHold /\ SessionsHold /\ RequestsHold /\ NothingYet
    BY DEF IInv, ProcsHold
  <1>1. /\ Operation /\ Up(p)
        /\ signing' = [key |-> FreshKey, generation |-> signing.generation + 1] /\ minted' = minted + 1
        /\ sessions' = [s \in DOMAIN sessions |-> [sessions[s] EXCEPT !.revoked = TRUE]]
        /\ capabilities' = RevokedCapabilities
        /\ invitations' = [i \in DOMAIN invitations |->
                             IF invitations[i].state = "pending" THEN [invitations[i] EXCEPT !.state = "revoked"]
                             ELSE invitations[i]]
        /\ UNCHANGED <<now, procs, closed, users, mails, hash, creds, requests>>
    BY DEF RotateSigningKey, RevokedCapabilities
  <1>2. ProcsHold'
    <2>1. /\ ops' \in 0..MaxOps /\ ops' = ops + 1 /\ minted \in Nat /\ minted <= MaxOps /\ minted <= ops + 1
          /\ FreshKey \in Keys /\ FreshKey # NoKey
      BY <1>0, <1>1, OpsStep, KeyTypes DEF ProcsHold
    <2>2. signing.generation \in Nat
      BY <1>0 DEF ProcsHold, SigningRows
    <2>3. signing' \in SigningRows /\ signing'.key # NoKey /\ signing'.generation = signing.generation + 1
      BY <1>1, <2>1, <2>2 DEF SigningRows
    <2>4. signing' # NoRow
      BY <2>3 DEF NoRow
    <2>5. \A q \in Processes : procs'[q] = procs[q] /\ procs[q].generation \in Nat
      BY <1>0, <1>1 DEF ProcsHold, ProcRows
    <2>6. KeysHold'
      BY <1>0, <2>2, <2>3, <2>4, <2>5 DEF KeysHold, ProcessesShareOneKey, Up
    <2>. QED
      BY <1>0, <1>1, <2>1, <2>3, <2>6 DEF ProcsHold
  <1>3. SetupHolds'
    <2>1. /\ capabilities' \in Seq(CapabilityRows)
          /\ \A c \in DOMAIN capabilities' : capabilities'[c].state # "usable"
      BY <1>0, <1>1, CapabilitiesEnd
    <2>. QED
      BY <1>0, <1>1, <2>1 DEF SetupHolds, Usable, Owner
  <1>4. InvitationsHold' /\ DOMAIN invitations' = DOMAIN invitations
    <2>1. invitations' = [i \in DOMAIN invitations |-> invitations'[i]]
      BY <1>1
    <2>2. \A i \in DOMAIN invitations :
              \/ invitations'[i] = invitations[i]
              \/ /\ invitations[i].state = "pending"
                 /\ invitations'[i] = [invitations[i] EXCEPT !.state = "revoked"]
      BY <1>1
    <2>3. mails' \in Seq(MailRows) /\ mails' = mails
      BY <1>0, <1>1 DEF InvitationsHold
    <2>. QED
      BY <1>0, <1>1, <2>1, <2>2, <2>3, InvitationsEnd
  <1>5. SessionsHold' /\ SessionsGrow /\ DOMAIN sessions' = DOMAIN sessions
    <2>1. SessionsAge /\ sessions' = [s \in DOMAIN sessions |-> sessions'[s]]
      BY <1>1 DEF SessionsAge
    <2>. QED
      BY <1>0, <1>1, <2>1, SessionsEnd, AgeGrows DEF SessionsAge
  <1>6. RequestsHold'
    BY <1>0, <1>1, <1>5, RequestsFrame
  <1>7. NothingYet'
    <2>1. invitations = <<>> => invitations' = <<>>
      BY <1>1
    <2>2. sessions = <<>> => sessions' = <<>>
      BY <1>1
    <2>. QED
      BY <1>0, <1>1, <2>1, <2>2 DEF NothingYet
  <1>. QED
    BY <1>2, <1>3, <1>4, <1>5, <1>6, <1>7 DEF IInv

LEMMA RotateCredentialKeyStep ==
    ASSUME IInv, NEW p \in Processes, NEW version \in Versions, RotateCredentialKey(p, version)
    PROVE  IInv'
  <1>0. ProcsHold /\ SetupHolds
    BY DEF IInv
  <1>1. /\ Operation /\ closed /\ creds' = [k \in Kinds |-> version]
        /\ UNCHANGED <<now, procs, minted, signing, closed, capabilities, users, invitations, mails, hash,
                       sessions, requests>>
    BY DEF RotateCredentialKey, Rotate, identity
  <1>2. version \in 0..MaxVersion /\ version # 0
    BY AccountsTypes DEF Versions
  <1>3. creds' \in [Kinds -> 0..MaxVersion] /\ \A k \in Kinds : creds'[k] # 0
    BY <1>1, <1>2
  <1>4. SetupHolds'
    BY <1>0, <1>1, <1>3 DEF SetupHolds, Usable, Owner
  <1>5. ProcsHold'
    BY <1>0, <1>1, ProcsFrame
  <1>6. InvitationsHold' /\ SessionsHold' /\ SessionsGrow
    BY <1>1, InvitationsFrame, SessionsFrame DEF IInv, SessionsGrow
  <1>7. RequestsHold' /\ NothingYet'
    BY <1>1, <1>6, RequestsFrame DEF IInv, NothingYet
  <1>. QED
    BY <1>4, <1>5, <1>6, <1>7 DEF IInv

-----------------------------------------------------------------------------
(***************************************************************************)
(* The setup.                                                              *)
(***************************************************************************)
LEMMA IssueSetupCapabilityStep ==
    ASSUME IInv, NEW p \in Processes, IssueSetupCapability(p)
    PROVE  IInv'
  <1> DEFINE new == [state |-> "usable", expires |-> now + SetupTTL, key |-> procs[p].key]
             old == RevokedCapabilities
  <1>0. ProcsHold /\ SetupHolds
    BY DEF IInv
  <1>1. /\ Operation /\ ~closed /\ capabilities' = Append(old, new)
        /\ UNCHANGED <<now, procs, minted, signing, closed, users, invitations, mails, hash, sessions, creds, requests>>
    BY DEF IssueSetupCapability, RevokedCapabilities, Usable
  <1>2. new \in CapabilityRows
    <2>1. procs[p].key \in Keys /\ now \in Times
      BY <1>0 DEF ProcsHold, ProcRows
    <2>2. now + SetupTTL \in Later(SetupTTL)
      BY <2>1, AccountsTypes DEF Times, Later
    <2>. QED
      BY <2>1, <2>2 DEF CapabilityRows
  <1>3. /\ old \in Seq(CapabilityRows) /\ DOMAIN old = 1..Len(old) /\ Len(old) \in Nat
        /\ \A c \in DOMAIN old : old[c].state # "usable"
    BY <1>0, CapabilitiesEnd
  <1>. HIDE DEF old, new
  <1>4. /\ capabilities' \in Seq(CapabilityRows) /\ DOMAIN capabilities' = 1..(Len(old) + 1)
        /\ \A c \in DOMAIN old : capabilities'[c] = old[c]
    BY <1>1, <1>2, <1>3
  <1>5. \A c \in DOMAIN capabilities' : capabilities'[c].state = "usable" => c = Len(old) + 1
    BY <1>3, <1>4
  <1>6. SetupHolds'
    BY <1>0, <1>1, <1>4, <1>5 DEF SetupHolds, Usable, Owner
  <1>7. ProcsHold'
    BY <1>0, <1>1, ProcsFrame
  <1>8. InvitationsHold' /\ SessionsHold' /\ SessionsGrow
    BY <1>1, InvitationsFrame, SessionsFrame DEF IInv, SessionsGrow
  <1>9. RequestsHold' /\ NothingYet'
    BY <1>1, <1>8, RequestsFrame DEF IInv, NothingYet
  <1>. QED
    BY <1>6, <1>7, <1>8, <1>9 DEF IInv

LEMMA BootstrapOwnerStep ==
    ASSUME IInv, NEW p \in Processes, NEW c \in DOMAIN capabilities, NEW email \in Emails, BootstrapOwner(p, c, email)
    PROVE  IInv'
  <1> DEFINE key == procs[p].key
             version == procs[p].version
             owner == [email |-> email, role |-> "owner"]
             new == NewSession(1, key, now, 1, FALSE)
  <1>0. ProcsHold /\ KeysHold /\ SetupHolds /\ NothingYet /\ RequestsHold /\ InvitationsHold /\ SessionsHold
    BY DEF IInv, ProcsHold
  <1>1. /\ Operation /\ Up(p) /\ version # 0 /\ ~closed /\ Usable(c)
        /\ users' = <<owner>> /\ hash' = [password |-> 1, old |-> FALSE] /\ creds' = [k \in Kinds |-> version]
        /\ sessions' = Append(sessions, new)
        /\ capabilities' = [capabilities EXCEPT ![c].state = "consumed"] /\ closed' = TRUE
        /\ UNCHANGED <<now, procs, minted, signing, invitations, mails, requests>>
    BY DEF BootstrapOwner, CompleteBootstrap, Consumed
  <1>2. users = <<>> /\ invitations = <<>> /\ sessions = <<>>
    BY <1>0, <1>1 DEF SetupHolds, NothingYet
  <1>3. key \in Keys \ {NoKey} /\ version \in 0..MaxVersion /\ now \in Times
    BY <1>0, <1>1 DEF ProcsHold, ProcRows, KeysHold, Up
  <1>4. users' \in Seq(UserRows) /\ DOMAIN users' = {1} /\ users'[1] = owner
    BY <1>1 DEF UserRows
  <1>5. Owner' = {1}
    BY <1>4 DEF Owner
  <1>6. hash' \in HashRows /\ hash'.password = 1 /\ hash \in HashRows
    BY <1>0, <1>1 DEF HashRows, SetupHolds
  <1>7. /\ capabilities' \in Seq(CapabilityRows) /\ DOMAIN capabilities' = DOMAIN capabilities
        /\ \A d \in DOMAIN capabilities : capabilities'[d].state # "usable"
    <2>1. capabilities \in Seq(CapabilityRows) /\ capabilities[c] \in CapabilityRows
      BY <1>0 DEF SetupHolds
    <2>2. [capabilities[c] EXCEPT !.state = "consumed"] \in CapabilityRows
      BY <2>1 DEF CapabilityRows
    <2>3. capabilities' = [capabilities EXCEPT ![c] = [capabilities[c] EXCEPT !.state = "consumed"]]
      BY <1>1
    <2>4. [capabilities[c] EXCEPT !.state = "consumed"].state = "consumed"
      BY <2>1 DEF CapabilityRows
    <2>5. \A d \in DOMAIN capabilities : d # c => capabilities[d].state # "usable"
      BY <1>0, <1>1 DEF SetupHolds, Usable
    <2>. QED
      BY <2>1, <2>2, <2>3, <2>4, <2>5
  <1>8. creds' \in [Kinds -> 0..MaxVersion] /\ \A k \in Kinds : creds'[k] # 0
    BY <1>1, <1>3
  <1>9. SetupHolds'
    <2>1. hash'.old = FALSE
      BY <1>1
    <2>2. closed' = TRUE
      BY <1>1
    <2>3. \A d \in DOMAIN capabilities' : ~Usable(d)'
      BY <1>7 DEF Usable
    <2>. QED
      BY <1>4, <1>5, <1>6, <1>7, <1>8, <2>1, <2>2, <2>3 DEF SetupHolds
  <1>10. SessionsHold' /\ SessionsGrow
    <2>1. /\ new \in SessionRows /\ new.user = 1 /\ new.key = key /\ new.password = 1
          /\ new.created <= new.seen /\ new.seen < new.idle /\ new.idle <= new.absolute
      <3>. HIDE DEF key
      <3>1. key \in Keys \ {NoKey} /\ now \in Times
        BY <1>3
      <3>2. PICK overlapped \in BOOLEAN : overlapped = FALSE
        OBVIOUS
      <3>3. Begun(NewSession(1, key, now, 1, overlapped), 1, key, 1, overlapped)
        BY <3>1, NewSessionHolds
      <3>. QED
        BY <3>2, <3>3 DEF Begun
    <2>. HIDE DEF new
    <2>. QED
      BY <1>0, <1>1, <1>2, <1>3, <1>4, <1>6, <2>1, SessionOpened
  <1>11. InvitationsHold'
    <2>1. \A u \in DOMAIN users' : users'[u].role = "owner"
      BY <1>4
    <2>2. invitations' = <<>> /\ DOMAIN invitations' = {}
      BY <1>1, <1>2
    <2>. QED
      BY <1>0, <1>1, <1>2, <1>4, <2>1, <2>2 DEF InvitationsHold
  <1>12. ProcsHold'
    BY <1>0, <1>1, ProcsFrame
  <1>13. RequestsHold' /\ NothingYet'
    BY <1>0, <1>1, <1>10, RequestsFrame DEF NothingYet
  <1>. QED
    BY <1>9, <1>10, <1>11, <1>12, <1>13 DEF IInv

-----------------------------------------------------------------------------
(***************************************************************************)
(* Requests begin and end.                                                 *)
(***************************************************************************)
LEMMA BeginStep ==
    ASSUME IInv, NEW r \in Requests, NEW p \in Processes, NEW request \in Handlers, Begin(r, p, request),
           UNCHANGED rows, RequestOK(request), closed
    PROVE  IInv'
  <1>0. ProcsHold /\ RequestsHold
    BY DEF IInv
  <1>1. /\ Operation /\ requests' = [requests EXCEPT ![r] = request] /\ closed' = closed
        /\ UNCHANGED <<now, procs, minted, signing, closed, capabilities, users, invitations, mails, hash,
                       sessions, creds>>
    BY DEF Begin, rows, identity
  <1>2. requests' \in [Requests -> {Idle} \cup Handlers]
    BY <1>0, <1>1 DEF RequestsHold
  <1>3. ASSUME NEW q \in Requests PROVE requests'[q] = requests[q] \/ RequestOK(requests[q])'
    <2>1. CASE q = r
      <3>1. requests'[q] = request
        BY <1>0, <1>1, <2>1 DEF RequestsHold
      <3>. QED
        BY <1>1, <3>1 DEF RequestOK, Up
    <2>2. CASE q # r
      BY <1>0, <1>1, <2>2 DEF RequestsHold
    <2>. QED
      BY <2>1, <2>2
  <1>4. SetupHolds' /\ InvitationsHold' /\ SessionsHold' /\ SessionsGrow
    BY <1>1, OthersFrame
  <1>5. ProcsStay
    BY <1>1 DEF ProcsStay, Up
  <1>6. RequestsHold'
    BY <1>0, <1>2, <1>3, <1>4, <1>5, RequestsStep
  <1>7. ProcsHold'
    BY <1>0, <1>1, ProcsFrame
  <1>8. NothingYet'
    BY <1>1 DEF NothingYet
  <1>. QED
    BY <1>4, <1>6, <1>7, <1>8 DEF IInv

LEMMA FinishStep ==
    ASSUME RequestsHold, NEW r \in Requests, Finish(r), UNCHANGED procs, SessionsGrow
    PROVE  RequestsHold'
  <1>1. requests' \in [Requests -> {Idle} \cup Handlers]
    BY DEF RequestsHold, Finish
  <1>2. \A q \in Requests : requests'[q] = requests[q] \/ requests'[q] = Idle
    BY DEF RequestsHold, Finish
  <1>3. ProcsStay
    BY DEF ProcsStay, Up
  <1>. QED
    BY <1>1, <1>2, <1>3, RequestsStep

\* What a request that is under way says of the installation.
LEMMA RequestOf ==
    ASSUME IInv, NEW r \in Requests, requests[r] # Idle
    PROVE  /\ closed /\ requests[r] \in Handlers /\ RequestOK(requests[r]) /\ Up(requests[r].proc)
           /\ procs[requests[r].proc].key \in Keys \ {NoKey}
           /\ procs[requests[r].proc].version \in 0..MaxVersion
           /\ requests[r].op = "login" => requests[r] \in Logins
           /\ requests[r].op = "touch" => requests[r] \in Touches
           /\ requests[r].op = "invite" => requests[r] \in Invites
           /\ requests[r].op = "deliver" => requests[r] \in Deliveries
           /\ requests[r].op = "replace" => requests[r] \in Replaces
  <1> DEFINE request == requests[r]
  <1>1. closed
    BY DEF IInv, NothingYet
  <1>2. request \in Handlers /\ RequestOK(request)
    BY DEF IInv, RequestsHold
  <1>3. /\ request.op = "login" => request \in Logins
        /\ request.op = "touch" => request \in Touches
        /\ request.op = "invite" => request \in Invites
        /\ request.op = "deliver" => request \in Deliveries
        /\ request.op = "replace" => request \in Replaces
        /\ request.proc \in Processes
    BY <1>2 DEF Handlers, Logins, Touches, Invites, Deliveries, Replaces
  <1>4. Up(request.proc)
    BY <1>2 DEF RequestOK
  <1>5. procs[request.proc].key \in Keys \ {NoKey} /\ procs[request.proc].version \in 0..MaxVersion
    BY <1>3, <1>4 DEF IInv, ProcsHold, KeysHold, ProcRows, Up
  <1>. QED
    BY <1>1, <1>2, <1>3, <1>4, <1>5

-----------------------------------------------------------------------------
(***************************************************************************)
(* Sessions.                                                               *)
(***************************************************************************)
LEMMA BeginLoginStep ==
    ASSUME IInv, NEW r \in Requests, NEW p \in Processes, BeginLogin(r, p)
    PROVE  IInv'
  <1> DEFINE request == [op |-> "login", proc |-> p, hash |-> hash, at |-> now]
  <1>1. closed /\ Begin(r, p, request) /\ UNCHANGED rows /\ Up(p)
    BY DEF BeginLogin, Begin
  <1>2. hash \in HashRows /\ now \in Times /\ (hash.old => hash.password = 1)
    BY DEF IInv, SetupHolds, ProcsHold
  <1>3. request \in Handlers
    BY <1>2 DEF Handlers, Logins
  <1>4. RequestOK(request)
    BY <1>1, <1>2 DEF RequestOK
  <1>. HIDE DEF request
  <1>. QED
    BY <1>1, <1>3, <1>4, BeginStep

\* The owner's session is opened with the password that was read, and the hash it
\* writes back is the oldest.
LEMMA CreateOwnerSessionStep ==
    ASSUME IInv, NEW r \in Requests, CreateOwnerSession(r)
    PROVE  IInv'
  <1> DEFINE read == requests[r].hash
             at   == requests[r].at
             key  == procs[requests[r].proc].key
             user == CHOOSE u \in Owner : TRUE
  <1>0. ProcsHold /\ SetupHolds /\ InvitationsHold /\ SessionsHold /\ RequestsHold
    BY DEF IInv
  <1>1. /\ requests[r] # Idle /\ requests[r].op = "login"
        /\ hash' = IF read.old THEN [read EXCEPT !.old = FALSE] ELSE hash
        /\ sessions' = Append(sessions, NewSession(user, key, at, read.password, hash.password # read.password))
        /\ Finish(r)
        /\ UNCHANGED <<now, procs, minted, signing, closed, capabilities, users, invitations, mails, creds, ops>>
    BY DEF CreateOwnerSession, At, identity
  <1>2. closed /\ requests[r] \in Logins /\ RequestOK(requests[r]) /\ key \in Keys \ {NoKey}
    BY <1>1, RequestOf
  <1>3. read \in HashRows /\ at \in Times
    BY <1>2 DEF Logins
  <1>4. (read.old => read.password = 1) /\ read.password \in Nat
    BY <1>1, <1>2, <1>3 DEF RequestOK, HashRows
  <1>5. Owner = {1} /\ user = 1 /\ 1 \in DOMAIN users /\ hash.password \in Nat \ {0} /\ hash \in HashRows
        /\ (hash.old => hash.password = 1)
    BY <1>0, <1>2 DEF SetupHolds, Owner, HashRows
  <1>6. hash' \in HashRows /\ hash'.password <= hash.password /\ hash'.password # 0
        /\ (hash'.old => hash'.password = 1)
        /\ (hash.password = read.password => hash'.password = read.password)
    <2>1. CASE read.old
      <3>1. hash' = [read EXCEPT !.old = FALSE]
        BY <1>1, <2>1
      <3>2. [read EXCEPT !.old = FALSE] \in HashRows
        BY <1>3, Zenon DEF HashRows
      <3>3. hash'.password = read.password /\ ~hash'.old
        BY <1>3, <3>1 DEF HashRows
      <3>4. read.password = 1
        BY <1>4, <2>1
      <3>. QED
        BY <1>5, <3>1, <3>2, <3>3, <3>4
    <2>2. CASE ~read.old
      BY <1>1, <1>5, <2>2
    <2>. QED
      BY <2>1, <2>2
  <1>. HIDE DEF read, at, key, user
  <1>7. PICK overlapped \in BOOLEAN : overlapped <=> (hash.password # read.password)
    OBVIOUS
  <1>8. sessions' = Append(sessions, NewSession(user, key, at, read.password, overlapped))
    <2>1. overlapped = (hash.password # read.password)
      BY <1>7, Zenon
    <2>. QED
      BY <1>1, <2>1
  <1> DEFINE new == NewSession(user, key, at, read.password, overlapped)
  <1>9. Begun(new, user, key, read.password, overlapped)
    <2>1. user \in Nat
      BY <1>5
    <2>. QED
      BY <1>2, <1>3, <1>4, <2>1, NewSessionHolds
  <1>. HIDE DEF new
  <1>10. SessionsHold' /\ SessionsGrow
    <2>1. new \in SessionRows /\ new.user = 1 /\ new.key # NoKey /\ new.password = read.password
          /\ new.created <= new.seen /\ new.seen < new.idle /\ new.idle <= new.absolute
      BY <1>2, <1>5, <1>9 DEF Begun
    <2>2. ~new.overlapped => new.password = hash'.password
      BY <1>6, <1>7, <1>9, <2>1 DEF Begun
    <2>3. UNCHANGED users /\ Owner' = Owner /\ sessions' = Append(sessions, new)
      BY <1>1, <1>8 DEF Owner, new
    <2>. QED
      BY <1>0, <1>5, <1>6, <2>1, <2>2, <2>3, SessionOpened
  <1>11. SetupHolds'
    BY <1>0, <1>1, <1>6 DEF SetupHolds, Usable, Owner
  <1>12. InvitationsHold' /\ ProcsHold'
    BY <1>0, <1>1, InvitationsFrame, ProcsFrame
  <1>13. RequestsHold'
    BY <1>0, <1>1, <1>10, FinishStep
  <1>14. NothingYet'
    BY <1>1, <1>2 DEF NothingYet
  <1>. QED
    BY <1>10, <1>11, <1>12, <1>13, <1>14 DEF IInv

LEMMA BeginAuthenticateStep ==
    ASSUME IInv, NEW r \in Requests, NEW p \in Processes, NEW s \in DOMAIN sessions, BeginAuthenticate(r, p, s)
    PROVE  IInv'
  <1> DEFINE row     == sessions[s]
             idle    == Min({now + IdleTimeout, row.absolute})
             request == [op |-> "touch", proc |-> p, session |-> s, next |-> Touched(row, now)]
  <1>1. Begin(r, p, request) /\ UNCHANGED rows /\ Up(p) /\ ActiveAt(row, now)
    BY DEF BeginAuthenticate, Begin
  <1>2. row \in SessionRows /\ SessionOK(row) /\ s \in Nat /\ now \in Times
    BY DEF IInv, SessionsHold, ProcsHold
  <1>3. row.created <= now /\ now < row.absolute
    BY <1>1 DEF ActiveAt
  <1>4. now \in Nat /\ row.absolute \in Nat /\ now + IdleTimeout \in Nat /\ now < now + IdleTimeout
    BY <1>2, AccountsTypes DEF SessionRows
  <1>5. idle \in Nat /\ idle <= row.absolute /\ now < idle
    <2>1. \A c \in Int : c < now + IdleTimeout /\ c < row.absolute => c < idle
      BY <1>4, LesserOf
    <2>2. idle \in Nat /\ idle <= row.absolute
      BY <1>4, LesserOf
    <2>. QED
      BY <1>3, <1>4, <2>1, <2>2
  <1>6. Touched(row, now) = [seen |-> now, idle |-> idle]
    BY DEF Touched
  <1>. HIDE DEF idle
  <1>7. request \in Handlers
    BY <1>2, <1>5, <1>6 DEF Handlers, Touches
  <1>8. RequestOK(request)
    BY <1>1, <1>3, <1>5, <1>6 DEF RequestOK
  <1>9. closed
    BY DEF IInv, NothingYet
  <1>. HIDE DEF request
  <1>. QED
    BY <1>1, <1>7, <1>8, <1>9, BeginStep

\* Activity moves a session's idle end, never past its absolute one.
LEMMA UpdateSessionActivityStep ==
    ASSUME IInv, NEW r \in Requests, UpdateSessionActivity(r)
    PROVE  IInv'
  <1> DEFINE s    == requests[r].session
             next == requests[r].next
             new  == [sessions[s] EXCEPT !.seen = next.seen, !.idle = next.idle]
  <1>0. ProcsHold /\ SetupHolds /\ InvitationsHold /\ SessionsHold /\ RequestsHold
    BY DEF IInv
  <1>1. /\ requests[r] # Idle /\ requests[r].op = "touch" /\ Finish(r)
        /\ sessions' = IF sessions[s].revoked THEN sessions
                       ELSE [sessions EXCEPT ![s].seen = next.seen, ![s].idle = next.idle]
        /\ UNCHANGED <<now, procs, minted, signing, closed, capabilities, users, invitations, mails, hash, creds, ops>>
    BY DEF UpdateSessionActivity, At, identity
  <1>2. closed /\ requests[r] \in Touches /\ RequestOK(requests[r])
    BY <1>1, RequestOf
  <1>3. /\ next.seen \in Times /\ next.idle \in Nat /\ s \in DOMAIN sessions
        /\ sessions[s].created <= next.seen /\ next.seen < next.idle /\ next.idle <= sessions[s].absolute
    BY <1>1, <1>2 DEF RequestOK, Touches
  <1>4. /\ sessions \in Seq(SessionRows) /\ sessions[s] \in SessionRows /\ SessionOK(sessions[s])
    BY <1>0, <1>3 DEF SessionsHold
  <1>5. CASE sessions[s].revoked
    <2>1. UNCHANGED sessions
      BY <1>1, <1>5
    <2>. QED
      BY <1>0, <1>1, <2>1, SessionsFrame, ProcsFrame, SetupFrame, InvitationsFrame, FinishStep, <1>2
         DEF IInv, NothingYet, SessionsGrow
  <1>6. CASE ~sessions[s].revoked
    <2>1. sessions' = [sessions EXCEPT ![s] = new]
      BY <1>1, <1>3, <1>4, <1>6
    <2>2. new \in SessionRows
      BY <1>3, <1>4, Zenon DEF SessionRows
    <2>3. /\ new.user = sessions[s].user /\ new.key = sessions[s].key /\ new.created = sessions[s].created
          /\ new.absolute = sessions[s].absolute /\ new.password = sessions[s].password
          /\ new.seen = next.seen /\ new.idle = next.idle
      BY <1>4 DEF SessionRows
    <2>4. new.overlapped = sessions[s].overlapped /\ new.revoked = sessions[s].revoked
      BY <1>4 DEF SessionRows
    <2>5. SessionOK(new)
      BY <1>3, <1>4, <2>3, <2>4 DEF SessionOK
    <2>. HIDE DEF new, s, next
    <2>6. /\ sessions' \in Seq(SessionRows) /\ DOMAIN sessions' = DOMAIN sessions /\ sessions'[s] = new
          /\ \A t \in DOMAIN sessions : t # s => sessions'[t] = sessions[t]
      BY <1>3, <1>4, <2>1, <2>2
    <2>7. UNCHANGED users /\ UNCHANGED hash
      BY <1>1
    <2>8. ASSUME NEW t \in DOMAIN sessions'
          PROVE  /\ SessionOK(sessions[t])'
                 /\ ~sessions'[t].revoked /\ sessions'[t].user \in Owner' /\ ~sessions'[t].overlapped
                     => sessions'[t].password = hash'.password \/ hash'.password < sessions'[t].password
      <3>1. /\ SessionOK(sessions[t])
            /\ ~sessions[t].revoked /\ sessions[t].user \in Owner /\ ~sessions[t].overlapped
                 => sessions[t].password = hash.password \/ hash.password < sessions[t].password
        BY <1>0, <2>6 DEF SessionsHold, ResetsEndSessions
      <3>2. Owner' = Owner
        BY <2>7 DEF Owner
      <3>3. CASE t = s
        <4>1. SessionOK(sessions[t])'
          BY <2>5, <2>6, <2>7, <3>3 DEF SessionOK
        <4>. QED
          BY <2>3, <2>4, <2>6, <2>7, <3>1, <3>2, <3>3, <4>1
      <3>4. CASE t # s
        <4>1. sessions'[t] = sessions[t]
          BY <2>6, <3>4
        <4>2. SessionOK(sessions[t])'
          BY <2>7, <3>1, <4>1 DEF SessionOK
        <4>. QED
          BY <2>7, <3>1, <3>2, <4>1, <4>2
      <3>. QED
        BY <3>3, <3>4
    <2>9. SessionsHold'
      BY <2>6, <2>8 DEF SessionsHold, ResetsEndSessions
    <2>10. SessionsGrow
      BY <2>3, <2>6 DEF SessionsGrow
    <2>11. SetupHolds' /\ InvitationsHold' /\ ProcsHold'
      BY <1>0, <1>1, ProcsFrame, SetupFrame, InvitationsFrame
    <2>12. RequestsHold' /\ NothingYet'
      BY <1>0, <1>1, <1>2, <2>10, FinishStep DEF NothingYet
    <2>. QED
      BY <2>9, <2>11, <2>12 DEF IInv
  <1>. QED
    BY <1>5, <1>6

\* Revocations, with the hash as it was or reset.
LEMMA RevokingStep ==
    ASSUME IInv, NEW these, Revoking(these), hash' \in HashRows,
           hash' = hash \/ (/\ closed /\ ~hash'.old /\ hash'.password # 0
                            /\ \A s \in DOMAIN sessions : sessions[s].user \in Owner => s \in these)
    PROVE  IInv'
  <1>0. ProcsHold /\ SetupHolds /\ InvitationsHold /\ SessionsHold /\ RequestsHold /\ NothingYet
    BY DEF IInv
  <1>1. /\ Operation
        /\ sessions' = [s \in DOMAIN sessions |->
                          IF s \in these THEN [sessions[s] EXCEPT !.revoked = TRUE] ELSE sessions[s]]
        /\ UNCHANGED <<now, procs, minted, signing, closed, capabilities, users, invitations, mails, creds, requests>>
    BY DEF Revoking, identity
  <1>2. SessionsAge /\ sessions' = [s \in DOMAIN sessions |-> sessions'[s]]
    BY <1>1 DEF SessionsAge
  <1>3. ASSUME NEW s \in DOMAIN sessions
        PROVE  /\ sessions[s] \in SessionRows /\ SessionOK(sessions[s])
               /\ sessions'[s] \in SessionRows /\ SessionOK(sessions'[s])
               /\ sessions'[s].user = sessions[s].user /\ sessions'[s].password = sessions[s].password
               /\ sessions'[s].overlapped = sessions[s].overlapped
               /\ ~sessions'[s].revoked => ~sessions[s].revoked
    BY <1>0, <1>2, EndedRow DEF SessionsHold, SessionsAge
  <1>4. SessionsHold'
    <2>1. CASE hash' = hash
      BY <1>0, <1>1, <1>2, <2>1, SessionsEnd
    <2>2. CASE \A s \in DOMAIN sessions : sessions[s].user \in Owner => s \in these
      <3>1. sessions' \in Seq(SessionRows) /\ DOMAIN sessions' = DOMAIN sessions
        <4>1. DOMAIN sessions = 1..Len(sessions) /\ Len(sessions) \in Nat
          BY <1>0 DEF SessionsHold
        <4>. QED
          BY <1>2, <1>3, <4>1
      <3>2. \A s \in DOMAIN sessions' : SessionOK(sessions[s])'
        BY <1>1, <1>3, <3>1 DEF SessionOK
      <3>3. \A s \in DOMAIN sessions' : sessions'[s].user \in Owner' => sessions'[s].revoked
        <4>1. Owner' = Owner
          BY <1>1 DEF Owner
        <4>2. ASSUME NEW s \in DOMAIN sessions, sessions[s].user \in Owner PROVE sessions'[s].revoked
          <5>1. sessions'[s] = [sessions[s] EXCEPT !.revoked = TRUE]
            BY <1>1, <2>2, <4>2
          <5>. QED
            BY <1>3, <5>1 DEF SessionRows
        <4>. QED
          BY <1>3, <3>1, <4>1, <4>2
      <3>. QED
        BY <3>1, <3>2, <3>3 DEF SessionsHold, ResetsEndSessions
    <2>. QED
      BY <2>1, <2>2
  <1>5. SetupHolds'
    BY <1>0, <1>1 DEF SetupHolds, Usable, Owner
  <1>6. InvitationsHold' /\ ProcsHold'
    BY <1>0, <1>1, ProcsFrame, InvitationsFrame
  <1>7. RequestsHold'
    BY <1>0, <1>1, <1>2, AgeGrows, RequestsFrame
  <1>8. NothingYet'
    BY <1>0, <1>1 DEF NothingYet
  <1>. QED
    BY <1>4, <1>5, <1>6, <1>7, <1>8 DEF IInv

LEMMA RevokeSteps ==
    ASSUME IInv, \/ \E s \in DOMAIN sessions : RevokeSession(s)
                 \/ \E u \in DOMAIN users : RevokeAllSessions(u)
    PROVE  IInv'
  <1>1. hash \in HashRows
    BY DEF IInv, SetupHolds
  <1>2. ASSUME NEW s \in DOMAIN sessions, RevokeSession(s) PROVE IInv'
    BY <1>1, <1>2, RevokingStep DEF RevokeSession
  <1>3. ASSUME NEW u \in DOMAIN users, RevokeAllSessions(u) PROVE IInv'
    BY <1>1, <1>3, RevokingStep DEF RevokeAllSessions
  <1>. QED
    BY <1>2, <1>3

LEMMA ResetOwnerPasswordStep ==
    ASSUME IInv, ResetOwnerPassword
    PROVE  IInv'
  <1>1. PICK u \in Owner : Revoking(EndedByReset(u))
    BY DEF ResetOwnerPassword
  <1>2. closed /\ hash' = [password |-> hash.password + 1, old |-> FALSE]
    BY DEF ResetOwnerPassword
  <1>3. hash.password \in Nat /\ Owner = {1}
    BY <1>2 DEF IInv, SetupHolds, HashRows
  <1>4. hash' \in HashRows /\ ~hash'.old /\ hash'.password # 0
    BY <1>2, <1>3 DEF HashRows
  <1>5. \A s \in DOMAIN sessions : sessions[s].user \in Owner => s \in EndedByReset(u)
    BY <1>3 DEF EndedByReset, Of
  <1>. QED
    BY <1>1, <1>2, <1>4, <1>5, RevokingStep

-----------------------------------------------------------------------------
(***************************************************************************)
(* Invitations.                                                            *)
(***************************************************************************)
\* Invitations are added and changed, and none is accepted.
LEMMA InvitationsChange ==
    ASSUME InvitationsHold, UNCHANGED users, invitations' \in Seq(InvitationRows), mails' \in Seq(MailRows),
           \A m \in DOMAIN mails' : mails'[m].invitation \in DOMAIN invitations',
           DOMAIN invitations \subseteq DOMAIN invitations',
           \A i \in DOMAIN invitations' :
              invitations'[i].state = "accepted" => i \in DOMAIN invitations /\ invitations[i].state = "accepted",
           \A i \in DOMAIN invitations : /\ invitations'[i].email = invitations[i].email
                                         /\ invitations[i].state = "accepted" => invitations'[i].state = "accepted"
    PROVE  InvitationsHold'
  <1>1. \A i, j \in DOMAIN invitations' :
           Accepted(i)' /\ Accepted(j)' /\ invitations'[i].email = invitations'[j].email => i = j
    BY DEF InvitationsHold, Accepted
  <1>2. \A i \in DOMAIN invitations' : Accepted(i)' =>
           \E u \in DOMAIN users' : users'[u] = [email |-> invitations'[i].email, role |-> "member"]
    BY DEF InvitationsHold, Accepted
  <1>3. \A u \in DOMAIN users' : users'[u].role = "member" =>
           \E i \in DOMAIN invitations' : Accepted(i)' /\ invitations'[i].email = users'[u].email
    BY DEF InvitationsHold, Accepted
  <1>4. \A u, v \in DOMAIN users' : users'[u].email = users'[v].email => u = v
    BY DEF InvitationsHold
  <1>. QED
    BY <1>1, <1>2, <1>3, <1>4 DEF InvitationsHold

LEMMA BeginInviteStep ==
    ASSUME IInv, NEW r \in Requests, NEW p \in Processes, NEW email \in Emails, BeginInvite(r, p, email)
    PROVE  IInv'
  <1> DEFINE request == [op |-> "invite", proc |-> p, email |-> email, at |-> now]
  <1>1. closed /\ Begin(r, p, request) /\ UNCHANGED rows /\ Up(p)
    BY DEF BeginInvite, Begin
  <1>2. request \in Handlers
    BY DEF IInv, ProcsHold, Handlers, Invites
  <1>3. RequestOK(request)
    BY <1>1 DEF RequestOK
  <1>. HIDE DEF request
  <1>. QED
    BY <1>1, <1>2, <1>3, BeginStep

\* A mail is added for an invitation that is there.
LEMMA MailAdded ==
    ASSUME InvitationsHold, NEW i \in Nat, mails' = Append(mails, [invitation |-> i, state |-> "pending"]),
           i \in DOMAIN invitations', DOMAIN invitations \subseteq DOMAIN invitations'
    PROVE  /\ mails' \in Seq(MailRows) /\ Len(mails) + 1 \in Nat
           /\ \A m \in DOMAIN mails' : mails'[m].invitation \in DOMAIN invitations'
  <1> DEFINE new == [invitation |-> i, state |-> "pending"]
  <1>1. new \in MailRows /\ new.invitation = i
    BY DEF MailRows
  <1>2. mails \in Seq(MailRows) /\ Len(mails) \in Nat /\ DOMAIN mails = 1..Len(mails)
    BY DEF InvitationsHold
  <1>. HIDE DEF new
  <1>3. /\ mails' \in Seq(MailRows) /\ DOMAIN mails' = 1..(Len(mails) + 1) /\ mails'[Len(mails) + 1] = new
        /\ \A m \in DOMAIN mails : mails'[m] = mails[m]
    BY <1>1, <1>2 DEF new
  <1>4. ASSUME NEW m \in DOMAIN mails' PROVE mails'[m].invitation \in DOMAIN invitations'
    <2>1. CASE m \in DOMAIN mails
      BY <1>3, <2>1 DEF InvitationsHold
    <2>2. CASE m \notin DOMAIN mails
      BY <1>1, <1>2, <1>3, <2>2
    <2>. QED
      BY <2>1, <2>2
  <1>. QED
    BY <1>2, <1>3, <1>4

LEMMA CreateInvitationStep ==
    ASSUME IInv, NEW r \in Requests, CreateInvitation(r)
    PROVE  IInv'
  <1> DEFINE email == requests[r].email
             at    == requests[r].at
             proc  == requests[r].proc
             row   == [email |-> email, state |-> "pending", expires |-> at + InvitationTTL,
                       resends |-> 0, key |-> procs[proc].key]
             next  == [op |-> "deliver", proc |-> proc, mail |-> Len(mails) + 1]
  <1>0. ProcsHold /\ SetupHolds /\ InvitationsHold /\ SessionsHold /\ RequestsHold
    BY DEF IInv
  <1>1. /\ requests[r] # Idle /\ requests[r].op = "invite"
        /\ \/ Finish(r) /\ UNCHANGED <<invitations, mails>>
           \/ invitations' = Append(invitations, row) /\ Delivering(r, Len(invitations) + 1)
        /\ UNCHANGED <<now, procs, minted, signing, closed, capabilities, users, hash, sessions, creds, ops>>
    BY DEF CreateInvitation, At
  <1>2. closed /\ requests[r] \in Invites /\ Up(proc) /\ procs[proc].key \in Keys
    BY <1>1, RequestOf
  <1>3. email \in Emails /\ at \in Times /\ proc \in Processes
    BY <1>2 DEF Invites
  <1>4. SetupHolds' /\ SessionsHold' /\ SessionsGrow /\ ProcsHold'
    BY <1>0, <1>1, SetupFrame, SessionsFrame, ProcsFrame DEF SessionsGrow
  <1>5. NothingYet'
    BY <1>1, <1>2 DEF NothingYet
  <1>6. CASE Finish(r) /\ UNCHANGED <<invitations, mails>>
    <2>1. InvitationsHold' /\ RequestsHold'
      BY <1>0, <1>1, <1>4, <1>6, InvitationsFrame, FinishStep
    <2>. QED
      BY <1>4, <1>5, <2>1 DEF IInv
  <1>7. CASE invitations' = Append(invitations, row) /\ Delivering(r, Len(invitations) + 1)
    <2>1. row \in InvitationRows /\ row.state = "pending"
      <3>1. at + InvitationTTL \in Later(InvitationTTL)
        BY <1>3, AccountsTypes DEF Times, Later
      <3>2. 0 \in 0..MaxInvitationResends
        BY AccountsTypes
      <3>. HIDE DEF email, at, proc
      <3>. QED
        BY <1>2, <1>3, <3>1, <3>2 DEF InvitationRows
    <2>2. invitations \in Seq(InvitationRows) /\ Len(invitations) \in Nat /\ DOMAIN invitations = 1..Len(invitations)
      BY <1>0 DEF InvitationsHold
    <2>. HIDE DEF row
    <2>3. /\ invitations' \in Seq(InvitationRows) /\ DOMAIN invitations' = 1..(Len(invitations) + 1)
          /\ invitations'[Len(invitations) + 1] = row
          /\ \A i \in DOMAIN invitations : invitations'[i] = invitations[i]
      BY <1>7, <2>1, <2>2
    <2>4. /\ mails' = Append(mails, [invitation |-> Len(invitations) + 1, state |-> "pending"])
          /\ requests' = [requests EXCEPT ![r] = next]
      BY <1>7 DEF Delivering
    <2>5. DOMAIN invitations \subseteq DOMAIN invitations' /\ Len(invitations) + 1 \in DOMAIN invitations'
          /\ Len(invitations) + 1 \in Nat
      BY <2>2, <2>3
    <2>6. /\ mails' \in Seq(MailRows) /\ Len(mails) + 1 \in Nat
          /\ \A m \in DOMAIN mails' : mails'[m].invitation \in DOMAIN invitations'
      BY <1>0, <2>4, <2>5, MailAdded
    <2>7. \A i \in DOMAIN invitations' :
              invitations'[i].state = "accepted" => i \in DOMAIN invitations /\ invitations[i].state = "accepted"
      BY <2>1, <2>2, <2>3
    <2>8. UNCHANGED users
      BY <1>1
    <2>9. InvitationsHold'
      BY <1>0, <2>3, <2>5, <2>6, <2>7, <2>8, InvitationsChange
    <2>10. next \in Handlers
      BY <1>3, <2>6 DEF Handlers, Deliveries
    <2>11. RequestsHold'
      <3>. HIDE DEF proc
      <3>1. requests' \in [Requests -> {Idle} \cup Handlers]
        BY <1>0, <2>4, <2>10 DEF RequestsHold
      <3>2. requests'[r] = next /\ \A q \in Requests : q # r => requests'[q] = requests[q]
        BY <1>0, <2>4 DEF RequestsHold
      <3>3. next.proc = proc /\ next.op = "deliver"
        OBVIOUS
      <3>. HIDE DEF next
      <3>4. RequestOK(requests[r])'
        BY <1>1, <1>2, <3>2, <3>3 DEF RequestOK, Up
      <3>5. ProcsStay
        BY <1>1 DEF ProcsStay, Up
      <3>. QED
        BY <1>0, <1>4, <3>1, <3>2, <3>4, <3>5, RequestsStep
    <2>. QED
      BY <1>4, <1>5, <2>9, <2>11 DEF IInv
  <1>. QED
    BY <1>1, <1>6, <1>7

LEMMA ResendInvitationStep ==
    ASSUME IInv, NEW r \in Requests, NEW p \in Processes, NEW i \in DOMAIN invitations, ResendInvitation(r, p, i)
    PROVE  IInv'
  <1> DEFINE row == [invitations[i] EXCEPT !.expires = now + InvitationTTL, !.resends = @ + 1, !.key = procs[p].key]
             request == [op |-> "deliver", proc |-> p, mail |-> Len(mails) + 1]
  <1>0. ProcsHold /\ SetupHolds /\ InvitationsHold /\ SessionsHold /\ RequestsHold
    BY DEF IInv
  <1>1. /\ invitations[i].state = "pending" /\ invitations[i].resends < MaxInvitationResends
        /\ Operation /\ Up(p) /\ requests' = [requests EXCEPT ![r] = request]
        /\ mails' = Append(mails, [invitation |-> i, state |-> "pending"])
        /\ UNCHANGED <<now, procs, minted, signing, closed, capabilities, users, hash, sessions, creds>>
    BY DEF ResendInvitation, Begin
  <1>2. invitations \in Seq(InvitationRows) /\ invitations[i] \in InvitationRows /\ i \in Nat
    BY <1>0 DEF InvitationsHold
  <1>3. invitations' = [invitations EXCEPT ![i] = row]
    BY <1>2 DEF ResendInvitation
  <1>4. row \in InvitationRows /\ row.state = "pending" /\ row.email = invitations[i].email
    <2>1. procs[p].key \in Keys /\ now \in Times
      BY <1>0 DEF ProcsHold, ProcRows
    <2>2. now + InvitationTTL \in Later(InvitationTTL)
      BY <2>1, AccountsTypes DEF Times, Later
    <2>3. invitations[i].resends + 1 \in 0..MaxInvitationResends
      BY <1>1, <1>2, AccountsTypes DEF InvitationRows
    <2>. QED
      BY <1>1, <1>2, <2>1, <2>2, <2>3 DEF InvitationRows
  <1>. HIDE DEF row
  <1>5. /\ invitations' \in Seq(InvitationRows) /\ DOMAIN invitations' = DOMAIN invitations /\ invitations'[i] = row
        /\ \A j \in DOMAIN invitations : j # i => invitations'[j] = invitations[j]
    BY <1>2, <1>3, <1>4
  <1>6. /\ mails' \in Seq(MailRows) /\ Len(mails) + 1 \in Nat
        /\ \A m \in DOMAIN mails' : mails'[m].invitation \in DOMAIN invitations'
    BY <1>0, <1>1, <1>2, <1>5, MailAdded
  <1>7. InvitationsHold'
    <2>1. \A j \in DOMAIN invitations' :
              invitations'[j].state = "accepted" => j \in DOMAIN invitations /\ invitations[j].state = "accepted"
      BY <1>4, <1>5
    <2>2. \A j \in DOMAIN invitations : /\ invitations'[j].email = invitations[j].email
                                        /\ invitations[j].state = "accepted" => invitations'[j].state = "accepted"
      BY <1>1, <1>4, <1>5
    <2>3. UNCHANGED users /\ DOMAIN invitations \subseteq DOMAIN invitations'
      BY <1>1, <1>5
    <2>. QED
      BY <1>0, <1>5, <1>6, <2>1, <2>2, <2>3, InvitationsChange
  <1>8. SetupHolds' /\ SessionsHold' /\ SessionsGrow /\ ProcsHold'
    BY <1>0, <1>1, SetupFrame, SessionsFrame, ProcsFrame DEF SessionsGrow
  <1>9. closed
    BY DEF IInv, NothingYet
  <1>10. RequestsHold'
    <2>1. request \in Handlers /\ request.proc = p /\ request.op = "deliver"
      BY <1>6 DEF Handlers, Deliveries
    <2>. HIDE DEF request
    <2>2. requests' \in [Requests -> {Idle} \cup Handlers]
      BY <1>0, <1>1, <2>1 DEF RequestsHold
    <2>3. requests'[r] = request /\ \A q \in Requests : q # r => requests'[q] = requests[q]
      BY <1>0, <1>1 DEF RequestsHold
    <2>4. RequestOK(requests[r])'
      BY <1>1, <2>1, <2>3 DEF RequestOK, Up
    <2>5. ProcsStay
      BY <1>1 DEF ProcsStay, Up
    <2>. QED
      BY <1>0, <1>8, <2>2, <2>3, <2>4, <2>5, RequestsStep
  <1>11. NothingYet'
    BY <1>1, <1>9 DEF NothingYet
  <1>. QED
    BY <1>7, <1>8, <1>10, <1>11 DEF IInv

LEMMA MarkInvitationDeliveryStep ==
    ASSUME IInv, NEW r \in Requests, NEW state \in {"sent", "failed"}, MarkInvitationDelivery(r, state)
    PROVE  IInv'
  <1> DEFINE m   == requests[r].mail
             new == [mails[m] EXCEPT !.state = state]
  <1>0. ProcsHold /\ SetupHolds /\ InvitationsHold /\ SessionsHold /\ RequestsHold
    BY DEF IInv
  <1>1. /\ requests[r] # Idle /\ Finish(r)
        /\ mails' = mails \/ mails' = [mails EXCEPT ![m].state = state]
        /\ UNCHANGED <<now, procs, minted, signing, closed, capabilities, users, invitations, hash, sessions, creds, ops>>
    BY DEF MarkInvitationDelivery, Marked, At
  <1>2. mails \in Seq(MailRows) /\ \A n \in DOMAIN mails : mails[n].invitation \in DOMAIN invitations
    BY <1>0 DEF InvitationsHold
  <1>3. mails' = mails \/ (m \in DOMAIN mails /\ mails' = [mails EXCEPT ![m] = new])
    <2>1. m \notin DOMAIN mails => [mails EXCEPT ![m].state = state] = mails
      BY <1>2
    <2>. QED
      BY <1>1, <2>1
  <1>4. mails' \in Seq(MailRows) /\ \A n \in DOMAIN mails' : mails'[n].invitation \in DOMAIN invitations'
    <2>1. CASE mails' = mails
      BY <1>1, <1>2, <2>1
    <2>2. CASE m \in DOMAIN mails /\ mails' = [mails EXCEPT ![m] = new]
      <3>1. mails[m] \in MailRows
        BY <1>2, <2>2
      <3>2. new \in MailRows /\ new.invitation = mails[m].invitation
        BY <3>1 DEF MailRows
      <3>. HIDE DEF new, m
      <3>. QED
        BY <1>1, <1>2, <2>2, <3>2
    <2>. QED
      BY <1>3, <2>1, <2>2
  <1>5. InvitationsHold'
    BY <1>0, <1>1, <1>4 DEF InvitationsHold, Accepted
  <1>6. SetupHolds' /\ SessionsHold' /\ SessionsGrow /\ ProcsHold'
    BY <1>0, <1>1, SetupFrame, SessionsFrame, ProcsFrame DEF SessionsGrow
  <1>7. RequestsHold'
    BY <1>0, <1>1, <1>6, FinishStep
  <1>8. NothingYet'
    BY <1>1, RequestOf DEF NothingYet
  <1>. QED
    BY <1>5, <1>6, <1>7, <1>8 DEF IInv

LEMMA RevokeInvitationStep ==
    ASSUME IInv, NEW i \in DOMAIN invitations, RevokeInvitation(i)
    PROVE  IInv'
  <1>0. ProcsHold /\ SetupHolds /\ InvitationsHold /\ SessionsHold /\ RequestsHold
    BY DEF IInv
  <1>1. /\ Operation /\ invitations[i].state = "pending"
        /\ invitations' = [invitations EXCEPT ![i].state = "revoked"]
        /\ mails' = [m \in DOMAIN mails |-> IF mails[m].invitation = i /\ mails[m].state = "pending"
                                            THEN [mails[m] EXCEPT !.state = "abandoned"] ELSE mails[m]]
        /\ UNCHANGED <<now, procs, minted, signing, closed, capabilities, users, hash, sessions, creds, requests>>
    BY DEF RevokeInvitation
  <1>2. mails \in Seq(MailRows) /\ DOMAIN mails = 1..Len(mails) /\ Len(mails) \in Nat /\ invitations \in Seq(InvitationRows)
    BY <1>0 DEF InvitationsHold
  <1>3. ASSUME NEW m \in DOMAIN mails PROVE mails'[m] \in MailRows /\ mails'[m].invitation = mails[m].invitation
    <2>1. mails[m] \in MailRows
      BY <1>2
    <2>2. mails'[m] = mails[m] \/ mails'[m] = [mails[m] EXCEPT !.state = "abandoned"]
      BY <1>1
    <2>. QED
      BY <2>1, <2>2 DEF MailRows
  <1>4. mails' \in Seq(MailRows) /\ DOMAIN mails' = DOMAIN mails
    <2>1. mails' = [m \in 1..Len(mails) |-> mails'[m]]
      BY <1>1, <1>2
    <2>. QED
      BY <1>2, <1>3, <2>1
  <1>5. invitations' = [j \in DOMAIN invitations |-> invitations'[j]]
    BY <1>1
  <1>6. \A j \in DOMAIN invitations :
              \/ invitations'[j] = invitations[j]
              \/ /\ invitations[j].state = "pending"
                 /\ invitations'[j] = [invitations[j] EXCEPT !.state = "revoked"]
    BY <1>1
  <1>7. InvitationsHold'
    BY <1>0, <1>1, <1>3, <1>4, <1>5, <1>6, InvitationsEnd
  <1>8. SetupHolds' /\ SessionsHold' /\ SessionsGrow /\ ProcsHold'
    BY <1>0, <1>1, SetupFrame, SessionsFrame, ProcsFrame DEF SessionsGrow
  <1>9. RequestsHold'
    BY <1>0, <1>1, <1>8, RequestsFrame
  <1>10. closed
    BY DEF IInv, NothingYet
  <1>11. NothingYet'
    BY <1>1, <1>10 DEF NothingYet
  <1>. QED
    BY <1>7, <1>8, <1>9, <1>11 DEF IInv

\* An address that has no account has no accepted invitation.
LEMMA AcceptInvitationStep ==
    ASSUME IInv, NEW p \in Processes, NEW i \in DOMAIN invitations, AcceptInvitation(p, i)
    PROVE  IInv'
  <1> DEFINE key   == procs[p].key
             email == invitations[i].email
             user  == [email |-> email, role |-> "member"]
             n     == Len(users) + 1
             row   == [invitations[i] EXCEPT !.state = "accepted"]
             new   == NewSession(n, key, now, 0, FALSE)
  <1>0. ProcsHold /\ KeysHold /\ SetupHolds /\ InvitationsHold /\ SessionsHold /\ RequestsHold
    BY DEF IInv, ProcsHold
  <1>1. /\ Operation /\ Up(p) /\ invitations[i].state = "pending" /\ ~Taken(email)
        /\ users' = Append(users, user) /\ invitations' = [invitations EXCEPT ![i].state = "accepted"]
        /\ sessions' = Append(sessions, new)
        /\ UNCHANGED <<now, procs, minted, signing, closed, capabilities, mails, hash, creds, requests>>
    BY DEF AcceptInvitation, UsableAt, Acceptable
  <1>2. closed
    BY DEF IInv, NothingYet
  <1>3. /\ users \in Seq(UserRows) /\ Len(users) \in Nat /\ DOMAIN users = 1..Len(users) /\ Owner = {1}
        /\ hash \in HashRows
    BY <1>0, <1>2 DEF SetupHolds
  <1>4. 1 \in DOMAIN users /\ 1 <= Len(users)
    BY <1>3 DEF Owner
  <1>5. invitations \in Seq(InvitationRows) /\ invitations[i] \in InvitationRows
    BY <1>0 DEF InvitationsHold
  <1>6. row \in InvitationRows /\ row.state = "accepted" /\ row.email = email /\ email \in Emails
    BY <1>5 DEF InvitationRows
  <1>7. user \in UserRows /\ user.email = email /\ user.role = "member"
    BY <1>6 DEF UserRows
  <1>8. key \in Keys \ {NoKey} /\ now \in Times
    BY <1>0, <1>1 DEF ProcsHold, ProcRows, KeysHold, Up
  <1>9. \A u \in DOMAIN users : users[u].email # email
    BY <1>1 DEF Taken, Range
  <1>10. Begun(new, n, key, 0, FALSE)
    <2>. HIDE DEF key, email, user, row
    <2>1. PICK overlapped \in BOOLEAN : overlapped = FALSE
      OBVIOUS
    <2>2. n \in Nat
      BY <1>3
    <2>3. Begun(NewSession(n, key, now, 0, overlapped), n, key, 0, overlapped)
      BY <1>8, <2>2, NewSessionHolds
    <2>. QED
      BY <2>1, <2>3
  <1>. HIDE DEF key, email, user, row, new
  <1>11. invitations' = [invitations EXCEPT ![i] = row]
    BY <1>1, <1>5 DEF row
  <1>12. /\ invitations' \in Seq(InvitationRows) /\ DOMAIN invitations' = DOMAIN invitations
         /\ invitations'[i] = row /\ \A j \in DOMAIN invitations : j # i => invitations'[j] = invitations[j]
    BY <1>5, <1>6, <1>11
  <1>13. /\ users' \in Seq(UserRows) /\ DOMAIN users' = 1..n /\ users'[n] = user
         /\ \A u \in DOMAIN users : users'[u] = users[u]
    BY <1>1, <1>3, <1>7
  <1>14. Owner' = {1} /\ DOMAIN users \subseteq DOMAIN users'
    <2>1. ASSUME NEW u \in DOMAIN users' PROVE u \in Owner' <=> u = 1
      <3>1. CASE u = n
        BY <1>3, <1>4, <1>7, <1>13, <3>1 DEF Owner
      <3>2. CASE u # n
        <4>1. u \in DOMAIN users /\ users'[u] = users[u]
          BY <1>3, <1>13, <3>2
        <4>. QED
          BY <1>3, <4>1 DEF Owner
      <3>. QED
        BY <3>1, <3>2
    <2>. QED
      BY <1>3, <1>4, <1>13, <2>1 DEF Owner
  <1>15. SetupHolds'
    BY <1>0, <1>1, <1>2, <1>13, <1>14 DEF SetupHolds, Usable
  <1>16. SessionsHold' /\ SessionsGrow
    <2>1. /\ new \in SessionRows /\ new.user = n /\ new.key # NoKey
          /\ new.created <= new.seen /\ new.seen < new.idle /\ new.idle <= new.absolute
      BY <1>8, <1>10 DEF Begun
    <2>2. new.user \in DOMAIN users' /\ new.user \notin Owner'
      BY <1>3, <1>4, <1>13, <1>14, <2>1
    <2>3. hash' \in HashRows /\ hash'.password <= hash.password /\ Owner' = Owner
      BY <1>1, <1>3, <1>14 DEF HashRows
    <2>. QED
      BY <1>0, <1>1, <1>3, <1>14, <2>1, <2>2, <2>3, SessionOpened
  <1>17. InvitationsHold'
    <2>1. \A u, v \in DOMAIN users' : users'[u].email = users'[v].email => u = v
      <3>1. \A u \in DOMAIN users' : (u \in DOMAIN users /\ users'[u] = users[u]) \/ u = n
        BY <1>3, <1>13
      <3>2. \A u, v \in DOMAIN users : users[u].email = users[v].email => u = v
        BY <1>0 DEF InvitationsHold
      <3>. QED
        BY <1>7, <1>9, <1>13, <3>1, <3>2
    <2>2. \A j \in DOMAIN invitations : Accepted(j) => invitations[j].email # email
      BY <1>0, <1>9 DEF InvitationsHold
    <2>3. \A j \in DOMAIN invitations' : Accepted(j)' <=> (j = i \/ Accepted(j))
      BY <1>6, <1>12 DEF Accepted
    <2>4. \A j \in DOMAIN invitations' : invitations'[j].email = invitations[j].email
      BY <1>6, <1>12 DEF email
    <2>5. \A j, k \in DOMAIN invitations' :
             Accepted(j)' /\ Accepted(k)' /\ invitations'[j].email = invitations'[k].email => j = k
      <3>1. \A j, k \in DOMAIN invitations :
               Accepted(j) /\ Accepted(k) /\ invitations[j].email = invitations[k].email => j = k
        BY <1>0 DEF InvitationsHold
      <3>. QED
        BY <1>12, <2>2, <2>3, <2>4, <3>1 DEF email
    <2>6. ASSUME NEW j \in DOMAIN invitations', Accepted(j)'
          PROVE  \E u \in DOMAIN users' : users'[u] = [email |-> invitations'[j].email, role |-> "member"]
      <3>1. CASE j = i
        <4>1. users'[n] = [email |-> invitations'[j].email, role |-> "member"] /\ n \in DOMAIN users'
          BY <1>3, <1>6, <1>12, <1>13, <3>1 DEF user
        <4>. QED
          BY <4>1
      <3>2. CASE j # i
        <4>1. j \in DOMAIN invitations /\ Accepted(j) /\ invitations'[j].email = invitations[j].email
          BY <1>12, <2>3, <2>4, <2>6, <3>2
        <4>2. PICK u \in DOMAIN users : users[u] = [email |-> invitations[j].email, role |-> "member"]
          BY <1>0, <4>1 DEF InvitationsHold
        <4>3. u \in DOMAIN users' /\ users'[u] = users[u]
          BY <1>13, <1>14
        <4>. QED
          BY <4>1, <4>2, <4>3
      <3>. QED
        BY <3>1, <3>2
    <2>7. ASSUME NEW u \in DOMAIN users', users'[u].role = "member"
          PROVE  \E j \in DOMAIN invitations' : Accepted(j)' /\ invitations'[j].email = users'[u].email
      <3>1. CASE u = n
        BY <1>6, <1>7, <1>12, <1>13, <2>3, <3>1
      <3>2. CASE u # n
        <4>1. u \in DOMAIN users /\ users'[u] = users[u]
          BY <1>3, <1>13, <3>2
        <4>2. PICK j \in DOMAIN invitations : Accepted(j) /\ invitations[j].email = users[u].email
          BY <1>0, <2>7, <4>1 DEF InvitationsHold
        <4>. QED
          BY <1>12, <2>3, <2>4, <4>1, <4>2
      <3>. QED
        BY <3>1, <3>2
    <2>8. mails' \in Seq(MailRows) /\ \A m \in DOMAIN mails' : mails'[m].invitation \in DOMAIN invitations'
      BY <1>0, <1>1, <1>12 DEF InvitationsHold
    <2>. QED
      BY <1>12, <2>1, <2>5, <2>6, <2>7, <2>8 DEF InvitationsHold
  <1>18. ProcsHold' /\ RequestsHold'
    BY <1>0, <1>1, <1>16, ProcsFrame, RequestsFrame
  <1>19. NothingYet'
    BY <1>1, <1>2 DEF NothingYet
  <1>. QED
    BY <1>15, <1>16, <1>17, <1>18, <1>19 DEF IInv

-----------------------------------------------------------------------------
(***************************************************************************)
(* Credentials of external services, and time.                             *)
(***************************************************************************)
LEMMA BeginIntegrationsStep ==
    ASSUME IInv, NEW r \in Requests, NEW p \in Processes, NEW kinds \in (SUBSET Kinds) \ {{}}, NEW keep \in BOOLEAN,
           BeginIntegrations(r, p, kinds, keep)
    PROVE  IInv'
  <1> DEFINE request == [op |-> "replace", proc |-> p, kinds |-> kinds]
  <1>1. closed /\ procs[p].version # 0 /\ Begin(r, p, request) /\ UNCHANGED rows /\ Up(p)
    BY DEF BeginIntegrations, Begin
  <1>2. request \in Handlers
    BY DEF Handlers, Replaces
  <1>3. RequestOK(request)
    BY <1>1 DEF RequestOK
  <1>. HIDE DEF request
  <1>. QED
    BY <1>1, <1>2, <1>3, BeginStep

LEMMA ReplaceStep ==
    ASSUME IInv, NEW r \in Requests, Replace(r)
    PROVE  IInv'
  <1> DEFINE version == procs[requests[r].proc].version
             kinds   == requests[r].kinds
  <1>0. ProcsHold /\ SetupHolds /\ InvitationsHold /\ SessionsHold /\ RequestsHold
    BY DEF IInv
  <1>1. /\ requests[r] # Idle /\ requests[r].op = "replace" /\ Finish(r)
        /\ creds' = [k \in Kinds |-> IF k \in kinds THEN version ELSE creds[k]]
        /\ UNCHANGED <<now, procs, minted, signing, closed, capabilities, users, invitations, mails, hash,
                       sessions, ops>>
    BY DEF Replace, At, identity
  <1>2. closed /\ version \in 0..MaxVersion /\ version # 0
    BY <1>1, RequestOf DEF RequestOK
  <1>. HIDE DEF version, kinds
  <1>3. creds' \in [Kinds -> 0..MaxVersion] /\ \A k \in Kinds : creds'[k] # 0
    BY <1>0, <1>1, <1>2 DEF SetupHolds
  <1>4. SetupHolds'
    BY <1>0, <1>1, <1>2, <1>3 DEF SetupHolds, Usable, Owner
  <1>5. ProcsHold' /\ InvitationsHold' /\ SessionsHold' /\ SessionsGrow
    BY <1>0, <1>1, ProcsFrame, InvitationsFrame, SessionsFrame DEF SessionsGrow
  <1>6. RequestsHold'
    BY <1>0, <1>1, <1>5, FinishStep
  <1>7. NothingYet'
    BY <1>1, <1>2 DEF NothingYet
  <1>. QED
    BY <1>4, <1>5, <1>6, <1>7 DEF IInv

LEMMA TickStep ==
    ASSUME IInv, Tick
    PROVE  IInv'
  <1>0. ProcsHold /\ SetupHolds /\ InvitationsHold /\ SessionsHold /\ RequestsHold /\ NothingYet
    BY DEF IInv
  <1>1. /\ now < MaxTime /\ now' = now + 1
        /\ UNCHANGED <<procs, minted, ops, signing, closed, capabilities, users, invitations, mails, hash,
                       sessions, creds, requests>>
    BY DEF Tick, rows, identity
  <1>2. now' \in Times
    BY <1>0, <1>1, AccountsTypes DEF ProcsHold, Times
  <1>3. ProcsHold'
    BY <1>0, <1>1, <1>2 DEF ProcsHold, KeysHold, ProcessesShareOneKey, Up
  <1>4. SetupHolds' /\ InvitationsHold' /\ SessionsHold' /\ SessionsGrow
    BY <1>0, <1>1, SetupFrame, InvitationsFrame, SessionsFrame DEF SessionsGrow
  <1>5. RequestsHold' /\ NothingYet'
    BY <1>0, <1>1, <1>4, RequestsFrame DEF NothingYet
  <1>. QED
    BY <1>3, <1>4, <1>5 DEF IInv

LEMMA StutterStep ==
    ASSUME IInv, UNCHANGED vars
    PROVE  IInv'
  <1>0. ProcsHold /\ SetupHolds /\ InvitationsHold /\ SessionsHold /\ RequestsHold /\ NothingYet
    BY DEF IInv
  <1>1. UNCHANGED <<now, procs, minted, ops, signing, closed, capabilities, users, invitations, mails, hash,
                    sessions, creds, requests>>
    BY DEF vars, rows, identity
  <1>2. ProcsHold' /\ SetupHolds' /\ InvitationsHold' /\ SessionsHold' /\ SessionsGrow
    BY <1>0, <1>1, ProcsFrame, SetupFrame, InvitationsFrame, SessionsFrame DEF SessionsGrow
  <1>3. RequestsHold' /\ NothingYet'
    BY <1>0, <1>1, <1>2, RequestsFrame DEF NothingYet
  <1>. QED
    BY <1>2, <1>3 DEF IInv

LEMMA InvStep == IInv /\ [Next]_vars => IInv'
  <1> SUFFICES ASSUME IInv, [Next]_vars PROVE IInv'
    OBVIOUS
  <1>1. ASSUME NEW p \in Processes, Processing(p) PROVE IInv'
    BY <1>1, StartProcessStep, ProvisionStep, StopProcessStep, RotateSigningKeyStep, RotateCredentialKeyStep,
       IssueSetupCapabilityStep, BootstrapOwnerStep, AcceptInvitationStep DEF Processing
  <1>2. ASSUME NEW r \in Requests, Serving(r) PROVE IInv'
    BY <1>2, BeginLoginStep, CreateOwnerSessionStep, BeginAuthenticateStep, UpdateSessionActivityStep,
       BeginInviteStep, CreateInvitationStep, ResendInvitationStep, MarkInvitationDeliveryStep,
       BeginIntegrationsStep, ReplaceStep DEF Serving
  <1>3. CASE \/ \E s \in DOMAIN sessions : RevokeSession(s)
             \/ \E u \in DOMAIN users : RevokeAllSessions(u)
    BY <1>3, RevokeSteps
  <1>4. CASE ResetOwnerPassword
    BY <1>4, ResetOwnerPasswordStep
  <1>5. CASE \E i \in DOMAIN invitations : RevokeInvitation(i)
    BY <1>5, RevokeInvitationStep
  <1>6. CASE Tick
    BY <1>6, TickStep
  <1>7. CASE UNCHANGED vars
    BY <1>7, StutterStep
  <1>. QED
    BY <1>1, <1>2, <1>3, <1>4, <1>5, <1>6, <1>7 DEF Next

-----------------------------------------------------------------------------
(***************************************************************************)
(* What follows.                                                           *)
(***************************************************************************)

\* Whatever processes, requests and commands do in between, the rows of keys, the setup,
\* invitations, sessions and what requests carry hold together.
THEOREM Invariance == Spec => []IInv
  BY InvInit, InvStep, PTL DEF Spec

\* Every row refers to rows there are, and a session's times are in order, whatever
\* UpdateSessionActivity writes back.
THEOREM TypeCorrect == Spec => []TypeOK
  <1>1. ASSUME IInv PROVE TypeOK
    <2>0. ProcsHold /\ KeysHold /\ SetupHolds /\ InvitationsHold /\ SessionsHold
      BY <1>1 DEF IInv, ProcsHold
    <2>1. \A p \in Processes : /\ procs[p].state \in {"down", "provisioning", "up"}
                               /\ procs[p].state = "up" => procs[p].key # NoKey
                               /\ procs[p].version \in 0..MaxVersion
      BY <2>0 DEF ProcsHold, ProcRows, KeysHold
    <2>2. now \in Times /\ signing.key \in Keys /\ signing.generation \in Nat /\ ops \in 0..MaxOps
      BY <2>0 DEF ProcsHold, SigningRows
    <2>3. /\ closed \in BOOLEAN /\ capabilities \in Seq(CapabilityRows) /\ users \in Seq(UserRows)
          /\ creds \in [Kinds -> 0..MaxVersion]
      BY <2>0 DEF SetupHolds
    <2>4. \A m \in Range(mails) : /\ m.invitation \in DOMAIN invitations
                                  /\ m.state \in {"pending", "sent", "failed", "abandoned"}
      <3>1. \A n \in DOMAIN mails : mails[n] \in MailRows /\ mails[n].invitation \in DOMAIN invitations
        BY <2>0 DEF InvitationsHold
      <3>. QED
        BY <3>1 DEF Range, MailRows
    <2>5. \A s \in Range(sessions) : SessionOK(s)
      BY <2>0 DEF SessionsHold, Range
    <2>6. invitations \in Seq(InvitationRows)
      BY <2>0 DEF InvitationsHold
    <2>. QED
      BY <2>1, <2>2, <2>3, <2>4, <2>5, <2>6 DEF TypeOK
  <1>. QED
    BY Invariance, <1>1, PTL

\* ResolveSigningKey: however many processes start at once, are stopped or rotate the
\* key, those up since the last rotation sign with the stored key.
THEOREM OneKey == Spec => []ProcessesShareOneKey
  <1>1. IInv => ProcessesShareOneKey
    BY DEF IInv, ProcsHold, KeysHold
  <1>. QED
    BY Invariance, <1>1, PTL

\* CompleteBootstrap: however setup links, starts and rotations interleave, setup is
\* closed exactly when there is one owner and both credentials are stored.
THEOREM OpenedWholly == Spec => []InstallationIsWhole
  <1>1. ASSUME IInv PROVE InstallationIsWhole
    <2>0. SetupHolds
      BY <1>1 DEF IInv
    <2>1. CASE closed
      <3>1. Owner = {1} /\ (\A k \in Kinds : creds[k] # 0) /\ \A c \in DOMAIN capabilities : ~Usable(c)
        BY <2>0, <2>1 DEF SetupHolds
      <3>2. Cardinality(Owner) = 1
        BY <3>1, FS_Singleton
      <3>. QED
        BY <2>1, <3>1, <3>2 DEF InstallationIsWhole
    <2>2. CASE ~closed
      <3>1. users = <<>> /\ \A k \in Kinds : creds[k] = 0
        BY <2>0, <2>2 DEF SetupHolds
      <3>2. Owner = {} /\ "smtp" \in Kinds
        BY <3>1 DEF Owner, Kinds
      <3>3. Cardinality(Owner) = 0
        BY <3>2, FS_EmptySet
      <3>. QED
        BY <2>2, <3>1, <3>2, <3>3 DEF InstallationIsWhole
    <2>. QED
      BY <2>1, <2>2
  <1>. QED
    BY Invariance, <1>1, PTL

\* AcceptInvitation and CreateInvitation: however invitations of one address overlap,
\* nobody has two accounts and each member's comes from one accepted invitation.
THEOREM OneAccountEach == Spec => []AccountsComeFromInvitations
  <1>1. ASSUME IInv PROVE AccountsComeFromInvitations
    <2>0. InvitationsHold /\ users \in Seq(UserRows)
      BY <1>1 DEF IInv, SetupHolds
    <2>1. ASSUME NEW email \in Emails
          PROVE  Cardinality({i \in DOMAIN invitations : invitations[i].email = email
                                                          /\ invitations[i].state = "accepted"})
               = Cardinality({u \in DOMAIN users : users[u] = [email |-> email, role |-> "member"]})
      <3> DEFINE member == [email |-> email, role |-> "member"]
                 from   == {i \in DOMAIN invitations : invitations[i].email = email
                                                        /\ invitations[i].state = "accepted"}
                 to     == {u \in DOMAIN users : users[u] = member}
      <3>1. \A i, j \in from : i = j
        BY <2>0 DEF InvitationsHold, Accepted
      <3>2. \A u, v \in to : u = v
        BY <2>0 DEF InvitationsHold
      <3>3. CASE from = {}
        <4>1. ASSUME NEW u \in to PROVE FALSE
          <5>1. u \in DOMAIN users /\ users[u].role = "member" /\ users[u].email = email
            OBVIOUS
          <5>. QED
            BY <2>0, <3>3, <5>1 DEF InvitationsHold, Accepted
        <4>2. to = {}
          BY <4>1
        <4>. QED
          BY <3>3, <4>2
      <3>4. CASE from # {}
        <4>1. PICK i \in from : from = {i}
          BY <3>1, <3>4
        <4>2. \E u \in DOMAIN users : users[u] = member
          BY <2>0, <4>1 DEF InvitationsHold, Accepted
        <4>3. PICK u \in to : to = {u}
          BY <3>2, <4>2
        <4>4. Cardinality(from) = 1 /\ Cardinality(to) = 1
          <5>. HIDE DEF from, to
          <5>. QED
            BY <4>1, <4>3, FS_Singleton
        <4>. QED
          BY <4>4
      <3>. QED
        BY <3>3, <3>4
    <2>2. \A u, v \in DOMAIN users : users[u].email = users[v].email => u = v
      BY <2>0 DEF InvitationsHold
    <2>. QED
      BY <2>1, <2>2 DEF AccountsComeFromInvitations
  <1>. QED
    BY Invariance, <1>1, PTL

\* ResetOwnerPassword: whatever logins a reset overtakes and whatever hash
\* CreateOwnerSession writes back, what the old password opened has ended.
THEOREM OutByReset == Spec => []ResetsEndSessions
  <1>1. IInv => ResetsEndSessions
    BY DEF IInv, SessionsHold
  <1>. QED
    BY Invariance, <1>1, PTL
=============================================================================

------------------------------ MODULE Accounts ------------------------------
(***************************************************************************)
(* Accounts and what opens them (internal/auth, internal/identity,         *)
(* internal/credentials): processes that agree on a signing key, the       *)
(* owner's setup, invitations, sessions, and the stored credentials of     *)
(* external services.                                                      *)
(*                                                                         *)
(* A process that is up serves requests or is one of the auth commands,    *)
(* which come up the same way; here one process may do both, as two that   *)
(* were started together would.  Whatever a token opens is found by its    *)
(* digest under the key of the process asked: key in a row is the key that *)
(* made its digest.                                                        *)
(***************************************************************************)
EXTENDS Integers, Sequences, FiniteSets, SequencesExt, FiniteSetsExt

CONSTANTS
    Processes, Requests, Emails,
    Secrets,                        \* values AUTH_SECRET may have
    IdleTimeout, AbsoluteTimeout, SetupTTL, InvitationTTL, MaxInvitationResends,
    MaxTime, MaxVersion, MaxOps     \* bounds

ASSUME AccountsAssumption ==
    /\ Secrets \subseteq Nat
    /\ {IdleTimeout, AbsoluteTimeout, SetupTTL, InvitationTTL, MaxVersion} \subseteq Nat \ {0}
    /\ {MaxInvitationResends, MaxTime, MaxOps} \subseteq Nat

VARIABLES
    now,
    procs,          \* the processes
    signing,        \* instance_signing_key
    minted,         \* how many keys were generated
    closed,         \* bootstrap_state.closed_at
    capabilities,   \* auth_capabilities
    users,
    hash,           \* owner_credentials.password_hash
    sessions,
    invitations,
    mails,          \* account_email_deliveries of invitations
    creds,          \* external_service_credentials: the key version of each, or 0
    requests, ops

identity == <<closed, capabilities, users, invitations, mails>>
rows     == <<signing, identity, hash, sessions, creds>>
vars     == <<now, procs, rows, minted, requests, ops>>

Times    == 0..MaxTime
Later(d) == 0..(MaxTime + d)
Versions == 1..MaxVersion
Kinds    == {"eodhd_api", "smtp"}
NoKey    == [source |-> "none", n |-> 0]
Keys     == {NoKey} \cup [source: {"provisioned"}, n: 1..(MaxOps + 1)] \cup [source: {"supplied"}, n: Secrets]
NoRow    == [key |-> NoKey, generation |-> 0]
Down     == [state |-> "down", supplied |-> NoKey, key |-> NoKey, generation |-> 0, version |-> 0]
Idle     == [op |-> "none"]

CapabilityRows == [state: {"usable", "consumed", "revoked"}, expires: Later(SetupTTL), key: Keys]
UserRows       == [email: Emails, role: {"owner", "member"}]
InvitationRows == [email: Emails, state: {"pending", "accepted", "revoked"}, expires: Later(InvitationTTL),
                   resends: 0..MaxInvitationResends, key: Keys]

\* A session's row, with the password that opened it and whether the password was
\* replaced while it was being opened as history.
SessionOK(s) ==
    /\ s.user \in DOMAIN users /\ s.key \in Keys \ {NoKey}
    /\ s.created \in Times /\ s.seen \in Times
    /\ s.created <= s.seen /\ s.seen < s.idle /\ s.idle <= s.absolute
    /\ s.revoked \in BOOLEAN /\ s.password \in Nat /\ s.overlapped \in BOOLEAN

TypeOK ==
    /\ now \in Times
    /\ \A p \in Processes : /\ procs[p].state \in {"down", "provisioning", "up"}
                            /\ procs[p].state = "up" => procs[p].key # NoKey
                            /\ procs[p].version \in 0..MaxVersion
    /\ signing.key \in Keys /\ signing.generation \in Nat
    /\ closed \in BOOLEAN
    /\ capabilities \in Seq(CapabilityRows)
    /\ users \in Seq(UserRows)
    /\ invitations \in Seq(InvitationRows)
    /\ \A m \in Range(mails) : /\ m.invitation \in DOMAIN invitations
                               /\ m.state \in {"pending", "sent", "failed", "abandoned"}
    /\ \A s \in Range(sessions) : SessionOK(s)
    /\ creds \in [Kinds -> 0..MaxVersion]
    /\ ops \in 0..MaxOps

\* A database nobody has used.
Fresh ==
    /\ procs = [p \in Processes |-> Down]
    /\ signing = NoRow /\ minted = 0 /\ closed = FALSE
    /\ users = <<>> /\ creds = [k \in Kinds |-> 0]
    /\ hash = [password |-> 0, old |-> FALSE]

\* An installation in use, whose owner's hash may have been made with older parameters.
Installed ==
    \E owner \in Emails, up \in Processes, old \in BOOLEAN :
        LET key == [source |-> "provisioned", n |-> 1]
        IN  /\ signing = [key |-> key, generation |-> 1] /\ minted = 1 /\ closed = TRUE
            /\ procs = [p \in Processes |->
                          IF p = up THEN [Down EXCEPT !.state = "up", !.key = key, !.generation = 1, !.version = 1]
                          ELSE Down]
            /\ users = <<[email |-> owner, role |-> "owner"]>>
            /\ creds = [k \in Kinds |-> 1]
            /\ hash = [password |-> 1, old |-> old]

Init ==
    /\ Fresh \/ Installed
    /\ now = 0
    /\ capabilities = <<>> /\ sessions = <<>> /\ invitations = <<>> /\ mails = <<>>
    /\ requests = [r \in Requests |-> Idle]
    /\ ops = 0

Operation == ops < MaxOps /\ ops' = ops + 1

-----------------------------------------------------------------------------
(***************************************************************************)
(* Processes start and settle on a signing key.                            *)
(***************************************************************************)
Taken(e)  == \E u \in Range(users) : u.email = e
Owner     == {u \in DOMAIN users : users[u].role = "owner"}
FreshKey  == [source |-> "provisioned", n |-> minted + 1]

\* ResolveSigningKey, given the stored row: the key to sign with, or NoKey as refusal.
Resolve(supplied) ==
    IF signing = NoRow THEN IF supplied = NoKey THEN FreshKey ELSE supplied
    ELSE IF signing.key.source = "supplied"
         THEN IF supplied = signing.key THEN supplied ELSE NoKey
         ELSE IF supplied = NoKey THEN signing.key ELSE NoKey

\* Cipher.Open: the key's version is bound into what it sealed.
Opens(version, kind) == creds[kind] = version

\* validateExternalCredentialConfiguration: a process opens both rows, or there are none;
\* one without a key (version 0) starts only then.
Configured(version) == \A k \in Kinds : creds[k] = 0 \/ Opens(version, k)

\* run: the stored key row is read, and one is made when there is none.
StartProcess(p, supplied, version) ==
    /\ Operation
    /\ procs[p] = Down
    /\ Configured(version)
    /\ Resolve(supplied) # NoKey
    /\ procs' = [procs EXCEPT ![p] =
                   [state |-> IF signing = NoRow THEN "provisioning" ELSE "up", supplied |-> supplied,
                    key |-> Resolve(supplied), generation |-> signing.generation, version |-> version]]
    /\ minted' = IF signing = NoRow /\ supplied = NoKey THEN minted + 1 ELSE minted
    /\ UNCHANGED <<now, rows, requests>>

\* Fault: who finds a row there stays with its own key.
AdoptedNever(p) == procs[p].key

\* The key a process goes on with when another one inserted the row first.
Adopted(p) == Resolve(procs[p].supplied)

\* insertSigningKey: ON CONFLICT DO NOTHING, and who loses reads the winner's row.
Provision(p) ==
    /\ procs[p].state = "provisioning"
    /\ IF signing = NoRow
       THEN /\ signing' = [key |-> procs[p].key, generation |-> 1]
            /\ procs' = [procs EXCEPT ![p].state = "up", ![p].generation = 1]
       ELSE /\ procs' = [procs EXCEPT ![p] =
                           IF Adopted(p) = NoKey THEN Down
                           ELSE [@ EXCEPT !.state = "up", !.key = Adopted(p), !.generation = signing.generation]]
            /\ UNCHANGED signing
    /\ UNCHANGED <<now, minted, identity, hash, sessions, creds, requests, ops>>

\* The requests a process was serving end with it.
StopProcess(p) ==
    /\ Operation
    /\ procs[p].state = "up"
    /\ procs' = [procs EXCEPT ![p] = Down]
    /\ requests' = [r \in Requests |-> IF requests[r] # Idle /\ requests[r].proc = p THEN Idle ELSE requests[r]]
    /\ UNCHANGED <<now, rows, minted>>

Up(p) == procs[p].state = "up"

\* RotateSigningKey: what was digested under the key that goes, goes with it.
RotateSigningKey(p) ==
    /\ Operation
    /\ Up(p)
    /\ signing' = [key |-> FreshKey, generation |-> signing.generation + 1]
    /\ minted' = minted + 1
    /\ sessions' = [s \in DOMAIN sessions |-> [sessions[s] EXCEPT !.revoked = TRUE]]
    /\ capabilities' = [c \in DOMAIN capabilities |->
                          IF capabilities[c].state = "usable" THEN [capabilities[c] EXCEPT !.state = "revoked"]
                          ELSE capabilities[c]]
    /\ invitations' = [i \in DOMAIN invitations |->
                         IF invitations[i].state = "pending" THEN [invitations[i] EXCEPT !.state = "revoked"]
                         ELSE invitations[i]]
    /\ UNCHANGED <<now, procs, closed, users, mails, hash, creds, requests>>

-----------------------------------------------------------------------------
(***************************************************************************)
(* Sessions.                                                               *)
(***************************************************************************)
NewSession(user, key, at, password, overlapped) ==
    LET absolute == at + AbsoluteTimeout
    IN  [user |-> user, key |-> key, created |-> at, seen |-> at,
         idle |-> Min({at + IdleTimeout, absolute}), absolute |-> absolute,
         revoked |-> FALSE, password |-> password, overlapped |-> overlapped]

Begin(r, p, request) ==
    /\ Operation
    /\ Up(p) /\ requests[r] = Idle
    /\ requests' = [requests EXCEPT ![r] = request]
    /\ UNCHANGED <<now, procs, minted>>

At(r, op) == requests[r] # Idle /\ requests[r].op = op
Finish(r) == requests' = [requests EXCEPT ![r] = Idle]

\* LoginOwner with the right password: the stored hash is read and verified.
BeginLogin(r, p) ==
    /\ closed
    /\ Begin(r, p, [op |-> "login", proc |-> p, hash |-> hash, at |-> now])
    /\ UNCHANGED rows

\* CreateOwnerSession: a hash with older parameters is replaced on the way.
CreateOwnerSession(r) ==
    LET read == requests[r].hash
    IN  /\ At(r, "login")
        /\ hash' = IF read.old THEN [read EXCEPT !.old = FALSE] ELSE hash
        /\ sessions' = Append(sessions, NewSession(CHOOSE u \in Owner : TRUE, procs[requests[r].proc].key,
                                            requests[r].at, read.password, hash.password # read.password))
        /\ Finish(r)
        /\ UNCHANGED <<now, procs, minted, signing, identity, creds, ops>>

ActiveAt(s, at) == ~s.revoked /\ s.created <= at /\ at < s.idle /\ at < s.absolute

\* Touch: the row's next activity and idle end.
Touched(s, at) == [seen |-> at, idle |-> Min({at + IdleTimeout, s.absolute})]

\* AuthenticateSession: the row is read by the token's digest and the next is worked out.
BeginAuthenticate(r, p, s) ==
    /\ s \in DOMAIN sessions
    /\ sessions[s].key = procs[p].key
    /\ ActiveAt(sessions[s], now) /\ sessions[s].seen <= now
    /\ Begin(r, p, [op |-> "touch", proc |-> p, session |-> s, next |-> Touched(sessions[s], now)])
    /\ UNCHANGED rows

\* UpdateSessionActivity: only a session that was not revoked meanwhile.
UpdateSessionActivity(r) ==
    LET s == requests[r].session
    IN  /\ At(r, "touch")
        /\ sessions' = IF sessions[s].revoked THEN sessions
                       ELSE [sessions EXCEPT ![s].seen = requests[r].next.seen, ![s].idle = requests[r].next.idle]
        /\ Finish(r)
        /\ UNCHANGED <<now, procs, minted, signing, identity, hash, creds, ops>>

Revoking(these) ==
    /\ Operation
    /\ sessions' = [s \in DOMAIN sessions |-> IF s \in these THEN [sessions[s] EXCEPT !.revoked = TRUE] ELSE sessions[s]]
    /\ UNCHANGED <<now, procs, minted, signing, identity, creds, requests>>

Of(u) == {s \in DOMAIN sessions : sessions[s].user = u}

RevokeSession(s)     == s \in DOMAIN sessions /\ Revoking({s}) /\ UNCHANGED hash
RevokeAllSessions(u) == u \in DOMAIN users /\ Revoking(Of(u)) /\ UNCHANGED hash

\* Fault: the old password's sessions go on.
EndedByResetNone(u) == {}

\* The sessions a reset ends.
EndedByReset(u) == Of(u)

ResetOwnerPassword ==
    /\ closed
    /\ \E u \in Owner : Revoking(EndedByReset(u))
    /\ hash' = [password |-> hash.password + 1, old |-> FALSE]

-----------------------------------------------------------------------------
(***************************************************************************)
(* The owner's setup.                                                      *)
(***************************************************************************)
Usable(c) == capabilities[c].state = "usable"

\* IssueSetupCapability: the newest link replaces the others.
IssueSetupCapability(p) ==
    /\ Operation
    /\ Up(p) /\ ~closed
    /\ capabilities' = Append([c \in DOMAIN capabilities |->
                                 IF Usable(c) THEN [capabilities[c] EXCEPT !.state = "revoked"] ELSE capabilities[c]],
                              [state |-> "usable", expires |-> now + SetupTTL, key |-> procs[p].key])
    /\ UNCHANGED <<now, procs, minted, signing, closed, users, invitations, mails, hash, sessions, creds, requests>>

\* Fault: the link that was used stays usable.
ConsumedNever(c) == capabilities

Consumed(c) == [capabilities EXCEPT ![c].state = "consumed"]

\* CompleteBootstrap: one transaction under the lock of bootstrap_state.
CompleteBootstrap(p, c, email) ==
    LET key == procs[p].key
    IN  /\ ~closed
        /\ c \in DOMAIN capabilities /\ Usable(c) /\ capabilities[c].key = key /\ now < capabilities[c].expires
        /\ users' = <<[email |-> email, role |-> "owner"]>>
        /\ hash' = [password |-> 1, old |-> FALSE]
        /\ creds' = [k \in Kinds |-> procs[p].version]
        /\ sessions' = Append(sessions, NewSession(1, key, now, 1, FALSE))
        /\ capabilities' = Consumed(c)
        /\ closed' = TRUE
        /\ UNCHANGED <<now, procs, minted, signing, invitations, mails, requests>>

\* BootstrapOwner, with settings that were verified and can be sealed.
BootstrapOwner(p, c, email) == Operation /\ Up(p) /\ procs[p].version # 0 /\ CompleteBootstrap(p, c, email)

-----------------------------------------------------------------------------
(***************************************************************************)
(* Invitations.                                                            *)
(***************************************************************************)

\* CreateInvitation looks for an account before it inserts, in one transaction that does
\* not keep others from committing in between.
BeginInvite(r, p, email) ==
    /\ closed /\ ~Taken(email)
    /\ Begin(r, p, [op |-> "invite", proc |-> p, email |-> email, at |-> now])
    /\ UNCHANGED rows

Delivering(r, i) ==
    /\ mails' = Append(mails, [invitation |-> i, state |-> "pending"])
    /\ requests' = [requests EXCEPT ![r] = [op |-> "deliver", proc |-> requests[r].proc, mail |-> Len(mails) + 1]]

\* The insertion, under the unique index of pending addresses.
CreateInvitation(r) ==
    LET email == requests[r].email
    IN  /\ At(r, "invite")
        /\ IF \E i \in Range(invitations) : i.email = email /\ i.state = "pending"
           THEN Finish(r) /\ UNCHANGED <<invitations, mails>>
           ELSE /\ invitations' = Append(invitations,
                        [email |-> email, state |-> "pending", expires |-> requests[r].at + InvitationTTL,
                         resends |-> 0, key |-> procs[requests[r].proc].key])
                /\ Delivering(r, Len(invitations) + 1)
        /\ UNCHANGED <<now, procs, minted, signing, closed, capabilities, users, hash, sessions, creds, ops>>

\* ResendInvitation: a new link, and a new time to use it.
ResendInvitation(r, p, i) ==
    /\ i \in DOMAIN invitations
    /\ invitations[i].state = "pending" /\ invitations[i].resends < MaxInvitationResends
    /\ invitations' = [invitations EXCEPT ![i].expires = now + InvitationTTL, ![i].resends = @ + 1,
                                          ![i].key = procs[p].key]
    /\ Begin(r, p, [op |-> "deliver", proc |-> p, mail |-> Len(mails) + 1])
    /\ mails' = Append(mails, [invitation |-> i, state |-> "pending"])
    /\ UNCHANGED <<signing, closed, capabilities, users, hash, sessions, creds>>

Marked(m, state) == IF mails[m].state = "pending" THEN [mails EXCEPT ![m].state = state] ELSE mails

\* deliverInvitation: the mail is sent, or not, and MarkInvitationDelivery records it.
MarkInvitationDelivery(r, state) ==
    /\ At(r, "deliver")
    /\ mails' = Marked(requests[r].mail, state)
    /\ Finish(r)
    /\ UNCHANGED <<now, procs, minted, signing, closed, capabilities, users, invitations, hash, sessions, creds, ops>>

RevokeInvitation(i) ==
    /\ Operation
    /\ i \in DOMAIN invitations /\ invitations[i].state = "pending"
    /\ invitations' = [invitations EXCEPT ![i].state = "revoked"]
    /\ mails' = [m \in DOMAIN mails |-> IF mails[m].invitation = i /\ mails[m].state = "pending"
                                        THEN [mails[m] EXCEPT !.state = "abandoned"] ELSE mails[m]]
    /\ UNCHANGED <<now, procs, minted, signing, closed, capabilities, users, hash, sessions, creds, requests>>

\* Fault: the account's address is not unique.
AcceptableAgain(email) == TRUE

\* The unique address of an account.
Acceptable(email) == ~Taken(email)

UsableAt(invitation, at) == invitation.state = "pending" /\ at < invitation.expires

\* AcceptInvitation, by the link of the newest mail.
AcceptInvitation(p, i) ==
    /\ Operation
    /\ Up(p) /\ i \in DOMAIN invitations
    /\ LET invitation == invitations[i]
       IN  /\ invitation.key = procs[p].key
           /\ UsableAt(invitation, now)
           /\ Acceptable(invitation.email)
           /\ users' = Append(users, [email |-> invitation.email, role |-> "member"])
    /\ invitations' = [invitations EXCEPT ![i].state = "accepted"]
    /\ sessions' = Append(sessions, NewSession(Len(users) + 1, procs[p].key, now, 0, FALSE))
    /\ UNCHANGED <<now, procs, minted, signing, closed, capabilities, mails, hash, creds, requests>>

-----------------------------------------------------------------------------
(***************************************************************************)
(* Credentials of external services.                                       *)
(***************************************************************************)

\* UpdateIntegrations with settings that were verified: an SMTP password that was left
\* out is read from the stored row.
BeginIntegrations(r, p, kinds, keep) ==
    /\ closed /\ procs[p].version # 0
    /\ keep => "smtp" \in kinds /\ Opens(procs[p].version, "smtp")
    /\ Begin(r, p, [op |-> "replace", proc |-> p, kinds |-> kinds])
    /\ UNCHANGED rows

\* Replace: sealed under the process's key.
Replace(r) ==
    /\ At(r, "replace")
    /\ creds' = [k \in Kinds |-> IF k \in requests[r].kinds THEN procs[requests[r].proc].version ELSE creds[k]]
    /\ Finish(r)
    /\ UNCHANGED <<now, procs, minted, signing, identity, hash, sessions, ops>>

\* Rotate: both rows are opened with the old key and sealed with the new one, or neither.
Rotate(old, new) ==
    /\ closed
    /\ \A k \in Kinds : Opens(old, k)
    /\ creds' = [k \in Kinds |-> new]

\* The command that is configured with the old key and asks for the new one.
RotateCredentialKey(p, version) ==
    /\ Operation
    /\ Up(p) /\ procs[p].version # 0 /\ procs[p].version < version
    /\ Rotate(procs[p].version, version)
    /\ UNCHANGED <<now, procs, minted, signing, identity, hash, sessions, requests>>

Tick ==
    /\ now < MaxTime
    /\ now' = now + 1
    /\ UNCHANGED <<procs, rows, minted, requests, ops>>

-----------------------------------------------------------------------------
Supplied == {NoKey} \cup [source: {"supplied"}, n: Secrets]

Processing(p) ==
    \/ \E supplied \in Supplied, version \in 0..MaxVersion : StartProcess(p, supplied, version)
    \/ Provision(p)
    \/ StopProcess(p)
    \/ RotateSigningKey(p)
    \/ \E version \in Versions : RotateCredentialKey(p, version)
    \/ IssueSetupCapability(p)
    \/ \E c \in DOMAIN capabilities, email \in Emails : BootstrapOwner(p, c, email)
    \/ \E i \in DOMAIN invitations : AcceptInvitation(p, i)

Serving(r) ==
    \/ \E p \in Processes : BeginLogin(r, p)
    \/ CreateOwnerSession(r)
    \/ \E p \in Processes, s \in DOMAIN sessions : BeginAuthenticate(r, p, s)
    \/ UpdateSessionActivity(r)
    \/ \E p \in Processes, email \in Emails : BeginInvite(r, p, email)
    \/ CreateInvitation(r)
    \/ \E p \in Processes, i \in DOMAIN invitations : ResendInvitation(r, p, i)
    \/ \E state \in {"sent", "failed"} : MarkInvitationDelivery(r, state)
    \/ \E p \in Processes, kinds \in (SUBSET Kinds) \ {{}}, keep \in BOOLEAN : BeginIntegrations(r, p, kinds, keep)
    \/ Replace(r)

Next ==
    \/ \E p \in Processes : Processing(p)
    \/ \E r \in Requests : Serving(r)
    \/ \E s \in DOMAIN sessions : RevokeSession(s)
    \/ \E u \in DOMAIN users : RevokeAllSessions(u)
    \/ ResetOwnerPassword
    \/ \E i \in DOMAIN invitations : RevokeInvitation(i)
    \/ Tick

Spec == Init /\ [][Next]_vars

-----------------------------------------------------------------------------
(***************************************************************************)
(* Properties.                                                             *)
(***************************************************************************)

\* "100 simultaneous first starts converge on one key" (ResolveSigningKey): processes
\* that came up since the last rotation sign with the stored key.
ProcessesShareOneKey ==
    \A p \in Processes : Up(p) /\ procs[p].generation = signing.generation => procs[p].key = signing.key

\* CompleteBootstrap opens an installation once and wholly: setup is closed exactly when
\* there is one owner and both credentials are stored, and no setup link outlives it.
InstallationIsWhole ==
    /\ closed <=> Cardinality(Owner) = 1
    /\ closed <=> \A k \in Kinds : creds[k] # 0
    /\ closed => \A c \in DOMAIN capabilities : ~Usable(c)

\* Nobody has two accounts, and each member's comes from one accepted invitation to that
\* address, although invitations of one address overlap (AcceptInvitation).
AccountsComeFromInvitations ==
    /\ \A u, v \in DOMAIN users : users[u].email = users[v].email => u = v
    /\ \A email \in Emails :
          Cardinality({i \in DOMAIN invitations : invitations[i].email = email /\ invitations[i].state = "accepted"})
        = Cardinality({u \in DOMAIN users : users[u] = [email |-> email, role |-> "member"]})

\* A password reset ends what the old password opened (ResetOwnerPassword): a session that
\* goes on was opened with the current password, or by a login the reset overtook, or
\* with a password such a login then replaced by its own.
ResetsEndSessions ==
    \A s \in DOMAIN sessions :
        ~sessions[s].revoked /\ sessions[s].user \in Owner /\ ~sessions[s].overlapped
            => sessions[s].password = hash.password \/ hash.password < sessions[s].password

\* "A save arrives while a credential-key rotation is in progress: the two must not
\* interleave into a mixed key version" (specs/011-integration-settings/spec.md).
\* With a rotation it does not hold, and no run checks it: see the README.
CredentialsShareOneKey == creds["eodhd_api"] = creds["smtp"]
=============================================================================

------------------------------ MODULE Licenses ------------------------------
(***************************************************************************)
(* Licenses: issued to an organization, passed on, activated by a key, a   *)
(* login or the binding of a device, expired at midnight and reset when    *)
(* the server starts.  Dispatch, activation, binding and login read a      *)
(* license with one statement and update it by its id with another; what   *)
(* happens to it in between is overwritten.                                *)
(***************************************************************************)
EXTENDS Integers, Sequences

CONSTANTS
    Orgs,
    Licenses,   \* rows of OrgLicense, present and future
    Hashes,     \* device hashes
    NoHash,     \* deviceHash is null, or not sent
    Calls,      \* requests in flight
    MaxHops,    \* bound: transfers of a license
    MaxRestarts \* bound: restarts of the server

ASSUME LicensesAssumption ==
    /\ Orgs # {}
    /\ NoHash \notin Hashes
    /\ MaxHops \in Nat
    /\ MaxRestarts \in Nat

VARIABLES
    license,    \* OrgLicense rows
    trail,      \* completed transfers of each license, in the order they commit
    alerts,     \* the hashes in each license's SecurityAlert rows
    revoked,    \* an administrator revoked the license, and none restored it
    call,       \* requests and what they have read
    restarts

vars == <<license, trail, alerts, revoked, call, restarts>>

\* machine: one of machineId, macAddress and deviceHash is set.
\* past: expiryDate is over.  SUSPENDED stands for IN_TRANSIT, too.
Statuses == {"AVAILABLE", "ACTIVE", "SUSPENDED", "EXPIRED", "REVOKED"}
LicenseRows == [status: Statuses \cup {"none"}, owner: Orgs, tenant: Orgs,
                hash: Hashes \cup {NoHash}, machine: BOOLEAN, past: BOOLEAN]

\* One dispatch of a license, whatever organizations lie between (OrgTree says
\* which).  raced: another dispatch moved it since this one was checked.
Transfers == [from: Orgs, to: Orgs, raced: BOOLEAN]

\* keys: the licenses a request is about.  hash, machine: the device it will
\* write, which bindDevice has partly read.  raced: another request has moved
\* (dispatch) or bound (activate, bindDevice) one of the keys since they were
\* read.  revoked: the keys an administrator has revoked since.  unlogged: the
\* alert could not be written.
CallStates ==
    [pc: {"idle", "dispatch", "activate", "bind", "login", "enter"},
     keys: SUBSET Licenses, from: Orgs, to: Orgs, hash: Hashes \cup {NoHash},
     machine: BOOLEAN, raced: BOOLEAN, revoked: SUBSET Licenses, unlogged: BOOLEAN]

TypeOK ==
    /\ license \in [Licenses -> LicenseRows]
    /\ trail \in [Licenses -> Seq(Transfers)]
    /\ alerts \in [Licenses -> SUBSET Hashes]
    /\ revoked \in [Licenses -> BOOLEAN]
    /\ call \in [Calls -> CallStates]
    /\ restarts \in 0..MaxRestarts

AnOrg == CHOOSE o \in Orgs : TRUE
NoLicense == [status |-> "none", owner |-> AnOrg, tenant |-> AnOrg, hash |-> NoHash,
              machine |-> FALSE, past |-> FALSE]
NoCall == [pc |-> "idle", keys |-> {}, from |-> AnOrg, to |-> AnOrg,
           hash |-> NoHash, machine |-> FALSE, raced |-> FALSE, revoked |-> {},
           unlogged |-> FALSE]

Init ==
    /\ license = [k \in Licenses |-> NoLicense]
    /\ trail = [k \in Licenses |-> <<>>]
    /\ alerts = [k \in Licenses |-> {}]
    /\ revoked = [k \in Licenses |-> FALSE]
    /\ call = [c \in Calls |-> NoCall]
    /\ restarts = 0

-----------------------------------------------------------------------------
\* issueOrgLicense: a batch for an organization, perhaps used by another.
\* (onboardRetailer issues one the same way, owned by the parent.)
Issue(K, owner, tenant) ==
    /\ K # {}
    /\ \A k \in K : license[k].status = "none"
    /\ license' = [k \in Licenses |->
           IF k \in K THEN [NoLicense EXCEPT !.status = "AVAILABLE", !.owner = owner,
                                            !.tenant = tenant]
                      ELSE license[k]]
    /\ UNCHANGED <<trail, alerts, revoked, call, restarts>>

\* updateStatus: an administrator sets any status at any time.
UpdateStatus(k, s) ==
    /\ license[k].status # "none"
    /\ license' = [license EXCEPT ![k].status = s]
    /\ revoked' = [revoked EXCEPT ![k] = (s = "REVOKED")]
    /\ call' = [c \in Calls |-> IF s = "REVOKED" /\ k \in call[c].keys
                                THEN [call[c] EXCEPT !.revoked = @ \cup {k}] ELSE call[c]]
    /\ UNCHANGED <<trail, alerts, restarts>>

\* checkExpiries, at midnight: only stock expires.
CheckExpiries ==
    LET over == {k \in Licenses : license[k].status = "AVAILABLE" /\ license[k].past} IN
    /\ over # {}
    /\ license' = [k \in Licenses |-> IF k \in over THEN [license[k] EXCEPT !.status = "EXPIRED"]
                                                   ELSE license[k]]
    /\ UNCHANGED <<trail, alerts, revoked, call, restarts>>

ExpiryPasses(k) ==
    /\ license[k].status # "none"
    /\ ~license[k].past
    /\ license' = [license EXCEPT ![k].past = TRUE]
    /\ UNCHANGED <<trail, alerts, revoked, call, restarts>>

\* onModuleInit, before the first request: a license without a machine is
\* AVAILABLE if its owner uses it itself and ACTIVE if another organization
\* does, whatever it was.  The requests of the old process are gone.
Reset(l) == IF l.status = "none" \/ l.machine THEN l
            ELSE [l EXCEPT !.status = IF l.owner = l.tenant THEN "AVAILABLE" ELSE "ACTIVE"]
Restart ==
    /\ restarts < MaxRestarts
    /\ restarts' = restarts + 1
    /\ license' = [k \in Licenses |-> Reset(license[k])]
    /\ call' = [c \in Calls |-> NoCall]
    /\ UNCHANGED <<trail, alerts, revoked>>

-----------------------------------------------------------------------------
\* What a request has read is kept in its call; the other calls of the given
\* kinds that are about the same licenses have been raced when c commits.
Began(c, r) ==
    /\ call[c].pc = "idle"
    /\ call' = [call EXCEPT ![c] = r]
Committed(c, kinds) ==
    call' = [d \in Calls |->
        IF d = c THEN NoCall
        ELSE IF call[d].pc \in kinds /\ call[d].keys \cap call[c].keys # {}
             THEN [call[d] EXCEPT !.raced = TRUE] ELSE call[d]]

\* Fault: licenses of any owner are dispatched.
DispatchAny(c, K, from, to) ==
    /\ K # {}
    /\ \A k \in K : license[k].status = "AVAILABLE"
    /\ Began(c, [NoCall EXCEPT !.pc = "dispatch", !.keys = K, !.from = from, !.to = to])
    /\ UNCHANGED <<license, trail, alerts, revoked, restarts>>

\* dispatch reads the licenses: all are available and the sender's own.
Dispatch(c, K, from, to) ==
    /\ K # {}
    /\ \A k \in K : license[k].status = "AVAILABLE" /\ license[k].owner = from
    /\ Began(c, [NoCall EXCEPT !.pc = "dispatch", !.keys = K, !.from = from, !.to = to])
    /\ UNCHANGED <<license, trail, alerts, revoked, restarts>>

\* Fault: the tenant is left as it was.
DispatchOwner(c) ==
    LET r == call[c] IN
    /\ r.pc = "dispatch"
    /\ \A k \in r.keys : Len(trail[k]) < MaxHops
    /\ license' = [k \in Licenses |->
           IF k \in r.keys
           THEN [license[k] EXCEPT !.status = "AVAILABLE", !.owner = r.to]
           ELSE license[k]]
    /\ trail' = [k \in Licenses |->
           IF k \in r.keys
           THEN Append(trail[k], [from |-> r.from, to |-> r.to, raced |-> r.raced])
           ELSE trail[k]]
    /\ Committed(c, {"dispatch"})
    /\ UNCHANGED <<alerts, revoked, restarts>>

\* Its transaction: the transfer rows, and the licenses by their ids.
CommitDispatch(c) ==
    LET r == call[c] IN
    /\ r.pc = "dispatch"
    /\ \A k \in r.keys : Len(trail[k]) < MaxHops
    /\ license' = [k \in Licenses |->
           IF k \in r.keys
           THEN [license[k] EXCEPT !.status = "AVAILABLE", !.owner = r.to, !.tenant = r.to]
           ELSE license[k]]
    /\ trail' = [k \in Licenses |->
           IF k \in r.keys
           THEN Append(trail[k], [from |-> r.from, to |-> r.to, raced |-> r.raced])
           ELSE trail[k]]
    /\ Committed(c, {"dispatch"})
    /\ UNCHANGED <<alerts, revoked, restarts>>

-----------------------------------------------------------------------------
\* Both hashes are known and not the same.
Differs(k, h) == license[k].hash # NoHash /\ h # NoHash /\ h # license[k].hash

\* activate, by key: the license is available.  On another device the request
\* is refused, leaving an alert.
Activate(c, k, h) ==
    /\ license[k].status = "AVAILABLE"
    /\ \/ /\ ~Differs(k, h)
          /\ Began(c, [NoCall EXCEPT !.pc = "activate", !.keys = {k}, !.hash = h])
          /\ UNCHANGED alerts
       \/ /\ Differs(k, h)
          /\ alerts' = [alerts EXCEPT ![k] = @ \cup {h}]
          /\ UNCHANGED call
    /\ UNCHANGED <<license, trail, revoked, restarts>>

\* Fault: a binding without a hash writes null.
BindingNull(k, h, unlogged) ==
    [NoCall EXCEPT !.pc = "bind", !.keys = {k}, !.unlogged = unlogged,
                   !.hash = h, !.machine = license[k].machine]

\* What bindDevice will write: of the device, whatever the request does not
\* send is written back as it was read.
Binding(k, h, unlogged) ==
    [NoCall EXCEPT !.pc = "bind", !.keys = {k}, !.unlogged = unlogged,
                   !.hash = IF h = NoHash THEN license[k].hash ELSE h,
                   !.machine = license[k].machine]

\* Fault: a revoked license is bound, too.
BindAny(c, k, h) ==
    /\ license[k].status # "none"
    /\ \/ ~Differs(k, h) /\ Began(c, Binding(k, h, FALSE)) /\ UNCHANGED alerts
       \/ /\ Differs(k, h)
          /\ \/ Began(c, Binding(k, h, FALSE)) /\ alerts' = [alerts EXCEPT ![k] = @ \cup {h}]
             \/ Began(c, Binding(k, h, TRUE)) /\ UNCHANGED alerts
    /\ UNCHANGED <<license, trail, revoked, restarts>>

\* bindDevice: any license but a revoked one.  Another device leaves an alert,
\* if it can be written, and goes on.
Bind(c, k, h) ==
    /\ license[k].status \notin {"none", "REVOKED"}
    /\ \/ ~Differs(k, h) /\ Began(c, Binding(k, h, FALSE)) /\ UNCHANGED alerts
       \/ /\ Differs(k, h)
          /\ \/ Began(c, Binding(k, h, FALSE)) /\ alerts' = [alerts EXCEPT ![k] = @ \cup {h}]
             \/ Began(c, Binding(k, h, TRUE)) /\ UNCHANGED alerts
    /\ UNCHANGED <<license, trail, revoked, restarts>>

\* The update of either.  An activation without a hash leaves the stored one; a
\* binding writes the one it has read, null included, over any that came since.
KeepsHash(r) == r.pc = "activate" /\ r.hash = NoHash
Bound(l, r, machine) ==
    [l EXCEPT !.status = "ACTIVE", !.hash = IF KeepsHash(r) THEN @ ELSE r.hash,
              !.machine = \/ machine \/ r.hash # NoHash
                          \/ IF r.pc = "bind" THEN r.machine ELSE @]
CommitBind(c, machine) ==
    /\ call[c].pc \in {"activate", "bind"}
    /\ license' = [k \in Licenses |->
           IF k \in call[c].keys THEN Bound(license[k], call[c], machine) ELSE license[k]]
    /\ Committed(c, IF KeepsHash(call[c]) THEN {} ELSE {"activate", "bind"})
    /\ UNCHANGED <<trail, alerts, revoked, restarts>>

-----------------------------------------------------------------------------
\* login: an organization without an active license ...
Login(c, o) ==
    /\ \A k \in Licenses : ~(license[k].tenant = o /\ license[k].status = "ACTIVE")
    /\ Began(c, [NoCall EXCEPT !.pc = "login", !.to = o])
    /\ UNCHANGED <<license, trail, alerts, revoked, restarts>>

\* ... has one of its available licenses found ...
FindLicense(c, k) ==
    /\ call[c].pc = "login"
    /\ license[k].tenant = call[c].to
    /\ license[k].status = "AVAILABLE"
    /\ call' = [call EXCEPT ![c].pc = "enter", ![c].keys = {k}]
    /\ UNCHANGED <<license, trail, alerts, revoked, restarts>>

\* ... and activated.  No device is bound.
Enter(c) ==
    /\ call[c].pc = "enter"
    /\ license' = [k \in Licenses |->
           IF k \in call[c].keys THEN [license[k] EXCEPT !.status = "ACTIVE"] ELSE license[k]]
    /\ Committed(c, {})
    /\ UNCHANGED <<trail, alerts, revoked, restarts>>

\* A request ends without a commit: nothing is found, or it is lost.
Drop(c) ==
    /\ call[c].pc # "idle"
    /\ call' = [call EXCEPT ![c] = NoCall]
    /\ UNCHANGED <<license, trail, alerts, revoked, restarts>>

-----------------------------------------------------------------------------
CallStep(c) ==
    \/ \E K \in SUBSET Licenses, from, to \in Orgs : Dispatch(c, K, from, to)
    \/ CommitDispatch(c)
    \/ \E k \in Licenses, h \in Hashes \cup {NoHash} : Activate(c, k, h) \/ Bind(c, k, h)
    \/ \E m \in BOOLEAN : CommitBind(c, m)
    \/ \E o \in Orgs : Login(c, o)
    \/ \E k \in Licenses : FindLicense(c, k)
    \/ Enter(c)
    \/ Drop(c)

Next ==
    \/ \E c \in Calls : CallStep(c)
    \/ \E K \in SUBSET Licenses, o, t \in Orgs : Issue(K, o, t)
    \/ \E k \in Licenses :
          \/ \E s \in Statuses : UpdateStatus(k, s)
          \/ ExpiryPasses(k)
    \/ CheckExpiries
    \/ Restart

Spec == Init /\ [][Next]_vars

-----------------------------------------------------------------------------
\* A license belongs to, and is used by, the organization its last transfer
\* went to, whatever requests ran beside it: getMyInventory and the reports
\* trace a license by its transfers.
HeldByLastReceiver ==
    \A k \in Licenses : trail[k] # <<>> =>
        LET last == trail[k][Len(trail[k])] IN
        license[k].owner = last.to /\ license[k].tenant = last.to

\* The transfers of a license form a line from hand to hand.  It breaks only
\* where two dispatches of the license overlapped: nothing else that happens
\* to a license, its status or its device breaks it.
TrailUnbroken ==
    \A k \in Licenses : \A i \in 1..(Len(trail[k]) - 1) :
        trail[k][i + 1].raced \/ trail[k][i + 1].from = trail[k][i].to

\* A license moves from one device to another only with an alert for the new
\* device, and its device is never forgotten: except where the alert could not be
\* written, or another request bound the license after this one had read it (user
\* guide 5.4).  A binding that sends no hash must not undo one either.
MovesAlerted ==
    [][\A k \in Licenses : license[k].hash \notin {NoHash, license'[k].hash} =>
          \/ license'[k].hash \in alerts[k]
          \/ \E c \in Calls : /\ k \in call[c].keys /\ call'[c].pc = "idle"
                              /\ call[c].raced \/ call[c].unlogged]_vars

\* A license an administrator has revoked (bindDevice: 'This license has been
\* revoked.') comes back without one only by a restart, or by a request that had
\* read it before.
RevocationUndone ==
    [][\A k \in Licenses :
          revoked[k] /\ revoked'[k] /\ license[k].status = "REVOKED"
              /\ license'[k].status # "REVOKED"
          => \/ restarts' > restarts
             \/ \E c \in Calls : k \in call[c].revoked /\ call'[c].pc = "idle"]_vars
=============================================================================

--------------------------- MODULE LicensesProofs ---------------------------
(***************************************************************************)
(* Proofs about Licenses: types, the holder of a license, the line of its  *)
(* transfers, the alert for a new device and what undoes a revocation.     *)
(* The invariant says what a request may still believe of the licenses it  *)
(* has read, as long as no other request has crossed it.                   *)
(***************************************************************************)
EXTENDS Licenses, TLAPS

\* What request c knows of license k: k has been issued; an uncrossed dispatch
\* still has the owner as its sender; an uncrossed binding goes to the stored
\* device, to a first one or to one alerted; and if k has been revoked since,
\* the request is counted as one that had read it before.
Knows(c, k) ==
    /\ license[k].status # "none"
    /\ call[c].pc = "dispatch" /\ ~call[c].raced => license[k].owner = call[c].from
    /\ /\ call[c].pc \in {"activate", "bind"} /\ ~KeepsHash(call[c])
       /\ ~call[c].raced /\ ~call[c].unlogged
       => license[k].hash \in {NoHash, call[c].hash} \/ call[c].hash \in alerts[k]
    /\ license[k].status = "REVOKED" => k \in call[c].revoked

CallsKnow == \A c \in Calls : \A k \in call[c].keys : Knows(c, k)

\* A license that has not been issued has no history.
Unissued == \A k \in Licenses :
    license[k].status = "none" => trail[k] = <<>> /\ license[k].hash = NoHash

IInv == TypeOK /\ CallsKnow /\ Unissued /\ HeldByLastReceiver /\ TrailUnbroken

-----------------------------------------------------------------------------
\* How most steps treat a license: who has it, on which device, and whether it
\* was issued stay the same; alerts are added; it is not newly revoked.
RowKept(k) ==
    /\ license'[k].status = "none" <=> license[k].status = "none"
    /\ license'[k].owner = license[k].owner
    /\ license'[k].tenant = license[k].tenant
    /\ license'[k].hash = license[k].hash
    /\ alerts[k] \subseteq alerts'[k]
    /\ license'[k].status = "REVOKED" => license[k].status = "REVOKED"

\* How a step treats a request that it does not answer.
CallKept(c) ==
    /\ call'[c].pc = call[c].pc /\ call'[c].keys = call[c].keys
    /\ call'[c].from = call[c].from /\ call'[c].hash = call[c].hash
    /\ call'[c].unlogged = call[c].unlogged
    /\ call[c].raced => call'[c].raced
    /\ call[c].revoked \subseteq call'[c].revoked

\* The rows and requests the specification starts from are typed, and an
\* answered request is about no license.
LEMMA NothingTyped ==
    /\ NoLicense \in LicenseRows /\ NoCall \in CallStates
    /\ NoCall.pc = "idle" /\ NoCall.keys = {} /\ ~NoCall.raced
    /\ NoLicense.hash = NoHash /\ NoLicense.status = "none"
<1>1. AnOrg \in Orgs
  BY LicensesAssumption DEF AnOrg
<1>2. QED BY <1>1 DEF NoLicense, NoCall, LicenseRows, CallStates, Statuses

\* What a request knows stays true of a license that a step keeps.
LEMMA KnowledgeKept ==
    ASSUME NEW c \in Calls, NEW k \in Licenses, Knows(c, k), RowKept(k), CallKept(c)
    PROVE  Knows(c, k)'
BY DEF Knows, RowKept, CallKept, KeepsHash

\* A step that keeps every license and its transfers, and keeps each request,
\* answers it, or lets it begin with true knowledge, keeps the invariant.
LEMMA KeptStep ==
    ASSUME IInv, TypeOK', trail' = trail,
           \A k \in Licenses : RowKept(k),
           \A c \in Calls : \/ CallKept(c) \/ call'[c].keys = {}
                            \/ \A k \in call'[c].keys : Knows(c, k)'
    PROVE  IInv'
<1>1. CallsKnow'
  <2> SUFFICES ASSUME NEW c \in Calls, NEW k \in call'[c].keys
               PROVE  Knows(c, k)'
    BY DEF CallsKnow
  <2>1. k \in Licenses
    BY DEF TypeOK, CallStates
  <2>2. CASE CallKept(c)
    <3>1. k \in call[c].keys
      BY <2>2 DEF CallKept
    <3>2. QED BY <2>1, <2>2, <3>1, KnowledgeKept DEF IInv, CallsKnow
  <2>3. QED BY <2>2
<1>2. Unissued'
  BY DEF IInv, Unissued, RowKept
<1>3. HeldByLastReceiver'
  BY DEF IInv, HeldByLastReceiver, RowKept
<1>4. TrailUnbroken'
  BY DEF IInv, TrailUnbroken
<1>5. QED BY <1>1, <1>2, <1>3, <1>4 DEF IInv

-----------------------------------------------------------------------------
\* Beginning a request changes no other request.
LEMMA BeganCalls ==
    ASSUME TypeOK, NEW c \in Calls, NEW r \in CallStates, Began(c, r)
    PROVE  /\ call' \in [Calls -> CallStates] /\ call'[c] = r
           /\ \A d \in Calls \ {c} : call'[d] = call[d] /\ CallKept(d)
BY DEF TypeOK, Began, CallKept

\* A commit answers its request and marks those of the given kinds that are
\* about one of its licenses.
LEMMA CommittedCalls ==
    ASSUME TypeOK, NEW c \in Calls, NEW kinds, Committed(c, kinds)
    PROVE  /\ call' \in [Calls -> CallStates] /\ call'[c] = NoCall
           /\ \A d \in Calls \ {c} :
                 /\ CallKept(d)
                 /\ call'[d].revoked = call[d].revoked
                 /\ \/ call[d].pc \in kinds /\ call[d].keys \cap call[c].keys # {}
                          /\ call'[d].raced
                    \/ ~(call[d].pc \in kinds /\ call[d].keys \cap call[c].keys # {})
                          /\ call'[d] = call[d]
<1>1. \A d \in Calls : LET r == [call[d] EXCEPT !.raced = TRUE] IN
        /\ r \in CallStates /\ r.raced /\ r.pc = call[d].pc /\ r.keys = call[d].keys
        /\ r.from = call[d].from /\ r.hash = call[d].hash /\ r.machine = call[d].machine
        /\ r.unlogged = call[d].unlogged /\ r.revoked = call[d].revoked
  BY DEF TypeOK, CallStates
<1>2. \A d \in Calls : call'[d] \in CallStates
  BY <1>1, NothingTyped DEF TypeOK, Committed
<1>3. call' = [d \in Calls |-> call'[d]]
  BY DEF Committed
<1>4. call' \in [Calls -> CallStates]
  BY <1>2, <1>3
<1>5. call'[c] = NoCall
  BY DEF Committed
<1>6. ASSUME NEW d \in Calls \ {c}
      PROVE  /\ CallKept(d)
             /\ call'[d].revoked = call[d].revoked
             /\ \/ call[d].pc \in kinds /\ call[d].keys \cap call[c].keys # {}
                      /\ call'[d].raced
                \/ ~(call[d].pc \in kinds /\ call[d].keys \cap call[c].keys # {})
                      /\ call'[d] = call[d]
  <2>1. CASE call[d].pc \in kinds /\ call[d].keys \cap call[c].keys # {}
    <3>1. call'[d] = [call[d] EXCEPT !.raced = TRUE]
      BY <2>1 DEF Committed
    <3>2. QED BY <1>1, <2>1, <3>1 DEF CallKept
  <2>2. CASE ~(call[d].pc \in kinds /\ call[d].keys \cap call[c].keys # {})
    <3>1. call'[d] = call[d]
      BY <2>2 DEF Committed
    <3>2. QED BY <2>2, <3>1 DEF CallKept
  <2>3. QED BY <2>1, <2>2
<1>7. QED BY <1>4, <1>5, <1>6

\* Issuing gives a license that had no history its first owner.
LEMMA IssueStep ==
    ASSUME IInv, NEW K \in SUBSET Licenses, NEW o \in Orgs, NEW t \in Orgs, Issue(K, o, t)
    PROVE  IInv'
<1> DEFINE new == [NoLicense EXCEPT !.status = "AVAILABLE", !.owner = o, !.tenant = t]
<1>1. new \in LicenseRows /\ new.status = "AVAILABLE" /\ new.hash = NoHash
  BY NothingTyped DEF LicenseRows, Statuses
<1>2. license' = [k \in Licenses |-> IF k \in K THEN new ELSE license[k]]
  BY DEF Issue
<1> HIDE DEF new
<1>3. TypeOK'
  BY <1>1, <1>2 DEF IInv, TypeOK, Issue
<1>4. UNCHANGED <<trail, alerts, call>>
  BY DEF Issue
<1>5. \A k \in K : license[k].status = "none" /\ trail[k] = <<>>
  BY DEF IInv, Issue, Unissued
<1>6. \A k \in Licenses \ K : license'[k] = license[k]
  BY <1>2
<1>7. \A k \in K : license'[k] = new
  BY <1>2
<1>8. CallsKnow'
  <2> SUFFICES ASSUME NEW c \in Calls, NEW k \in call[c].keys
               PROVE  Knows(c, k)'
    BY <1>4 DEF CallsKnow
  <2>1. Knows(c, k) /\ k \in Licenses
    BY DEF IInv, CallsKnow, TypeOK, CallStates
  <2>2. k \notin K
    BY <1>5, <2>1 DEF Knows
  <2>3. QED BY <1>4, <1>6, <2>1, <2>2 DEF Knows
<1>9. Unissued'
  BY <1>1, <1>4, <1>6, <1>7 DEF IInv, Unissued
<1>10. HeldByLastReceiver'
  BY <1>4, <1>5, <1>6 DEF IInv, HeldByLastReceiver
<1>11. TrailUnbroken'
  BY <1>4 DEF IInv, TrailUnbroken
<1>12. QED BY <1>3, <1>8, <1>9, <1>10, <1>11 DEF IInv

\* An administrator's status changes no holder; a revocation is noted in the
\* requests that have read the license.
LEMMA UpdateStatusStep ==
    ASSUME IInv, NEW k \in Licenses, NEW s \in Statuses, UpdateStatus(k, s)
    PROVE  IInv'
<1> USE DEF IInv
<1>1. /\ license' \in [Licenses -> LicenseRows]
      /\ license'[k].status = s
      /\ \A j \in Licenses \ {k} : license'[j] = license[j]
      /\ \A j \in Licenses : /\ license'[j].owner = license[j].owner
                             /\ license'[j].tenant = license[j].tenant
                             /\ license'[j].hash = license[j].hash
  BY DEF UpdateStatus, TypeOK, LicenseRows
<1>2. \A c \in Calls : LET r == [call[c] EXCEPT !.revoked = @ \cup {k}] IN
        /\ r \in CallStates /\ r.revoked = call[c].revoked \cup {k}
        /\ r.pc = call[c].pc /\ r.keys = call[c].keys /\ r.from = call[c].from
        /\ r.hash = call[c].hash /\ r.unlogged = call[c].unlogged /\ r.raced = call[c].raced
  BY DEF TypeOK, CallStates
<1>3. \A c \in Calls : /\ call'[c] \in CallStates
                       /\ CallKept(c)
                       /\ s = "REVOKED" /\ k \in call[c].keys => k \in call'[c].revoked
  BY <1>2 DEF UpdateStatus, CallKept, TypeOK
<1>4. call' \in [Calls -> CallStates]
  BY <1>3 DEF UpdateStatus
<1>5. UNCHANGED <<trail, alerts, restarts>>
  BY DEF UpdateStatus
<1>6. revoked' \in [Licenses -> BOOLEAN]
  BY DEF UpdateStatus, TypeOK
<1>7. TypeOK'
  BY <1>1, <1>4, <1>5, <1>6 DEF TypeOK
<1>8. s # "none" /\ license[k].status # "none"
  BY DEF UpdateStatus, Statuses
<1>9. CallsKnow'
  <2> SUFFICES ASSUME NEW c \in Calls, NEW j \in call'[c].keys
               PROVE  Knows(c, j)'
    BY DEF CallsKnow
  <2>1. j \in call[c].keys /\ j \in Licenses /\ CallKept(c) /\ Knows(c, j)
    BY <1>3 DEF CallKept, CallsKnow, TypeOK, CallStates
  <2>2. CASE j # k
    <3>1. RowKept(j)
      BY <1>1, <1>5, <2>1, <2>2 DEF RowKept
    <3>2. QED BY <2>1, <3>1, KnowledgeKept
  <2>3. CASE j = k
    BY <1>1, <1>3, <1>5, <1>8, <2>1, <2>3 DEF Knows, CallKept, KeepsHash
  <2>4. QED BY <2>2, <2>3
<1>10. Unissued'
  BY <1>1, <1>5, <1>8 DEF Unissued
<1>11. HeldByLastReceiver'
  BY <1>1, <1>5 DEF HeldByLastReceiver
<1>12. TrailUnbroken'
  BY <1>5 DEF TrailUnbroken
<1>13. QED BY <1>7, <1>9, <1>10, <1>11, <1>12

\* A dispatch makes its receiver the holder of all its licenses, and crosses
\* the other dispatches of them.
LEMMA CommitDispatchStep ==
    ASSUME IInv, NEW c \in Calls, CommitDispatch(c)
    PROVE  IInv'
<1> DEFINE K == call[c].keys
           step == [from |-> call[c].from, to |-> call[c].to, raced |-> call[c].raced]
<1>0. /\ TypeOK /\ call[c] \in CallStates /\ K \subseteq Licenses
      /\ call[c].pc = "dispatch" /\ step \in Transfers
      /\ step.to = call[c].to /\ step.from = call[c].from /\ step.raced = call[c].raced
      /\ call[c].to \in Orgs
  BY DEF IInv, TypeOK, CallStates, CommitDispatch, Transfers
<1>1. /\ call' \in [Calls -> CallStates] /\ call'[c] = NoCall
      /\ \A d \in Calls \ {c} :
            /\ CallKept(d)
            /\ \/ call[d].pc \in {"dispatch"} /\ call[d].keys \cap call[c].keys # {}
                     /\ call'[d].raced
               \/ ~(call[d].pc \in {"dispatch"} /\ call[d].keys \cap call[c].keys # {})
                     /\ call'[d] = call[d]
  <2>1. Committed(c, {"dispatch"})
    BY DEF CommitDispatch
  <2>2. QED BY <1>0, <2>1, CommittedCalls
<1>2. \A k \in Licenses :
        LET l == [license[k] EXCEPT !.status = "AVAILABLE", !.owner = call[c].to,
                                    !.tenant = call[c].to] IN
        /\ l \in LicenseRows /\ l.status = "AVAILABLE"
        /\ l.owner = call[c].to /\ l.tenant = call[c].to /\ l.hash = license[k].hash
  BY <1>0 DEF TypeOK, LicenseRows, Statuses
<1>3. /\ license' \in [Licenses -> LicenseRows]
      /\ \A k \in K : /\ license'[k].status = "AVAILABLE" /\ license'[k].owner = call[c].to
                      /\ license'[k].tenant = call[c].to /\ license'[k].hash = license[k].hash
      /\ \A k \in Licenses \ K : license'[k] = license[k]
  BY <1>0, <1>2 DEF CommitDispatch, TypeOK
<1>4. /\ trail' \in [Licenses -> Seq(Transfers)]
      /\ \A k \in K : trail'[k] = Append(trail[k], step)
      /\ \A k \in Licenses \ K : trail'[k] = trail[k]
  <2> HIDE DEF step
  <2>1. trail' = [k \in Licenses |-> IF k \in K THEN Append(trail[k], step) ELSE trail[k]]
    BY DEF CommitDispatch, step
  <2>2. \A k \in Licenses : Append(trail[k], step) \in Seq(Transfers)
    BY <1>0 DEF TypeOK
  <2>3. QED BY <1>0, <2>1, <2>2 DEF TypeOK
<1>5. UNCHANGED <<alerts, revoked, restarts>>
  BY DEF CommitDispatch
<1>6. TypeOK'
  BY <1>0, <1>1, <1>3, <1>4, <1>5 DEF TypeOK
<1> HIDE DEF step
<1>7. \A k \in K : Knows(c, k)
  BY DEF IInv, CallsKnow
<1>8. CallsKnow'
  <2> SUFFICES ASSUME NEW d \in Calls, NEW k \in call'[d].keys
               PROVE  Knows(d, k)'
    BY DEF CallsKnow
  <2>1. d # c
    BY <1>1, NothingTyped
  <2>2. CallKept(d) /\ k \in call[d].keys /\ k \in Licenses /\ Knows(d, k)
    BY <1>0, <1>1, <2>1 DEF CallKept, IInv, CallsKnow, TypeOK, CallStates
  <2>3. CASE k \in K
    <3>1. call[d].pc = "dispatch" => call'[d].raced
      BY <1>1, <2>1, <2>2, <2>3
    <3>2. QED BY <1>3, <1>5, <2>2, <2>3, <3>1 DEF Knows, CallKept, KeepsHash
  <2>4. CASE k \notin K
    <3>1. RowKept(k)
      BY <1>3, <1>5, <2>2, <2>4 DEF RowKept
    <3>2. QED BY <2>2, <3>1, KnowledgeKept
  <2>5. QED BY <2>3, <2>4
<1>9. Unissued'
  BY <1>3, <1>4 DEF IInv, Unissued
<1>10. HeldByLastReceiver'
  <2> SUFFICES ASSUME NEW k \in Licenses, trail'[k] # <<>>
               PROVE  /\ license'[k].owner = trail'[k][Len(trail'[k])].to
                      /\ license'[k].tenant = trail'[k][Len(trail'[k])].to
    BY DEF HeldByLastReceiver
  <2>1. CASE k \in K
    <3>1. trail[k] \in Seq(Transfers)
      BY <1>0 DEF TypeOK
    <3>2. trail'[k][Len(trail'[k])] = step
      BY <1>0, <1>4, <2>1, <3>1
    <3>3. QED BY <1>0, <1>3, <2>1, <3>2
  <2>2. CASE k \notin K
    BY <1>3, <1>4, <2>2 DEF IInv, HeldByLastReceiver
  <2>3. QED BY <2>1, <2>2
<1>11. TrailUnbroken'
  <2> SUFFICES ASSUME NEW k \in Licenses, NEW i \in 1..(Len(trail'[k]) - 1)
               PROVE  \/ trail'[k][i + 1].raced
                      \/ trail'[k][i + 1].from = trail'[k][i].to
    BY DEF TrailUnbroken
  <2>1. CASE k \in K
    <3>1. trail[k] \in Seq(Transfers) /\ Len(trail[k]) \in Nat
      BY <1>0 DEF TypeOK
    <3>2. /\ Len(trail'[k]) = Len(trail[k]) + 1
          /\ trail'[k][Len(trail[k]) + 1] = step
          /\ \A j \in 1..Len(trail[k]) : trail'[k][j] = trail[k][j]
      <4>1. \A s \in Seq(Transfers), e \in Transfers :
              /\ Len(Append(s, e)) = Len(s) + 1 /\ Append(s, e)[Len(s) + 1] = e
              /\ \A j \in 1..Len(s) : Append(s, e)[j] = s[j]
        OBVIOUS
      <4>2. step \in Transfers /\ trail'[k] = Append(trail[k], step)
        BY <1>0, <1>4, <2>1
      <4>3. QED BY <3>1, <4>1, <4>2
    <3>3. CASE i < Len(trail[k])
      <4>1. i \in 1..(Len(trail[k]) - 1) /\ i \in 1..Len(trail[k]) /\ i + 1 \in 1..Len(trail[k])
        BY <3>1, <3>2, <3>3
      <4>2. trail[k][i + 1].raced \/ trail[k][i + 1].from = trail[k][i].to
        BY <4>1 DEF IInv, TrailUnbroken
      <4>3. QED BY <3>2, <4>1, <4>2
    <3>4. CASE i = Len(trail[k])
      <4>1. trail[k] # <<>> /\ i \in 1..Len(trail[k])
        BY <3>1, <3>2, <3>4
      <4>2. license[k].owner = trail[k][Len(trail[k])].to
        BY <4>1 DEF IInv, HeldByLastReceiver
      <4>3. call[c].raced \/ license[k].owner = call[c].from
        BY <1>0, <1>7, <2>1 DEF Knows
      <4>4. QED BY <1>0, <3>2, <3>4, <4>1, <4>2, <4>3
    <3>5. QED BY <3>1, <3>2, <3>3, <3>4
  <2>2. CASE k \notin K
    BY <1>4, <2>2 DEF IInv, TrailUnbroken
  <2>3. QED BY <2>1, <2>2
<1>12. QED BY <1>6, <1>8, <1>9, <1>10, <1>11 DEF IInv

\* A binding changes the device of its license, and crosses the other bindings
\* of it.
LEMMA CommitBindStep ==
    ASSUME IInv, NEW c \in Calls, NEW m \in BOOLEAN, CommitBind(c, m)
    PROVE  IInv'
<1> DEFINE K == call[c].keys
           h == call[c].hash
           keeps == KeepsHash(call[c])
           kinds == IF keeps THEN {} ELSE {"activate", "bind"}
<1>0. /\ TypeOK /\ call[c] \in CallStates /\ K \subseteq Licenses
      /\ h \in Hashes \cup {NoHash} /\ call[c].machine \in BOOLEAN
  BY DEF IInv, TypeOK, CallStates
<1>1. /\ call' \in [Calls -> CallStates] /\ call'[c] = NoCall
      /\ \A d \in Calls \ {c} :
            /\ CallKept(d)
            /\ \/ call[d].pc \in kinds /\ call[d].keys \cap call[c].keys # {}
                     /\ call'[d].raced
               \/ ~(call[d].pc \in kinds /\ call[d].keys \cap call[c].keys # {})
                     /\ call'[d] = call[d]
  <2>1. Committed(c, kinds)
    BY DEF CommitBind
  <2> HIDE DEF kinds
  <2>2. QED BY <1>0, <2>1, CommittedCalls
<1>2. \A k \in Licenses :
        LET l == Bound(license[k], call[c], m) IN
        /\ l \in LicenseRows /\ l.status = "ACTIVE"
        /\ l.owner = license[k].owner /\ l.tenant = license[k].tenant
        /\ l.hash = IF keeps THEN license[k].hash ELSE h
  BY <1>0 DEF TypeOK, LicenseRows, Statuses, Bound
<1>3. /\ license' \in [Licenses -> LicenseRows]
      /\ \A k \in K : /\ license'[k].status = "ACTIVE"
                      /\ license'[k].hash = IF keeps THEN license[k].hash ELSE h
      /\ \A k \in Licenses \ K : license'[k] = license[k]
      /\ \A k \in Licenses : /\ license'[k].owner = license[k].owner
                             /\ license'[k].tenant = license[k].tenant
  BY <1>0, <1>2 DEF CommitBind, TypeOK
<1>4. UNCHANGED <<trail, alerts, revoked, restarts>>
  BY DEF CommitBind
<1>5. TypeOK'
  BY <1>0, <1>1, <1>3, <1>4 DEF TypeOK
<1>6. \A k \in K : license[k].status # "none"
  BY DEF IInv, CallsKnow, Knows
<1>7. CallsKnow'
  <2> SUFFICES ASSUME NEW d \in Calls, NEW k \in call'[d].keys
               PROVE  Knows(d, k)'
    BY DEF CallsKnow
  <2>1. d # c
    BY <1>1, NothingTyped
  <2>2. CallKept(d) /\ k \in call[d].keys /\ k \in Licenses /\ Knows(d, k)
    BY <1>0, <1>1, <2>1 DEF CallKept, IInv, CallsKnow, TypeOK, CallStates
  <2>3. CASE k \in K
    <3>1. CASE keeps
      BY <1>3, <1>4, <2>2, <2>3, <3>1 DEF Knows, CallKept, KeepsHash
    <3>2. CASE ~keeps
      <4>1. call[d].pc \in {"activate", "bind"} => call'[d].raced
        BY <1>1, <2>1, <2>2, <2>3, <3>2
      <4>2. QED BY <1>3, <1>4, <2>2, <2>3, <4>1 DEF Knows, CallKept, KeepsHash
    <3>3. QED BY <3>1, <3>2
  <2>4. CASE k \notin K
    <3>1. RowKept(k)
      BY <1>3, <1>4, <2>2, <2>4 DEF RowKept
    <3>2. QED BY <2>2, <3>1, KnowledgeKept
  <2>5. QED BY <2>3, <2>4
<1>8. Unissued'
  BY <1>3, <1>4, <1>6 DEF IInv, Unissued
<1>9. HeldByLastReceiver'
  BY <1>3, <1>4 DEF IInv, HeldByLastReceiver
<1>10. TrailUnbroken'
  BY <1>4 DEF IInv, TrailUnbroken
<1>11. QED BY <1>5, <1>7, <1>8, <1>9, <1>10 DEF IInv

-----------------------------------------------------------------------------
\* The steps that change only the status of licenses, or what is known of their
\* expiry, and add to no request.
LEMMA StatusStep ==
    ASSUME IInv, CheckExpiries \/ (\E k \in Licenses : ExpiryPasses(k)) \/ Restart
    PROVE  IInv'
<1> USE DEF IInv
<1>1. CASE CheckExpiries
  <2>1. /\ license' \in [Licenses -> LicenseRows] /\ UNCHANGED <<trail, alerts, revoked, call, restarts>>
        /\ \A k \in Licenses : RowKept(k)
    BY <1>1 DEF CheckExpiries, TypeOK, LicenseRows, Statuses, RowKept
  <2>2. TypeOK' /\ \A c \in Calls : CallKept(c)
    BY <2>1 DEF TypeOK, CallKept
  <2>3. QED BY <2>1, <2>2, KeptStep
<1>2. CASE \E k \in Licenses : ExpiryPasses(k)
  <2>0. PICK k \in Licenses : ExpiryPasses(k)
    BY <1>2
  <2>1. /\ license' \in [Licenses -> LicenseRows] /\ UNCHANGED <<trail, alerts, revoked, call, restarts>>
        /\ \A j \in Licenses : RowKept(j)
    BY <2>0 DEF ExpiryPasses, TypeOK, LicenseRows, RowKept
  <2>2. TypeOK' /\ \A c \in Calls : CallKept(c)
    BY <2>1 DEF TypeOK, CallKept
  <2>3. QED BY <2>1, <2>2, KeptStep
<1>3. CASE Restart
  <2>1. \A k \in Licenses : /\ Reset(license[k]) \in LicenseRows
                            /\ Reset(license[k]).owner = license[k].owner
                            /\ Reset(license[k]).tenant = license[k].tenant
                            /\ Reset(license[k]).hash = license[k].hash
                            /\ Reset(license[k]).status = "none" <=> license[k].status = "none"
                            /\ Reset(license[k]).status = "REVOKED" => license[k].status = "REVOKED"
    BY DEF TypeOK, LicenseRows, Statuses, Reset
  <2>2. license' \in [Licenses -> LicenseRows] /\ \A k \in Licenses : RowKept(k)
    BY <1>3, <2>1 DEF Restart, RowKept
  <2>3. call' \in [Calls -> CallStates] /\ \A c \in Calls : call'[c].keys = {}
    BY <1>3, NothingTyped DEF Restart
  <2>4. restarts' \in 0..MaxRestarts
    BY <1>3, LicensesAssumption DEF Restart, TypeOK
  <2>5. UNCHANGED <<trail, alerts, revoked>>
    BY <1>3 DEF Restart
  <2>6. TypeOK'
    BY <2>2, <2>3, <2>4, <2>5 DEF TypeOK
  <2>7. QED BY <2>2, <2>3, <2>5, <2>6, KeptStep
<1>4. QED BY <1>1, <1>2, <1>3

\* A dispatch begins with what it has read.
LEMMA DispatchStep ==
    ASSUME IInv, NEW c \in Calls, NEW K \in SUBSET Licenses, NEW from \in Orgs, NEW to \in Orgs,
           Dispatch(c, K, from, to)
    PROVE  IInv'
<1> DEFINE r == [NoCall EXCEPT !.pc = "dispatch", !.keys = K, !.from = from, !.to = to]
<1>1. r \in CallStates /\ r.pc = "dispatch" /\ r.keys = K /\ r.from = from
  BY NothingTyped DEF CallStates
<1>2. /\ Began(c, r) /\ UNCHANGED <<license, trail, alerts, revoked, restarts>>
      /\ \A k \in K : license[k].status = "AVAILABLE" /\ license[k].owner = from
  BY DEF Dispatch
<1> HIDE DEF r
<1>3. /\ call' \in [Calls -> CallStates] /\ call'[c] = r
      /\ \A d \in Calls \ {c} : CallKept(d)
  BY <1>1, <1>2, BeganCalls DEF IInv
<1>4. TypeOK'
  BY <1>2, <1>3 DEF IInv, TypeOK
<1>5. \A k \in K : Knows(c, k)'
  BY <1>1, <1>2, <1>3 DEF Knows
<1>6. \A k \in Licenses : RowKept(k)
  BY <1>2 DEF RowKept
<1>7. QED BY <1>1, <1>2, <1>3, <1>4, <1>5, <1>6, KeptStep

\* An activation or a binding begins with what it has read, after the alert it
\* has written.
LEMMA BindStep ==
    ASSUME IInv, NEW c \in Calls, NEW k \in Licenses, NEW h \in Hashes \cup {NoHash},
           Activate(c, k, h) \/ Bind(c, k, h)
    PROVE  IInv'
<1> DEFINE r == [NoCall EXCEPT !.pc = "activate", !.keys = {k}, !.hash = h]
           b == Binding(k, h, FALSE)
           silent == Binding(k, h, TRUE)
           About(s) == /\ s \in CallStates /\ s.keys = {k}
                       /\ \/ s.pc = "activate" /\ s.hash = h
                          \/ s.pc = "bind" /\ s.hash = IF h = NoHash THEN license[k].hash ELSE h
<1>0. About(r) /\ About(b) /\ About(silent) /\ silent.unlogged
  <2>1. license[k].hash \in Hashes \cup {NoHash} /\ license[k].machine \in BOOLEAN
    BY DEF IInv, TypeOK, LicenseRows
  <2>2. QED BY <2>1, NothingTyped DEF CallStates, Binding
<1>1. /\ UNCHANGED <<license, trail, revoked, restarts>>
      /\ license[k].status \notin {"none", "REVOKED"}
  BY DEF Activate, Bind
<1>2. \/ Began(c, r) /\ ~Differs(k, h) /\ UNCHANGED alerts
      \/ Began(c, b) /\ ~Differs(k, h) /\ UNCHANGED alerts
      \/ UNCHANGED call /\ Differs(k, h) /\ alerts' = [alerts EXCEPT ![k] = @ \cup {h}]
      \/ Began(c, b) /\ Differs(k, h) /\ alerts' = [alerts EXCEPT ![k] = @ \cup {h}]
      \/ Began(c, silent) /\ UNCHANGED alerts
  BY DEF Activate, Bind
<1> HIDE DEF r, b, silent
<1>3. /\ alerts' \in [Licenses -> SUBSET Hashes]
      /\ \A j \in Licenses : alerts[j] \subseteq alerts'[j]
      /\ alerts' # alerts => Differs(k, h) /\ h \in alerts'[k]
  BY <1>2 DEF Differs, IInv, TypeOK
<1>4. \A j \in Licenses : RowKept(j)
  BY <1>1, <1>3 DEF RowKept
<1>5. CASE UNCHANGED call
  <2>1. TypeOK' /\ \A d \in Calls : CallKept(d)
    BY <1>1, <1>3, <1>5 DEF IInv, TypeOK, CallKept
  <2>2. QED BY <1>1, <1>4, <2>1, KeptStep
<1>6. ASSUME NEW s, About(s), Began(c, s), s.unlogged \/ ~Differs(k, h) \/ h \in alerts'[k]
      PROVE  IInv'
  <2>1. /\ call' \in [Calls -> CallStates] /\ call'[c] = s
        /\ \A d \in Calls \ {c} : CallKept(d)
    BY <1>6, BeganCalls DEF IInv
  <2>2. TypeOK'
    BY <1>1, <1>3, <2>1 DEF IInv, TypeOK
  <2>3. Knows(c, k)'
    BY <1>1, <1>6, <2>1 DEF Knows, Differs, KeepsHash
  <2>4. QED BY <1>4, <1>6, <1>1, <2>1, <2>2, <2>3, KeptStep
<1>7. alerts' = [alerts EXCEPT ![k] = @ \cup {h}] => h \in alerts'[k]
  BY DEF IInv, TypeOK
<1>8. QED BY <1>0, <1>2, <1>5, <1>6, <1>7

\* A login looks for a license of its organization, activates it, or gives up;
\* a request that is dropped leaves nothing.
LEMMA LoginStep ==
    ASSUME IInv, NEW c \in Calls,
           \/ \E o \in Orgs : Login(c, o)
           \/ \E k \in Licenses : FindLicense(c, k)
           \/ Enter(c)
           \/ Drop(c)
    PROVE  IInv'
<1>1. CASE \E o \in Orgs : Login(c, o)
  <2>1. PICK o \in Orgs : Login(c, o)
    BY <1>1
  <2> DEFINE r == [NoCall EXCEPT !.pc = "login", !.to = o]
  <2>2. r \in CallStates /\ r.keys = {}
    BY NothingTyped DEF CallStates
  <2>3. Began(c, r) /\ UNCHANGED <<license, trail, alerts, revoked, restarts>>
    BY <2>1 DEF Login
  <2> HIDE DEF r
  <2>4. /\ call' \in [Calls -> CallStates] /\ call'[c] = r
        /\ \A d \in Calls \ {c} : CallKept(d)
    BY <2>2, <2>3, BeganCalls DEF IInv
  <2>5. TypeOK' /\ \A k \in Licenses : RowKept(k)
    BY <2>3, <2>4 DEF IInv, TypeOK, RowKept
  <2>6. QED BY <2>2, <2>3, <2>4, <2>5, KeptStep
<1>2. CASE \E k \in Licenses : FindLicense(c, k)
  <2>1. PICK k \in Licenses : FindLicense(c, k)
    BY <1>2
  <2> DEFINE r == [call[c] EXCEPT !.pc = "enter", !.keys = {k}]
  <2>2. r \in CallStates /\ r.keys = {k} /\ r.pc = "enter"
    BY DEF IInv, TypeOK, CallStates
  <2>3. call' = [call EXCEPT ![c] = r] /\ UNCHANGED <<license, trail, alerts, revoked, restarts>>
    BY <2>1 DEF FindLicense
  <2> HIDE DEF r
  <2>4. /\ call' \in [Calls -> CallStates] /\ call'[c] = r
        /\ \A d \in Calls \ {c} : CallKept(d)
    BY <2>2, <2>3 DEF IInv, TypeOK, CallKept
  <2>5. TypeOK' /\ \A j \in Licenses : RowKept(j)
    BY <2>3, <2>4 DEF IInv, TypeOK, RowKept
  <2>6. Knows(c, k)'
    BY <2>1, <2>2, <2>3, <2>4 DEF FindLicense, Knows
  <2>7. QED BY <2>2, <2>3, <2>4, <2>5, <2>6, KeptStep
<1>3. CASE Enter(c)
  <2>1. /\ license' \in [Licenses -> LicenseRows]
        /\ \A k \in Licenses : RowKept(k)
        /\ UNCHANGED <<trail, alerts, revoked, restarts>>
    <3>1. \A k \in call[c].keys : license[k].status # "none"
      BY DEF IInv, CallsKnow, Knows
    <3>2. \A k \in Licenses : LET l == [license[k] EXCEPT !.status = "ACTIVE"] IN
            /\ l \in LicenseRows /\ l.status = "ACTIVE" /\ l.owner = license[k].owner
            /\ l.tenant = license[k].tenant /\ l.hash = license[k].hash
      BY DEF IInv, TypeOK, LicenseRows, Statuses
    <3>3. license' \in [Licenses -> LicenseRows] /\ UNCHANGED <<trail, alerts, revoked, restarts>>
      BY <1>3, <3>2 DEF Enter, IInv, TypeOK
    <3>4. \A k \in Licenses : RowKept(k)
      BY <1>3, <3>1, <3>2, <3>3 DEF Enter, RowKept
    <3>5. QED BY <3>3, <3>4
  <2>2. /\ call' \in [Calls -> CallStates] /\ call'[c] = NoCall
        /\ \A d \in Calls \ {c} : CallKept(d)
    <3>1. Committed(c, {})
      BY <1>3 DEF Enter
    <3>2. QED BY <3>1, CommittedCalls DEF IInv
  <2>3. TypeOK'
    BY <2>1, <2>2 DEF IInv, TypeOK
  <2>4. QED BY <2>1, <2>2, <2>3, NothingTyped, KeptStep
<1>4. CASE Drop(c)
  <2>1. /\ call' \in [Calls -> CallStates] /\ call'[c] = NoCall
        /\ \A d \in Calls \ {c} : CallKept(d)
        /\ UNCHANGED <<license, trail, alerts, revoked, restarts>>
    BY <1>4, NothingTyped DEF Drop, IInv, TypeOK, CallKept
  <2>2. TypeOK' /\ \A k \in Licenses : RowKept(k)
    BY <2>1 DEF IInv, TypeOK, RowKept
  <2>3. QED BY <2>1, <2>2, NothingTyped, KeptStep
<1>5. QED BY <1>1, <1>2, <1>3, <1>4

LEMMA Initially == Init => IInv
<1> SUFFICES ASSUME Init PROVE IInv
  OBVIOUS
<1>1. TypeOK
  BY NothingTyped, LicensesAssumption DEF Init, TypeOK
<1>2. \A c \in Calls : call[c].keys = {}
  BY NothingTyped DEF Init
<1>3. \A k \in Licenses : trail[k] = <<>> /\ license[k].hash = NoHash
  BY NothingTyped DEF Init
<1>4. TrailUnbroken
  BY <1>3 DEF TrailUnbroken
<1>5. QED BY <1>1, <1>2, <1>3, <1>4 DEF IInv, CallsKnow, Unissued, HeldByLastReceiver

LEMMA Inductive == IInv /\ [Next]_vars => IInv'
<1> SUFFICES ASSUME IInv, [Next]_vars PROVE IInv'
  OBVIOUS
<1>1. CASE UNCHANGED vars
  <2>1. TypeOK' /\ trail' = trail
    BY <1>1 DEF vars, IInv, TypeOK
  <2>2. (\A k \in Licenses : RowKept(k)) /\ \A c \in Calls : CallKept(c)
    BY <1>1 DEF vars, RowKept, CallKept
  <2>3. QED BY <2>1, <2>2, KeptStep
<1>2. ASSUME NEW c \in Calls, CallStep(c) PROVE IInv'
  <2>1. CASE \E K \in SUBSET Licenses, from, to \in Orgs : Dispatch(c, K, from, to)
    BY <2>1, DispatchStep
  <2>2. CASE CommitDispatch(c)
    BY <2>2, CommitDispatchStep
  <2>3. CASE \E k \in Licenses, h \in Hashes \cup {NoHash} : Activate(c, k, h) \/ Bind(c, k, h)
    BY <2>3, BindStep
  <2>4. CASE \E m \in BOOLEAN : CommitBind(c, m)
    BY <2>4, CommitBindStep
  <2>5. CASE \/ \E o \in Orgs : Login(c, o)
             \/ \E k \in Licenses : FindLicense(c, k)
             \/ Enter(c)
             \/ Drop(c)
    BY <2>5, LoginStep
  <2>6. QED BY <1>2, <2>1, <2>2, <2>3, <2>4, <2>5 DEF CallStep
<1>3. CASE \E K \in SUBSET Licenses, o, t \in Orgs : Issue(K, o, t)
  BY <1>3, IssueStep
<1>4. CASE \E k \in Licenses : \E s \in Statuses : UpdateStatus(k, s)
  BY <1>4, UpdateStatusStep
<1>5. CASE (\E k \in Licenses : ExpiryPasses(k)) \/ CheckExpiries \/ Restart
  BY <1>5, StatusStep
<1>6. QED BY <1>1, <1>2, <1>3, <1>4, <1>5 DEF Next

LEMMA Invariance == Spec => []IInv
BY Initially, Inductive, PTL DEF Spec

-----------------------------------------------------------------------------
\* Every variable has its type.
THEOREM TypesHold == Spec => []TypeOK
BY Invariance, PTL DEF IInv

\* Whatever requests overlap, a license is held and used by the organization
\* its last committed transfer went to.
THEOREM HolderHolds == Spec => []HeldByLastReceiver
BY Invariance, PTL DEF IInv

\* The transfers of a license follow each other from hand to hand, except a
\* transfer that another one crossed between its check and its commit.
THEOREM TrailHolds == Spec => []TrailUnbroken
BY Invariance, PTL DEF IInv

-----------------------------------------------------------------------------
\* Only a binding takes a license from one device to another.
LEMMA OnlyBindingMoves ==
    ASSUME IInv, Next, NEW k \in Licenses,
           license[k].hash # NoHash, license'[k].hash # license[k].hash
    PROVE  \E c \in Calls : /\ call[c].pc \in {"activate", "bind"}
                            /\ k \in call[c].keys /\ call'[c].pc = "idle"
                            /\ ~KeepsHash(call[c]) /\ license'[k].hash = call[c].hash
<1>0. license[k] \in LicenseRows /\ license[k].status # "none" /\ license = [j \in Licenses |-> license[j]]
  BY DEF IInv, TypeOK, Unissued
<1>1. ASSUME NEW c \in Calls, CallStep(c)
      PROVE  \E m \in BOOLEAN : CommitBind(c, m)
  <2>1. ASSUME CommitDispatch(c) PROVE FALSE
    BY <1>0, <2>1 DEF CommitDispatch, LicenseRows
  <2>2. ASSUME Enter(c) PROVE FALSE
    BY <1>0, <2>2 DEF Enter, LicenseRows
  <2>3. ASSUME UNCHANGED license PROVE FALSE
    BY <2>3
  <2>4. QED BY <1>1, <2>1, <2>2, <2>3 DEF CallStep, Dispatch, Activate, Bind, Login, FindLicense, Drop
<1>2. ASSUME NEW K \in SUBSET Licenses, NEW o \in Orgs, NEW t \in Orgs, Issue(K, o, t)
      PROVE  FALSE
  BY <1>0, <1>2 DEF Issue
<1>3. ASSUME NEW j \in Licenses, NEW s \in Statuses, UpdateStatus(j, s) PROVE FALSE
  BY <1>0, <1>3 DEF UpdateStatus, LicenseRows
<1>4. ASSUME NEW j \in Licenses, ExpiryPasses(j) PROVE FALSE
  BY <1>0, <1>4 DEF ExpiryPasses, LicenseRows
<1>5. ASSUME CheckExpiries PROVE FALSE
  BY <1>0, <1>5 DEF CheckExpiries, LicenseRows
<1>6. ASSUME Restart PROVE FALSE
  BY <1>0, <1>6 DEF Restart, Reset, LicenseRows
<1>7. PICK c \in Calls, m \in BOOLEAN : CommitBind(c, m)
  BY <1>1, <1>2, <1>3, <1>4, <1>5, <1>6 DEF Next
<1>8. k \in call[c].keys
  BY <1>0, <1>7 DEF CommitBind
<1>9. license'[k] = Bound(license[k], call[c], m)
  BY <1>7, <1>8 DEF CommitBind
<1>10. ~KeepsHash(call[c]) /\ license'[k].hash = call[c].hash
  BY <1>0, <1>9 DEF Bound, LicenseRows, KeepsHash
<1>11. call'[c].pc = "idle"
  BY <1>7, NothingTyped DEF CommitBind, Committed
<1>12. QED BY <1>7, <1>8, <1>10, <1>11 DEF CommitBind

\* A license moves from one device to another only with an alert for the new
\* one, unless the alert could not be written or another binding came between.
THEOREM AlertsHold == Spec => MovesAlerted
<1>1. ASSUME IInv, [Next]_vars
      PROVE  [\A k \in Licenses : license[k].hash \notin {NoHash, license'[k].hash} =>
                \/ license'[k].hash \in alerts[k]
                \/ \E c \in Calls : /\ k \in call[c].keys /\ call'[c].pc = "idle"
                                    /\ call[c].raced \/ call[c].unlogged]_vars
  <2> SUFFICES ASSUME Next, NEW k \in Licenses, license[k].hash \notin {NoHash, license'[k].hash}
               PROVE  \/ license'[k].hash \in alerts[k]
                      \/ \E c \in Calls : /\ k \in call[c].keys /\ call'[c].pc = "idle"
                                          /\ call[c].raced \/ call[c].unlogged
    BY <1>1
  <2>1. PICK c \in Calls : /\ call[c].pc \in {"activate", "bind"}
                           /\ k \in call[c].keys /\ call'[c].pc = "idle"
                           /\ ~KeepsHash(call[c]) /\ license'[k].hash = call[c].hash
    BY <1>1, OnlyBindingMoves
  <2>2. Knows(c, k)
    BY <1>1, <2>1 DEF IInv, CallsKnow
  <2>3. QED BY <2>1, <2>2 DEF Knows
<1>2. QED BY <1>1, Invariance, PTL DEF Spec, MovesAlerted

\* A revoked license comes back without an administrator only by a restart or
\* by a request that had read the license before it was revoked.
THEOREM RevocationHolds == Spec => RevocationUndone
<1>1. ASSUME IInv, [Next]_vars
      PROVE  [\A k \in Licenses :
                revoked[k] /\ revoked'[k] /\ license[k].status = "REVOKED"
                    /\ license'[k].status # "REVOKED"
                => \/ restarts' > restarts
                   \/ \E c \in Calls : k \in call[c].revoked /\ call'[c].pc = "idle"]_vars
  <2> SUFFICES ASSUME Next, NEW k \in Licenses, revoked'[k], license[k].status = "REVOKED",
                      license'[k].status # "REVOKED"
               PROVE  \/ restarts' > restarts
                      \/ \E c \in Calls : k \in call[c].revoked /\ call'[c].pc = "idle"
    BY <1>1
  <2>0. license[k] \in LicenseRows /\ license = [j \in Licenses |-> license[j]]
        /\ revoked \in [Licenses -> BOOLEAN] /\ restarts \in Nat
    BY <1>1, LicensesAssumption DEF IInv, TypeOK
  <2>1. ASSUME NEW c \in Calls, CallStep(c)
        PROVE  k \in call[c].revoked /\ call'[c].pc = "idle"
    <3>1. ASSUME UNCHANGED license PROVE FALSE
      BY <3>1
    <3>2. CommitDispatch(c) \/ (\E m \in BOOLEAN : CommitBind(c, m)) \/ Enter(c)
      BY <2>1, <3>1 DEF CallStep, Dispatch, Activate, Bind, Login, FindLicense, Drop
    <3>3. k \in call[c].keys
      BY <2>0, <3>2 DEF CommitDispatch, CommitBind, Enter
    <3>4. k \in call[c].revoked
      BY <1>1, <3>3 DEF IInv, CallsKnow, Knows
    <3>5. call'[c].pc = "idle"
      BY <3>2, NothingTyped DEF CommitDispatch, CommitBind, Enter, Committed
    <3>6. QED BY <3>4, <3>5
  <2>2. ASSUME NEW K \in SUBSET Licenses, NEW o \in Orgs, NEW t \in Orgs, Issue(K, o, t)
        PROVE  FALSE
    BY <2>0, <2>2 DEF Issue
  <2>3. ASSUME NEW j \in Licenses, NEW s \in Statuses, UpdateStatus(j, s) PROVE FALSE
    BY <2>0, <2>3 DEF UpdateStatus, LicenseRows
  <2>4. ASSUME NEW j \in Licenses, ExpiryPasses(j) PROVE FALSE
    BY <2>0, <2>4 DEF ExpiryPasses, LicenseRows
  <2>5. ASSUME CheckExpiries PROVE FALSE
    BY <2>0, <2>5 DEF CheckExpiries, LicenseRows
  <2>6. Restart => restarts' > restarts
    BY <2>0 DEF Restart
  <2>7. QED BY <2>1, <2>2, <2>3, <2>4, <2>5, <2>6 DEF Next
<1>2. QED BY <1>1, Invariance, PTL DEF Spec, RevocationUndone
=============================================================================

------------------------------ MODULE OrgTree ------------------------------
(***************************************************************************)
(* The tree of organizations.  Who may see and change an organization is   *)
(* computed from the tree, by reading it: downwards level by level         *)
(* (getDescendantOrgIds), or upwards parent by parent (canAccessOrg).  The *)
(* reads are statements of their own, so the tree may change between them. *)
(***************************************************************************)
EXTENDS Integers, Sequences

CONSTANTS
    Orgs,       \* rows of the organization table, present and future
    NoOrg,      \* the parentId of a root
    Absent,     \* a request that names no parentId
    TreeCalls,  \* requests of users who are not super admins, in flight
    MaxClimb,   \* parents resolveTransferPath reads before it gives up: 20
    MaxChanges  \* bound: rows created and moved

ASSUME OrgTreeAssumption ==
    /\ Orgs # {}
    /\ NoOrg \notin Orgs
    /\ Absent \notin Orgs \cup {NoOrg}
    /\ MaxClimb \in Nat \ {0}
    /\ MaxChanges \in Nat

VARIABLES
    made,       \* organizations that exist (remove only marks a row)
    parent,     \* parentId
    treeCall,   \* requests and what they have read
    changes     \* rows created and moved so far

treeVars == <<made, parent, treeCall, changes>>

\* down: seen is allOrgIds, level is currentLevelIds.  up: level holds
\* currentOrgId, seen what it has been.  undisturbed: the tree has not changed
\* since the request began (nothing reads this but the properties).
\* route: path leads to target; its first element is currentOrgId.
TreeCallStates ==
    [pc: {"idle", "down", "listed", "up", "granted", "refused", "route", "routed"},
     home: Orgs, target: Orgs, seen: SUBSET Orgs, level: SUBSET Orgs,
     path: Seq(Orgs), undisturbed: BOOLEAN]

TypeOK ==
    /\ made \subseteq Orgs
    /\ parent \in [Orgs -> Orgs \cup {NoOrg}]
    /\ treeCall \in [TreeCalls -> TreeCallStates]
    /\ changes \in 0..MaxChanges

AnOrg == CHOOSE o \in Orgs : TRUE
NoRequest == [pc |-> "idle", home |-> AnOrg, target |-> AnOrg, seen |-> {},
              level |-> {}, path |-> <<>>, undisturbed |-> TRUE]

Init ==
    /\ made = {AnOrg}
    /\ parent = [o \in Orgs |-> NoOrg]
    /\ treeCall = [c \in TreeCalls |-> NoRequest]
    /\ changes = 0

-----------------------------------------------------------------------------
\* What the update and create statements write.  c is the request that runs
\* them, if it is one of TreeCalls; the others have now seen an older tree.
WriteParent(o, asked, c) ==
    /\ changes < MaxChanges
    /\ changes' = changes + 1
    /\ parent' = [parent EXCEPT ![o] = IF asked \in Orgs THEN asked ELSE NoOrg]
    /\ treeCall' = [d \in TreeCalls |->
                       IF d = c THEN NoRequest
                       ELSE [treeCall[d] EXCEPT !.undisturbed = FALSE]]

\* update and create by a super admin: no list, no check.
MoveOrg(o, asked) ==
    /\ o \in made
    /\ asked \in made \cup {NoOrg, Absent}
    /\ WriteParent(o, asked, NoOrg)
    /\ UNCHANGED made

CreateOrg(o, asked) ==
    /\ o \notin made
    /\ asked \in made \cup {NoOrg}
    /\ made' = made \cup {o}
    /\ WriteParent(o, asked, NoOrg)

-----------------------------------------------------------------------------
\* getDescendantOrgIds, called first by every request of another user.
StartList(c, home) ==
    /\ treeCall[c].pc = "idle"
    /\ home \in made
    /\ treeCall' = [treeCall EXCEPT ![c] =
           [NoRequest EXCEPT !.pc = "down", !.home = home,
                             !.seen = {home}, !.level = {home}]]
    /\ UNCHANGED <<made, parent, changes>>

Children(level) == {o \in made : parent[o] \in level}

\* Fault: the children are listed, and not theirs.
ListOneLevel(c) ==
    LET r == treeCall[c] IN
    /\ r.pc = "down"
    /\ treeCall' = [treeCall EXCEPT ![c] =
           [r EXCEPT !.pc = "listed", !.seen = @ \cup Children(r.level)]]
    /\ UNCHANGED <<made, parent, changes>>

\* Fault: an empty level is not the end.
ListForever(c) ==
    LET r == treeCall[c] IN
    /\ r.pc = "down"
    /\ Children(r.level) # {}
    /\ treeCall' = [treeCall EXCEPT ![c] =
           [r EXCEPT !.seen = @ \cup Children(r.level), !.level = Children(r.level)]]
    /\ UNCHANGED <<made, parent, changes>>

\* One round of the loop: the children of a level in one statement.  A level
\* is not compared with what has been seen.
ListLevel(c) ==
    LET r == treeCall[c] IN
    /\ r.pc = "down"
    /\ treeCall' = [treeCall EXCEPT ![c] =
           IF Children(r.level) = {}
           THEN [r EXCEPT !.pc = "listed"]
           ELSE [r EXCEPT !.seen = @ \cup Children(r.level), !.level = Children(r.level)]]
    /\ UNCHANGED <<made, parent, changes>>

\* update: the organization and the parent it names are on the list.  An
\* explicit null is refused, but a request that names no parent writes null.
UpdateListed(c, o, asked) ==
    /\ treeCall[c].pc = "listed"
    /\ o \in treeCall[c].seen
    /\ asked \in treeCall[c].seen \cup {Absent}
    /\ WriteParent(o, asked, c)
    /\ UNCHANGED made

\* create: without a parent the user's own organization is the parent.
CreateListed(c, o, asked) ==
    /\ treeCall[c].pc = "listed"
    /\ o \notin made
    /\ asked \in treeCall[c].seen
    /\ made' = made \cup {o}
    /\ WriteParent(o, asked, c)

-----------------------------------------------------------------------------
\* canAccessOrg: the user's own organization is granted at once.
StartClimb(c, home, target) ==
    /\ treeCall[c].pc = "idle"
    /\ {home, target} \subseteq made
    /\ treeCall' = [treeCall EXCEPT ![c] =
           [NoRequest EXCEPT !.pc = IF home = target THEN "granted" ELSE "up",
                             !.home = home, !.target = target,
                             !.seen = {target}, !.level = {target}]]
    /\ UNCHANGED <<made, parent, changes>>

\* Fault: a root below which the user is not is taken for the user's own.
ClimbToRoot(c) ==
    LET r == treeCall[c] IN
    /\ r.pc = "up"
    /\ \E o \in r.level :
          treeCall' = [treeCall EXCEPT ![c] =
              IF parent[o] = NoOrg THEN [r EXCEPT !.pc = "granted"]
              ELSE [r EXCEPT !.level = {parent[o]}, !.seen = @ \cup {parent[o]}]]
    /\ UNCHANGED <<made, parent, changes>>

\* One round of its loop: the parent of the organization reached so far.
ClimbParent(c) ==
    LET r == treeCall[c] IN
    /\ r.pc = "up"
    /\ \E o \in r.level :
          treeCall' = [treeCall EXCEPT ![c] =
              IF parent[o] = NoOrg THEN [r EXCEPT !.pc = "refused"]
              ELSE IF parent[o] = r.home THEN [r EXCEPT !.pc = "granted"]
              ELSE [r EXCEPT !.level = {parent[o]}, !.seen = @ \cup {parent[o]}]]
    /\ UNCHANGED <<made, parent, changes>>

-----------------------------------------------------------------------------
\* resolveTransferPath, called by every transfer from home to target.
StartRoute(c, home, target) ==
    /\ treeCall[c].pc = "idle"
    /\ {home, target} \subseteq made
    /\ treeCall' = [treeCall EXCEPT ![c] =
           [NoRequest EXCEPT !.pc = IF home = target THEN "routed" ELSE "route",
                             !.home = home, !.target = target, !.path = <<target>>]]
    /\ UNCHANGED <<made, parent, changes>>

\* Fault: the parent that is the sender is left out of the path.
RouteToChild(c) ==
    LET r == treeCall[c]
        up == parent[r.path[1]]
    IN
    /\ r.pc = "route"
    /\ treeCall' = [treeCall EXCEPT ![c] =
           IF up = NoOrg \/ Len(r.path) = MaxClimb
           THEN [r EXCEPT !.pc = "routed", !.path = <<r.home, r.target>>]
           ELSE IF up = r.home THEN [r EXCEPT !.pc = "routed"]
           ELSE [r EXCEPT !.path = <<up>> \o @]]
    /\ UNCHANGED <<made, parent, changes>>

\* One round of its loop.  At a root, or after MaxClimb rounds, the transfer
\* goes from the sender to the receiver directly.
RouteParent(c) ==
    LET r == treeCall[c]
        up == parent[r.path[1]]
    IN
    /\ r.pc = "route"
    /\ treeCall' = [treeCall EXCEPT ![c] =
           IF up = NoOrg \/ Len(r.path) = MaxClimb
           THEN [r EXCEPT !.pc = "routed", !.path = <<r.home, r.target>>]
           ELSE [r EXCEPT !.pc = IF up = r.home THEN "routed" ELSE "route",
                          !.path = <<up>> \o @]]
    /\ UNCHANGED <<made, parent, changes>>

-----------------------------------------------------------------------------
\* A request is answered, refused by another check, or lost.
EndRequest(c) ==
    /\ treeCall[c].pc # "idle"
    /\ treeCall' = [treeCall EXCEPT ![c] = NoRequest]
    /\ UNCHANGED <<made, parent, changes>>

-----------------------------------------------------------------------------
Next ==
    \/ \E o \in Orgs, asked \in Orgs \cup {NoOrg, Absent} :
          \/ MoveOrg(o, asked)
          \/ CreateOrg(o, asked)
          \/ \E c \in TreeCalls : UpdateListed(c, o, asked) \/ CreateListed(c, o, asked)
    \/ \E c \in TreeCalls :
          \/ \E home \in Orgs :
                \/ StartList(c, home)
                \/ \E o \in Orgs : StartClimb(c, home, o) \/ StartRoute(c, home, o)
          \/ ListLevel(c)
          \/ ClimbParent(c)
          \/ RouteParent(c)
          \/ EndRequest(c)

vars == treeVars
Spec == Init /\ [][Next]_vars

\* A handler that has started goes on.  No client is obliged to do anything.
Fairness == \A c \in TreeCalls : WF_vars(ListLevel(c) \/ ClimbParent(c) \/ RouteParent(c))
FairSpec == Spec /\ Fairness

-----------------------------------------------------------------------------
\* The organizations below o, o included, without reference to any walk: what
\* every set that holds o and, with each of its members, the children, holds.
ClosedBelow(S) == \A p \in made : parent[p] \in S => p \in S
Subtree(o) == {p \in Orgs : \A S \in SUBSET Orgs : o \in S /\ ClosedBelow(S) => p \in S}

\* getDescendantOrgIds lists exactly the user's tree, unless the tree changed
\* meanwhile.
ListExact ==
    \A c \in TreeCalls :
        treeCall[c].pc = "listed" /\ treeCall[c].undisturbed
            => treeCall[c].seen = Subtree(treeCall[c].home)

\* canAccessOrg, which climbs, decides as the list does.
ClimbExact ==
    \A c \in TreeCalls : treeCall[c].undisturbed =>
        /\ treeCall[c].pc = "granted" => treeCall[c].target \in Subtree(treeCall[c].home)
        /\ treeCall[c].pc = "refused" => treeCall[c].target \notin Subtree(treeCall[c].home)

\* The ancestors of o in a tree, itself the 0th.
Ancestor(tree, o) ==
    LET up[n \in 0..MaxClimb] ==
            IF n = 0 THEN o ELSE IF up[n - 1] = NoOrg THEN NoOrg ELSE tree[up[n - 1]]
    IN up

\* The whole line of descent from home to target, or the two alone if that line
\* is missing or too long.
Descent(tree, home, target) ==
    LET up == Ancestor(tree, target)
        line == {n \in 0..(MaxClimb - 1) : up[n] = home}
        n == CHOOSE k \in line : \A i \in line : k <= i
    IN IF line = {} THEN <<home, target>> ELSE [i \in 1..(n + 1) |-> up[n + 1 - i]]

\* resolveTransferPath always leads from the sender to the receiver; and unless
\* the tree changed meanwhile it is the line of descent between them.
RouteExact ==
    \A c \in TreeCalls :
        LET r == treeCall[c] IN
        r.pc = "routed" =>
            /\ r.path[1] = r.home /\ r.path[Len(r.path)] = r.target
            /\ r.undisturbed => r.path = Descent(parent, r.home, r.target)

\* o is below itself: it is its own parent, or was moved below a child.
OnCycle(o) == \E p \in Subtree(o) : parent[o] = p

\* getDescendantOrgIds and canAccessOrg come to an end, unless they reach a
\* cycle: moves make cycles without a check, and the loops have no other way
\* out.  No other shape of the tree, and no change under way, keeps them busy;
\* resolveTransferPath always ends.
ReadsEnd ==
    \A c \in TreeCalls :
        treeCall[c].pc \in {"down", "up", "route"}
            ~> \/ treeCall[c].pc \notin {"down", "up", "route"}
               \/ \E o \in treeCall[c].level : OnCycle(o)
=============================================================================

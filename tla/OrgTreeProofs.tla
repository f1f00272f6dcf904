--------------------------- MODULE OrgTreeProofs ---------------------------
(***************************************************************************)
(* For any organizations, requests and number of changes: a list of        *)
(* descendants, a decision about access and the path of a transfer are     *)
(* exact, unless the tree changed while they were read.                    *)
(***************************************************************************)
EXTENDS OrgTree, SumLemmas

\* What a climb from target keeps: it is at one organization, which has target
\* below it; the parents of those it has left behind are in seen, home is not.
Climbing(r) ==
    /\ r.target \in r.seen /\ r.home \notin r.seen
    /\ \A v \in r.seen \ r.level : parent[v] \in r.seen
    /\ \A v, w \in r.level : v = w
    /\ \A v \in r.level : r.target \in Subtree(v)

\* What a list keeps: all it has is below home, and what has not been looked
\* up yet are the children of the last level.
Listing(r) ==
    /\ r.home \in r.seen /\ r.seen \subseteq Subtree(r.home)
    /\ Children(r.seen \ r.level) \subseteq r.seen

\* What a route keeps: it is the first ancestors of target, target last, and home
\* is not among them.
Routing(r) ==
    LET up == Ancestor(parent, r.target)
        n == Len(r.path)
    IN
    /\ n <= MaxClimb
    /\ \A i \in 1..n : r.path[i] = up[n - i] /\ up[n - i] # r.home

Exact(r) ==
    /\ r.pc = "route" => Routing(r)
    /\ r.pc = "routed" => r.path = Descent(parent, r.home, r.target)
    /\ r.pc = "down" => Listing(r)
    /\ r.pc = "listed" => r.seen = Subtree(r.home)
    /\ r.pc = "up" => Climbing(r)
    /\ r.pc = "granted" => r.target \in Subtree(r.home)
    /\ r.pc = "refused" => r.target \notin Subtree(r.home)

\* What holds of a request although the tree changes.
Known(r) ==
    /\ r.seen \subseteq made /\ r.level \subseteq r.seen
    /\ r.pc \in {"route", "routed"} => r.path # <<>> /\ r.path[Len(r.path)] = r.target
    /\ r.pc = "routed" => r.path[1] = r.home

Sound(r) == Known(r) /\ (r.undisturbed => Exact(r))

ParentsMade == made \subseteq Orgs /\ \A o \in Orgs : parent[o] \in made \cup {NoOrg}

IInv == TypeOK /\ ParentsMade /\ \A c \in TreeCalls : Sound(treeCall[c])

-----------------------------------------------------------------------------
\* An organization is below itself, and so are the children of those below it.
LEMMA SubtreeClosed ==
    ASSUME NEW o \in Orgs, ParentsMade
    PROVE  /\ o \in Subtree(o)
           /\ \A p \in made : parent[p] \in Subtree(o) => p \in Subtree(o)
<1>1. o \in Subtree(o)
  BY DEF Subtree
<1>2. ASSUME NEW p \in made, parent[p] \in Subtree(o) PROVE p \in Subtree(o)
  BY <1>2 DEF Subtree, ClosedBelow, ParentsMade
<1>3. QED BY <1>1, <1>2

\* A closed set that holds o holds all that is below o.
LEMMA SubtreeLeast ==
    ASSUME NEW o \in Orgs, NEW S \in SUBSET Orgs, o \in S, ClosedBelow(S)
    PROVE  Subtree(o) \subseteq S
BY DEF Subtree

\* An idle request.
LEMMA NoRequestSound ==
    ASSUME ParentsMade
    PROVE  NoRequest \in TreeCallStates /\ Sound(NoRequest)
<1>1. <<>> \in Seq(Orgs) /\ AnOrg \in Orgs
  BY OrgTreeAssumption DEF AnOrg
<1>2. NoRequest \in TreeCallStates
  BY <1>1 DEF NoRequest, TreeCallStates
<1>3. Sound(NoRequest)
  BY DEF Sound, Known, Exact, NoRequest
<1>4. QED BY <1>2, <1>3

\* A step of a request that only reads: what it keeps in its place is sound.
LEMMA RequestReads ==
    ASSUME IInv, NEW c \in TreeCalls, NEW r \in TreeCallStates, Sound(r),
           treeCall' = [treeCall EXCEPT ![c] = r], UNCHANGED <<made, parent, changes>>
    PROVE  IInv'
<1>1. TypeOK'
  BY DEF IInv, TypeOK
<1>2. ParentsMade'
  BY DEF IInv, ParentsMade
<1>3. ASSUME NEW d \in TreeCalls PROVE Sound(treeCall[d])'
  <2>1. /\ treeCall'[d] = IF d = c THEN r ELSE treeCall[d]
        /\ made' = made /\ parent' = parent
    BY DEF IInv, TypeOK
  <2>2. Sound(treeCall[d])
    BY DEF IInv
  <2> DEFINE x == treeCall'[d]
  <2>3. Sound(x)
    BY <2>1, <2>2
  <2> HIDE DEF x
  <2>4. Sound(treeCall[d])' <=> Sound(x)
    BY <2>1 DEF Sound, Known, Exact, Climbing, Listing, Routing, Children, Subtree, ClosedBelow, x
  <2>5. QED BY <2>3, <2>4
<1>6. QED BY <1>1, <1>2, <1>3 DEF IInv

\* A change of the tree.
LEMMA ParentWritten ==
    ASSUME IInv, NEW o \in Orgs, NEW asked, NEW c, WriteParent(o, asked, c),
           asked \in made \cup {NoOrg, Absent},
           made' = made \/ made' = made \cup {o}
    PROVE  IInv'
<1>1. ParentsMade'
  <2>1. (IF asked \in Orgs THEN asked ELSE NoOrg) \in made \cup {NoOrg}
    BY OrgTreeAssumption DEF IInv, TypeOK
  <2>2. parent' = [parent EXCEPT ![o] = IF asked \in Orgs THEN asked ELSE NoOrg]
    BY DEF WriteParent
  <2>3. QED BY <2>1, <2>2 DEF IInv, ParentsMade, TypeOK
<1>2. \A r \in TreeCallStates : [r EXCEPT !.undisturbed = FALSE] \in TreeCallStates
  BY DEF TreeCallStates
<1>3. NoRequest \in TreeCallStates
  BY NoRequestSound DEF IInv
<1>4. treeCall' \in [TreeCalls -> TreeCallStates]
  BY <1>2, <1>3 DEF IInv, TypeOK, WriteParent
<1>5. parent' \in [Orgs -> Orgs \cup {NoOrg}] /\ made' \subseteq Orgs
  BY <1>1 DEF IInv, TypeOK, WriteParent
<1>6. changes' \in 0..MaxChanges
  BY OrgTreeAssumption DEF IInv, TypeOK, WriteParent
<1>7. TypeOK'
  BY <1>4, <1>5, <1>6 DEF TypeOK
<1>8. ASSUME NEW d \in TreeCalls PROVE Sound(treeCall[d])'
  <2>1. CASE d = c
    <3>1. treeCall'[d] = NoRequest
      BY <2>1 DEF WriteParent
    <3>2. QED BY <3>1 DEF Sound, Known, Exact, NoRequest
  <2>2. CASE d # c
    <3>1. treeCall'[d] = [treeCall[d] EXCEPT !.undisturbed = FALSE]
      BY <2>2 DEF WriteParent
    <3>2. treeCall[d] \in TreeCallStates /\ Known(treeCall[d])
      BY DEF IInv, TypeOK, Sound
    <3>3. /\ treeCall'[d].undisturbed = FALSE /\ treeCall'[d].seen = treeCall[d].seen
          /\ treeCall'[d].level = treeCall[d].level /\ treeCall'[d].pc = treeCall[d].pc
          /\ treeCall'[d].path = treeCall[d].path /\ treeCall'[d].home = treeCall[d].home
          /\ treeCall'[d].target = treeCall[d].target
      BY <3>1, <3>2 DEF TreeCallStates
    <3>4. QED BY <3>2, <3>3 DEF Sound, Known
  <2>3. QED BY <2>1, <2>2
<1>9. QED BY <1>1, <1>7, <1>8 DEF IInv

-----------------------------------------------------------------------------
\* A function that lists the first m ancestors of o, and o.
Lists(up, m, tree, o) ==
    up = [n \in 0..m |-> IF n = 0 THEN o
                         ELSE IF up[n - 1] = NoOrg THEN NoOrg ELSE tree[up[n - 1]]]

\* There is one for every m.
LEMMA ListsExist == \A tree, o : \A m \in Nat : \E up : Lists(up, m, tree, o)
<1> SUFFICES ASSUME NEW tree, NEW o PROVE \A m \in Nat : \E up : Lists(up, m, tree, o)
  OBVIOUS
<1> DEFINE P == {m \in Nat : \E up : Lists(up, m, tree, o)}
<1>1. 0 \in P
  <2> DEFINE up == [n \in 0..0 |-> o]
  <2>1. Lists(up, 0, tree, o)
    BY DEF Lists
  <2>2. QED BY <2>1
<1>2. ASSUME NEW m \in Nat, m \in P PROVE m + 1 \in P
  <2>1. PICK up : Lists(up, m, tree, o)
    BY <1>2
  <2> DEFINE next == IF up[m] = NoOrg THEN NoOrg ELSE tree[up[m]]
             more == [n \in 0..(m + 1) |-> IF n = m + 1 THEN next ELSE up[n]]
             e(f, n) == IF n = 0 THEN o ELSE IF f[n - 1] = NoOrg THEN NoOrg ELSE tree[f[n - 1]]
  <2>2. \A n \in 0..m : up[n] = e(up, n)
    BY <2>1 DEF Lists
  <2>3. ASSUME NEW n \in 0..(m + 1) PROVE more[n] = e(more, n)
    <3>1. CASE n = m + 1
      BY <3>1
    <3>2. CASE n # m + 1
      <4>1. n \in 0..m /\ (n # 0 => n - 1 \in 0..m)
        BY <3>2
      <4>2. more[n] = up[n] /\ (n # 0 => more[n - 1] = up[n - 1])
        BY <4>1
      <4> HIDE DEF more
      <4>3. QED BY <2>2, <4>1, <4>2
    <3>3. QED BY <3>1, <3>2
  <2>4. more = [n \in 0..(m + 1) |-> e(more, n)]
    <3>1. more = [n \in 0..(m + 1) |-> more[n]]
      OBVIOUS
    <3> HIDE DEF more, e
    <3>2. QED BY <2>3, <3>1
  <2>5. Lists(more, m + 1, tree, o)
    BY <2>4 DEF Lists
  <2> HIDE DEF more
  <2>6. QED BY <2>5
<1>3. \A m \in Nat : m \in P
  <2> HIDE DEF P
  <2>1. QED BY <1>1, <1>2, NatSetInduction
<1>4. QED BY <1>3

\* What the ancestors of an organization are.
LEMMA AncestorIs ==
    ASSUME NEW tree, NEW o
    PROVE  /\ Ancestor(tree, o)[0] = o
           /\ \A n \in 1..MaxClimb :
                 Ancestor(tree, o)[n] = IF Ancestor(tree, o)[n - 1] = NoOrg THEN NoOrg
                                        ELSE tree[Ancestor(tree, o)[n - 1]]
<1> DEFINE up == CHOOSE f : Lists(f, MaxClimb, tree, o)
<1>1. Lists(up, MaxClimb, tree, o)
  BY ListsExist, OrgTreeAssumption
<1>2. Ancestor(tree, o) = up
  BY DEF Ancestor, Lists
<1> HIDE DEF up
<1>3. \A n \in 0..MaxClimb :
         up[n] = IF n = 0 THEN o ELSE IF up[n - 1] = NoOrg THEN NoOrg ELSE tree[up[n - 1]]
  BY <1>1 DEF Lists
<1>4. 0 \in 0..MaxClimb
  BY OrgTreeAssumption
<1>5. QED BY <1>2, <1>3, <1>4, OrgTreeAssumption

\* Above a root there is nothing.
LEMMA NothingAbove ==
    ASSUME NEW tree, NEW o, NEW k \in 0..MaxClimb, Ancestor(tree, o)[k] = NoOrg
    PROVE  \A n \in k..MaxClimb : Ancestor(tree, o)[n] = NoOrg
<1> DEFINE up == Ancestor(tree, o)
           P == {n \in Nat : k + n <= MaxClimb => up[k + n] = NoOrg}
<1>1. 0 \in P
  OBVIOUS
<1>2. ASSUME NEW n \in Nat, n \in P PROVE n + 1 \in P
  <2>1. SUFFICES ASSUME k + (n + 1) <= MaxClimb PROVE up[k + (n + 1)] = NoOrg
    OBVIOUS
  <2>2. up[k + n] = NoOrg
    BY <1>2, <2>1, OrgTreeAssumption
  <2>3. k + (n + 1) \in 1..MaxClimb /\ (k + (n + 1)) - 1 = k + n
    BY <2>1, OrgTreeAssumption
  <2>4. QED BY <2>2, <2>3, AncestorIs
<1>3. \A n \in Nat : n \in P
  <2> HIDE DEF P
  <2>1. QED BY <1>1, <1>2, NatSetInduction
<1>4. ASSUME NEW n \in k..MaxClimb PROVE up[n] = NoOrg
  <2>1. n - k \in Nat /\ k + (n - k) = n /\ n <= MaxClimb
    BY OrgTreeAssumption
  <2>2. n - k \in P
    BY <1>3, <2>1
  <2>3. QED BY <2>1, <2>2
<1>5. QED BY <1>4

\* The line of descent when home is the n-th ancestor and none before it.
LEMMA DescentFound ==
    ASSUME NEW tree, NEW home, NEW target, NEW n \in 0..(MaxClimb - 1),
           Ancestor(tree, target)[n] = home,
           \A i \in 0..(n - 1) : Ancestor(tree, target)[i] # home
    PROVE  Descent(tree, home, target) = [i \in 1..(n + 1) |-> Ancestor(tree, target)[n + 1 - i]]
<1> DEFINE up == Ancestor(tree, target)
           line == {k \in 0..(MaxClimb - 1) : up[k] = home}
           first == CHOOSE k \in line : \A i \in line : k <= i
<1>1. Descent(tree, home, target) = IF line = {} THEN <<home, target>>
                                    ELSE [i \in 1..(first + 1) |-> up[first + 1 - i]]
  BY DEF Descent
<1>2. n \in line /\ \A i \in line : n <= i
  <2>1. \A i \in line : ~(i < n)
    BY OrgTreeAssumption
  <2>2. QED BY <2>1, OrgTreeAssumption
<1>3. \A k \in line : k \in Int
  OBVIOUS
<1> HIDE DEF line, up
<1>4. \A k \in line : (\A i \in line : k <= i) => k = n
  BY <1>2, <1>3
<1>5. first = n
  BY <1>2, <1>4
<1>6. QED BY <1>1, <1>2, <1>5 DEF up

-----------------------------------------------------------------------------
LEMMA InitIInv == Init => IInv
<1> SUFFICES ASSUME Init PROVE IInv
  OBVIOUS
<1>1. AnOrg \in Orgs
  BY OrgTreeAssumption DEF AnOrg
<1>2. ParentsMade
  BY <1>1 DEF ParentsMade, Init
<1>3. NoRequest \in TreeCallStates /\ Sound(NoRequest)
  BY <1>2, NoRequestSound
<1>4. TypeOK
  BY <1>1, <1>3, OrgTreeAssumption DEF TypeOK, Init
<1>5. QED BY <1>2, <1>3, <1>4 DEF IInv, Init

\* A list starts with the user's organization, whose children are still to be
\* looked up.
LEMMA StartListStep ==
    ASSUME IInv, NEW c \in TreeCalls, NEW home \in Orgs, StartList(c, home)
    PROVE  IInv'
<1> DEFINE r == [NoRequest EXCEPT !.pc = "down", !.home = home,
                                  !.seen = {home}, !.level = {home}]
<1>1. home \in made /\ NoRequest \in TreeCallStates /\ home \in Subtree(home)
  BY NoRequestSound, SubtreeClosed DEF IInv, StartList
<1>2. /\ r \in TreeCallStates /\ r.pc = "down" /\ r.home = home /\ r.seen = {home}
      /\ r.level = {home}
  BY <1>1 DEF TreeCallStates, NoRequest
<1>3. treeCall' = [treeCall EXCEPT ![c] = r] /\ UNCHANGED <<made, parent, changes>>
  BY DEF StartList
<1> HIDE DEF r
<1>4. Children(r.seen \ r.level) = {}
  BY <1>2 DEF Children
<1>5. Sound(r)
  BY <1>1, <1>2, <1>4 DEF Sound, Known, Exact, Listing
<1>6. QED BY <1>2, <1>3, <1>5, RequestReads

\* A round of the list adds the children of a level, all below home.  When a
\* level has none, what is seen is closed, and so is all that is below home.
LEMMA ListLevelStep ==
    ASSUME IInv, NEW c \in TreeCalls, ListLevel(c)
    PROVE  IInv'
<1> DEFINE q == treeCall[c]
           r == IF Children(q.level) = {} THEN [q EXCEPT !.pc = "listed"]
                ELSE [q EXCEPT !.seen = @ \cup Children(q.level), !.level = Children(q.level)]
<1>1. q \in TreeCallStates /\ Sound(q) /\ q.pc = "down" /\ ParentsMade
  BY DEF IInv, TypeOK, ListLevel
<1>2. treeCall' = [treeCall EXCEPT ![c] = r] /\ UNCHANGED <<made, parent, changes>>
  BY DEF ListLevel
<1>3. q.seen \subseteq made /\ q.level \subseteq q.seen /\ Children(q.level) \subseteq made
  BY <1>1 DEF Sound, Known, Children
<1>4. q.home \in Orgs /\ made \subseteq Orgs
  BY <1>1 DEF TreeCallStates, ParentsMade
<1> HIDE DEF q
<1>5. CASE Children(q.level) = {}
  <2>1. /\ r \in TreeCallStates /\ r.pc = "listed" /\ r.home = q.home /\ r.seen = q.seen
        /\ r.level = q.level /\ r.undisturbed = q.undisturbed
    BY <1>1, <1>5 DEF TreeCallStates
  <2>2. ASSUME q.undisturbed PROVE q.seen = Subtree(q.home)
    <3>1. Listing(q)
      BY <1>1, <2>2 DEF Sound, Exact
    <3>2. ClosedBelow(q.seen)
      BY <3>1, <1>5 DEF ClosedBelow, Listing, Children
    <3>3. Subtree(q.home) \subseteq q.seen
      BY <3>1, <3>2, <1>3, <1>4, SubtreeLeast DEF Listing
    <3>4. QED BY <3>1, <3>3 DEF Listing
  <2> HIDE DEF r
  <2>3. Sound(r)
    BY <1>3, <2>1, <2>2 DEF Sound, Known, Exact
  <2>4. QED BY <1>2, <2>1, <2>3, RequestReads
<1>6. CASE Children(q.level) # {}
  <2>1. /\ r \in TreeCallStates /\ r.pc = "down" /\ r.home = q.home
        /\ r.seen = q.seen \cup Children(q.level) /\ r.level = Children(q.level)
        /\ r.undisturbed = q.undisturbed
    BY <1>1, <1>3, <1>4, <1>6 DEF TreeCallStates
  <2> HIDE DEF r
  <2>2. ASSUME q.undisturbed PROVE Listing(r)
    <3>1. Listing(q)
      BY <1>1, <2>2 DEF Sound, Exact
    <3>2. Children(q.level) \subseteq Subtree(q.home)
      BY <3>1, <1>1, <1>3, <1>4, SubtreeClosed DEF Listing, Children
    <3>3. Children(r.seen \ r.level) \subseteq r.seen
      BY <3>1, <2>1 DEF Listing, Children
    <3>4. QED BY <3>1, <3>2, <3>3, <2>1 DEF Listing
  <2>3. Sound(r)
    BY <1>3, <2>1, <2>2 DEF Sound, Known, Exact
  <2>4. QED BY <1>2, <2>1, <2>3, RequestReads
<1>7. QED BY <1>5, <1>6

\* A climb starts at target, with nothing left behind.
LEMMA StartClimbStep ==
    ASSUME IInv, NEW c \in TreeCalls, NEW home \in Orgs, NEW target \in Orgs,
           StartClimb(c, home, target)
    PROVE  IInv'
<1> DEFINE r == [NoRequest EXCEPT !.pc = IF home = target THEN "granted" ELSE "up",
                                  !.home = home, !.target = target,
                                  !.seen = {target}, !.level = {target}]
<1>1. target \in made /\ NoRequest \in TreeCallStates /\ target \in Subtree(target)
  BY NoRequestSound, SubtreeClosed DEF IInv, StartClimb
<1>2. /\ r \in TreeCallStates /\ r.pc = IF home = target THEN "granted" ELSE "up"
      /\ r.home = home /\ r.target = target /\ r.seen = {target} /\ r.level = {target}
  BY <1>1 DEF TreeCallStates, NoRequest
<1>3. treeCall' = [treeCall EXCEPT ![c] = r] /\ UNCHANGED <<made, parent, changes>>
  BY DEF StartClimb
<1> HIDE DEF r
<1>4. r.pc = "up" => Climbing(r)
  BY <1>1, <1>2 DEF Climbing
<1>5. Sound(r)
  BY <1>1, <1>2, <1>4 DEF Sound, Known, Exact
<1>6. QED BY <1>2, <1>3, <1>5, RequestReads

\* A round of the climb.  If the parent is home, the organization reached is
\* below home and target below it.  If there is no parent, no organization
\* climbed through has a parent outside them, so the others are closed: home is
\* one of the others, target is not.
LEMMA ClimbParentStep ==
    ASSUME IInv, NEW c \in TreeCalls, ClimbParent(c)
    PROVE  IInv'
<1> DEFINE q == treeCall[c]
<1>1. q \in TreeCallStates /\ Sound(q) /\ q.pc = "up" /\ ParentsMade
  BY DEF IInv, TypeOK, ClimbParent
<1>2. /\ q.seen \subseteq made /\ q.level \subseteq q.seen /\ made \subseteq Orgs
      /\ q.home \in Orgs /\ q.target \in Orgs
  BY <1>1 DEF Sound, Known, TreeCallStates, ParentsMade
<1>3. PICK o \in q.level :
          treeCall' = [treeCall EXCEPT ![c] =
              IF parent[o] = NoOrg THEN [q EXCEPT !.pc = "refused"]
              ELSE IF parent[o] = q.home THEN [q EXCEPT !.pc = "granted"]
              ELSE [q EXCEPT !.level = {parent[o]}, !.seen = @ \cup {parent[o]}]]
  BY DEF ClimbParent
<1>4. UNCHANGED <<made, parent, changes>>
  BY DEF ClimbParent
<1>5. o \in made /\ parent[o] \in made \cup {NoOrg}
  BY <1>1, <1>2 DEF ParentsMade
<1>6. q.undisturbed => Climbing(q)
  BY <1>1 DEF Sound, Exact
<1> HIDE DEF q
<1>7. CASE parent[o] = NoOrg
  <2> DEFINE r == [q EXCEPT !.pc = "refused"]
  <2>1. treeCall' = [treeCall EXCEPT ![c] = r]
    BY <1>3, <1>7
  <2>2. /\ r \in TreeCallStates /\ r.pc = "refused" /\ r.home = q.home /\ r.target = q.target
        /\ r.seen = q.seen /\ r.level = q.level /\ r.undisturbed = q.undisturbed
    BY <1>1 DEF TreeCallStates
  <2> HIDE DEF r
  <2>3. ASSUME q.undisturbed PROVE q.target \notin Subtree(q.home)
    <3>1. Climbing(q)
      BY <1>6, <2>3
    <3>2. \A v \in q.seen : parent[v] \in q.seen \cup {NoOrg}
      BY <3>1, <1>7 DEF Climbing
    <3>3. ClosedBelow(Orgs \ q.seen)
      BY <3>2, <1>2, OrgTreeAssumption DEF ClosedBelow
    <3>4. q.home \in Orgs \ q.seen /\ Orgs \ q.seen \in SUBSET Orgs
      BY <3>1, <1>2 DEF Climbing
    <3>5. Subtree(q.home) \subseteq Orgs \ q.seen
      BY <3>3, <3>4, <1>2, SubtreeLeast
    <3>6. QED BY <3>1, <3>5 DEF Climbing
  <2>4. Sound(r)
    BY <1>2, <2>2, <2>3 DEF Sound, Known, Exact
  <2>5. QED BY <1>4, <2>1, <2>2, <2>4, RequestReads
<1>8. CASE parent[o] # NoOrg /\ parent[o] = q.home
  <2> DEFINE r == [q EXCEPT !.pc = "granted"]
  <2>1. treeCall' = [treeCall EXCEPT ![c] = r]
    BY <1>3, <1>8
  <2>2. /\ r \in TreeCallStates /\ r.pc = "granted" /\ r.home = q.home /\ r.target = q.target
        /\ r.seen = q.seen /\ r.level = q.level /\ r.undisturbed = q.undisturbed
    BY <1>1 DEF TreeCallStates
  <2> HIDE DEF r
  <2>3. ASSUME q.undisturbed PROVE q.target \in Subtree(q.home)
    <3>1. q.target \in Subtree(o)
      BY <1>6, <2>3 DEF Climbing
    <3>2. ASSUME NEW S \in SUBSET Orgs, q.home \in S, ClosedBelow(S) PROVE q.target \in S
      <4>1. o \in S
        BY <3>2, <1>5, <1>8 DEF ClosedBelow
      <4>2. QED BY <3>1, <3>2, <4>1 DEF Subtree
    <3>3. QED BY <3>2, <1>2 DEF Subtree
  <2>4. Sound(r)
    BY <1>2, <2>2, <2>3 DEF Sound, Known, Exact
  <2>5. QED BY <1>4, <2>1, <2>2, <2>4, RequestReads
<1>9. CASE parent[o] # NoOrg /\ parent[o] # q.home
  <2> DEFINE r == [q EXCEPT !.level = {parent[o]}, !.seen = @ \cup {parent[o]}]
  <2>1. treeCall' = [treeCall EXCEPT ![c] = r]
    BY <1>3, <1>9
  <2>2. /\ r \in TreeCallStates /\ r.pc = "up" /\ r.home = q.home /\ r.target = q.target
        /\ r.seen = q.seen \cup {parent[o]} /\ r.level = {parent[o]}
        /\ r.undisturbed = q.undisturbed
    BY <1>1, <1>2, <1>5, <1>9 DEF TreeCallStates
  <2> HIDE DEF r
  <2>3. parent[o] \in made /\ parent[o] \in Orgs
    BY <1>2, <1>5, <1>9
  <2>4. ASSUME q.undisturbed PROVE Climbing(r)
    <3>1. Climbing(q)
      BY <1>6, <2>4
    <3>2. \A v \in r.seen \ r.level : parent[v] \in r.seen
      BY <3>1, <2>2 DEF Climbing
    <3>3. o \in Subtree(parent[o])
      BY <1>1, <1>5, <2>3, SubtreeClosed
    <3>4. q.target \in Subtree(parent[o])
      BY <3>1, <3>3, <1>2 DEF Climbing, Subtree
    <3>5. QED BY <3>1, <3>2, <3>4, <2>2, <1>9 DEF Climbing
  <2>5. Sound(r)
    BY <1>2, <2>2, <2>3, <2>4 DEF Sound, Known, Exact
  <2>6. QED BY <1>4, <2>1, <2>2, <2>5, RequestReads
<1>10. QED BY <1>7, <1>8, <1>9

\* A route begins with target alone, and ends there if that is home.
LEMMA StartRouteStep ==
    ASSUME IInv, NEW c \in TreeCalls, NEW home \in Orgs, NEW target \in Orgs,
           StartRoute(c, home, target)
    PROVE  IInv'
<1> DEFINE r == [NoRequest EXCEPT !.pc = IF home = target THEN "routed" ELSE "route",
                                  !.home = home, !.target = target, !.path = <<target>>]
<1>1. NoRequest \in TreeCallStates /\ <<target>> \in Seq(Orgs) /\ <<target>> # <<>>
      /\ Len(<<target>>) = 1 /\ <<target>>[1] = target
  BY NoRequestSound DEF IInv
<1>2. /\ r \in TreeCallStates /\ r.pc = IF home = target THEN "routed" ELSE "route"
      /\ r.path = <<target>> /\ r.home = home /\ r.target = target
      /\ r.seen = {} /\ r.level = {}
  BY <1>1 DEF TreeCallStates, NoRequest
<1>3. treeCall' = [treeCall EXCEPT ![c] = r] /\ UNCHANGED <<made, parent, changes>>
  BY DEF StartRoute
<1> HIDE DEF r
<1>4. Known(r)
  BY <1>1, <1>2 DEF Known
<1> DEFINE up == Ancestor(parent, target)
<1>5. up[0] = target
  BY AncestorIs
<1>6. ASSUME r.pc = "route" PROVE Routing(r)
  <2>1. Len(r.path) = 1 /\ r.path[1] = target /\ target # home
    BY <1>1, <1>2, <1>6
  <2>2. \A i \in 1..1 : r.path[i] = up[1 - i] /\ up[1 - i] # home
    BY <1>5, <2>1
  <2>3. QED BY <1>2, <2>1, <2>2, OrgTreeAssumption DEF Routing
<1>7. ASSUME r.pc = "routed" PROVE r.path = Descent(parent, home, target)
  <2> DEFINE n == 0
  <2>1. home = target /\ n \in 0..(MaxClimb - 1) /\ up[n] = home
    BY <1>2, <1>5, <1>7, OrgTreeAssumption
  <2>2. \A i \in 0..(n - 1) : up[i] # home
    OBVIOUS
  <2>3. Descent(parent, home, target) = [i \in 1..(n + 1) |-> up[n + 1 - i]]
    <3> HIDE DEF n
    <3>1. QED BY <2>1, <2>2, DescentFound
  <2> HIDE DEF up
  <2>4. [i \in 1..(n + 1) |-> up[n + 1 - i]] = <<target>>
    BY <1>5
  <2>5. QED BY <1>2, <2>3, <2>4
<1>8. Sound(r)
  BY <1>2, <1>4, <1>6, <1>7 DEF Sound, Exact
<1>9. QED BY <1>2, <1>3, <1>8, RequestReads

\* A round of the route puts the next ancestor before those it has.  If that is
\* home the line is complete; if there is none, or no room for it, home is not
\* on the line.
LEMMA RouteParentStep ==
    ASSUME IInv, NEW c \in TreeCalls, RouteParent(c)
    PROVE  IInv'
<1> DEFINE q == treeCall[c]
           next == parent[q.path[1]]
           m == Len(q.path)
           up == Ancestor(parent, q.target)
<1>1. q \in TreeCallStates /\ Sound(q) /\ q.pc = "route"
  BY DEF IInv, TypeOK, RouteParent
<1>2. treeCall' = [treeCall EXCEPT ![c] =
           IF next = NoOrg \/ m = MaxClimb
           THEN [q EXCEPT !.pc = "routed", !.path = <<q.home, q.target>>]
           ELSE [q EXCEPT !.pc = IF next = q.home THEN "routed" ELSE "route",
                          !.path = <<next>> \o @]]
      /\ UNCHANGED <<made, parent, changes>>
  BY DEF RouteParent
<1>3. q.path \in Seq(Orgs) /\ q.path # <<>> /\ q.home \in Orgs /\ q.target \in Orgs
      /\ q.path[Len(q.path)] = q.target /\ q.seen \subseteq made /\ q.level \subseteq q.seen
  BY <1>1 DEF TreeCallStates, Sound, Known
<1>4. q.path[1] \in Orgs /\ m \in Nat \ {0}
  BY <1>3
<1>5. next \in Orgs \cup {NoOrg}
  BY <1>4 DEF IInv, TypeOK
<1>6. ASSUME q.undisturbed
      PROVE  /\ m <= MaxClimb
             /\ \A i \in 1..m : q.path[i] = up[m - i] /\ up[m - i] # q.home
             /\ up[m] = next
  <2>1. Routing(q)
    BY <1>1, <1>6 DEF Sound, Exact
  <2>2. m <= MaxClimb /\ \A i \in 1..m : q.path[i] = up[m - i] /\ up[m - i] # q.home
    BY <2>1 DEF Routing
  <2>3. q.path[1] = up[m - 1]
    BY <1>4, <2>2
  <2>4. m \in 1..MaxClimb
    BY <1>4, <2>2, OrgTreeAssumption
  <2>5. up[m - 1] # NoOrg
    BY <1>4, <2>3, OrgTreeAssumption
  <2>6. QED BY <2>2, <2>3, <2>4, <2>5, AncestorIs
<1> HIDE DEF q, next, m
<1>7. ASSUME q.undisturbed PROVE \A i \in 0..(m - 1) : up[i] # q.home
  <2>1. SUFFICES ASSUME NEW i \in 0..(m - 1) PROVE up[i] # q.home
    OBVIOUS
  <2>2. m - i \in 1..m /\ m - (m - i) = i
    BY <1>4
  <2> HIDE DEF up
  <2>3. QED BY <1>6, <1>7, <2>2
<1>8. CASE next = NoOrg \/ m = MaxClimb
  <2> DEFINE r == [q EXCEPT !.pc = "routed", !.path = <<q.home, q.target>>]
  <2>1. treeCall' = [treeCall EXCEPT ![c] = r]
    BY <1>2, <1>8
  <2>2. <<q.home, q.target>> \in Seq(Orgs) /\ <<q.home, q.target>> # <<>>
        /\ Len(<<q.home, q.target>>) = 2
    BY <1>3
  <2>3. /\ r \in TreeCallStates /\ r.pc = "routed" /\ r.path = <<q.home, q.target>>
        /\ r.home = q.home /\ r.target = q.target /\ r.seen = q.seen /\ r.level = q.level
        /\ r.undisturbed = q.undisturbed
    BY <1>1, <2>2 DEF TreeCallStates
  <2> HIDE DEF r
  <2>4. Known(r)
    BY <1>3, <2>2, <2>3 DEF Known
  <2>5. ASSUME q.undisturbed PROVE r.path = Descent(parent, r.home, r.target)
    <3>1. \A i \in 0..(MaxClimb - 1) : up[i] # q.home
      <4>1. SUFFICES ASSUME NEW i \in 0..(MaxClimb - 1), ~(i <= m - 1) PROVE up[i] # q.home
        BY <1>4, <1>7, <2>5
      <4>2. next = NoOrg /\ m \in 0..MaxClimb /\ i \in m..MaxClimb
        BY <1>4, <1>6, <1>8, <2>5, <4>1, OrgTreeAssumption
      <4>3. up[i] = NoOrg
        BY <1>6, <2>5, <4>2, NothingAbove
      <4>4. QED BY <1>3, <4>3, OrgTreeAssumption
    <3>2. {i \in 0..(MaxClimb - 1) : up[i] = q.home} = {}
      BY <3>1
    <3>3. Descent(parent, q.home, q.target) = <<q.home, q.target>>
      BY <3>2 DEF Descent
    <3>4. QED BY <2>3, <3>3
  <2>6. Sound(r)
    BY <2>3, <2>4, <2>5 DEF Sound, Exact
  <2>7. QED BY <1>2, <2>1, <2>3, <2>6, RequestReads
<1>9. CASE ~(next = NoOrg \/ m = MaxClimb)
  <2> DEFINE p == <<next>> \o q.path
             r == [q EXCEPT !.pc = IF next = q.home THEN "routed" ELSE "route", !.path = p]
  <2>1. treeCall' = [treeCall EXCEPT ![c] = r]
    BY <1>2, <1>9
  <2>2. next \in Orgs
    BY <1>5, <1>9
  <2>3. /\ p \in Seq(Orgs) /\ Len(p) = m + 1 /\ p # <<>> /\ p[1] = next
        /\ \A i \in 2..(m + 1) : p[i] = q.path[i - 1]
    BY <1>3, <2>2 DEF m
  <2> HIDE DEF p
  <2>4. /\ r \in TreeCallStates /\ r.pc = (IF next = q.home THEN "routed" ELSE "route")
        /\ r.path = p /\ r.home = q.home /\ r.target = q.target /\ r.seen = q.seen
        /\ r.level = q.level /\ r.undisturbed = q.undisturbed
    BY <1>1, <2>3 DEF TreeCallStates
  <2> HIDE DEF r
  <2>5. p[m + 1] = q.target
    BY <1>3, <1>4, <2>3 DEF m
  <2>6. Known(r)
    BY <1>3, <2>3, <2>4, <2>5 DEF Known
  <2>7. ASSUME q.undisturbed
        PROVE  m + 1 <= MaxClimb /\ \A i \in 1..(m + 1) : p[i] = up[(m + 1) - i]
    <3>1. m + 1 <= MaxClimb
      BY <1>4, <1>6, <1>9, <2>7, OrgTreeAssumption
    <3>2. ASSUME NEW i \in 1..(m + 1) PROVE p[i] = up[(m + 1) - i]
      <4> HIDE DEF up
      <4>1. CASE i = 1
        <5>1. (m + 1) - 1 = m
          BY <1>4
        <5>2. QED BY <1>6, <2>3, <2>7, <4>1, <5>1
      <4>2. CASE i # 1
        <5>1. i \in 2..(m + 1) /\ i - 1 \in 1..m /\ m - (i - 1) = (m + 1) - i
          BY <1>4, <4>2
        <5>2. p[i] = q.path[i - 1] /\ q.path[i - 1] = up[m - (i - 1)]
          BY <1>6, <2>3, <2>7, <5>1
        <5>3. QED BY <5>1, <5>2
      <4>3. QED BY <4>1, <4>2
    <3>3. QED BY <3>1, <3>2
  <2>8. ASSUME q.undisturbed, next # q.home PROVE Routing(r)
    <3>1. ASSUME NEW i \in 1..(m + 1) PROVE up[(m + 1) - i] # q.home
      <4> HIDE DEF up
      <4>1. (m + 1) - i = m \/ (m + 1) - i \in 0..(m - 1)
        BY <1>4
      <4>2. QED BY <1>6, <1>7, <2>8, <4>1
    <3>2. QED BY <2>3, <2>4, <2>7, <2>8, <3>1 DEF Routing
  <2>9. ASSUME q.undisturbed, next = q.home PROVE p = Descent(parent, q.home, q.target)
    <3>1. m \in 0..(MaxClimb - 1) /\ up[m] = q.home
      BY <1>4, <1>6, <2>7, <2>9, OrgTreeAssumption
    <3>2. Descent(parent, q.home, q.target) = [i \in 1..(m + 1) |-> up[m + 1 - i]]
      BY <1>7, <2>9, <3>1, DescentFound
    <3>3. p = [i \in 1..(m + 1) |-> p[i]]
      BY <2>3
    <3>4. \A i \in 1..(m + 1) : p[i] = up[m + 1 - i]
      <4>1. \A i \in 1..(m + 1) : p[i] = up[(m + 1) - i]
        BY <2>7, <2>9
      <4>2. \A i \in 1..(m + 1) : (m + 1) - i = m + 1 - i
        BY <1>4
      <4> HIDE DEF up
      <4>3. QED BY <4>1, <4>2
    <3> DEFINE e(i) == up[m + 1 - i]
    <3>5. \A i \in 1..(m + 1) : p[i] = e(i)
      BY <3>4
    <3>6. p = [i \in 1..(m + 1) |-> e(i)]
      <4> HIDE DEF e
      <4>1. QED BY <3>3, <3>5
    <3>7. QED BY <3>2, <3>6
  <2>10. Sound(r)
    BY <2>4, <2>6, <2>8, <2>9 DEF Sound, Exact
  <2>11. QED BY <1>2, <2>1, <2>4, <2>10, RequestReads
<1>10. QED BY <1>8, <1>9

-----------------------------------------------------------------------------
\* What a request that has a list names is an organization that exists.
LEMMA ListedStep ==
    ASSUME IInv, NEW c \in TreeCalls, NEW o \in Orgs, NEW asked,
           UpdateListed(c, o, asked) \/ CreateListed(c, o, asked)
    PROVE  IInv'
<1>1. treeCall[c].seen \subseteq made
  BY DEF IInv, Sound, Known
<1>2. CASE UpdateListed(c, o, asked)
  BY <1>1, <1>2, ParentWritten DEF UpdateListed
<1>3. CASE CreateListed(c, o, asked)
  BY <1>1, <1>3, ParentWritten DEF CreateListed
<1>4. QED BY <1>2, <1>3

LEMMA NextIInv == IInv /\ [Next]_vars => IInv'
<1> SUFFICES ASSUME IInv, [Next]_vars PROVE IInv'
  OBVIOUS
<1>1. ASSUME NEW o \in Orgs, NEW asked, MoveOrg(o, asked) PROVE IInv'
  BY <1>1, ParentWritten DEF MoveOrg
<1>2. ASSUME NEW o \in Orgs, NEW asked, CreateOrg(o, asked) PROVE IInv'
  BY <1>2, ParentWritten DEF CreateOrg
<1>3. ASSUME NEW c \in TreeCalls, EndRequest(c) PROVE IInv'
  <2>1. NoRequest \in TreeCallStates /\ Sound(NoRequest)
    BY NoRequestSound DEF IInv
  <2>2. treeCall' = [treeCall EXCEPT ![c] = NoRequest] /\ UNCHANGED <<made, parent, changes>>
    BY <1>3 DEF EndRequest
  <2>3. QED BY <2>1, <2>2, RequestReads
<1>4. ASSUME UNCHANGED vars PROVE IInv'
  <2>1. UNCHANGED <<made, parent, treeCall, changes>>
    BY <1>4 DEF vars, treeVars
  <2>2. QED BY <2>1 DEF IInv, TypeOK, ParentsMade, Sound, Known, Exact, Climbing, Listing,
                        Routing, Children, Subtree, ClosedBelow
<1>5. QED
  BY <1>1, <1>2, <1>3, <1>4, ListedStep, StartListStep, StartClimbStep, StartRouteStep,
     ListLevelStep, ClimbParentStep, RouteParentStep DEF Next

-----------------------------------------------------------------------------
\* The invariant of the tree and of what the requests have read of it.
THEOREM InvariantHolds == Spec => []IInv
BY InitIInv, NextIInv, PTL DEF Spec

\* Every value has its type, whatever the number of organizations.
THEOREM TypesHold == Spec => []TypeOK
<1>1. IInv => TypeOK
  BY DEF IInv
<1>2. QED BY <1>1, InvariantHolds, PTL

\* getDescendantOrgIds returns the user's organization and all that is below
\* it, and nothing else, in any tree, cycles included, that does not change
\* while it is read.
THEOREM ListHolds == Spec => []ListExact
<1>1. IInv => ListExact
  BY DEF IInv, Sound, Exact, ListExact
<1>2. QED BY <1>1, InvariantHolds, PTL

\* canAccessOrg grants what is below the user's organization and refuses what
\* is not, in any tree that does not change while it climbs.
THEOREM ClimbHolds == Spec => []ClimbExact
<1>1. IInv => ClimbExact
  BY DEF IInv, Sound, Exact, ClimbExact
<1>2. QED BY <1>1, InvariantHolds, PTL

\* resolveTransferPath leads from the sender to the receiver, along the line of
\* descent between them in any tree that does not change while it is read.
THEOREM RouteHolds == Spec => []RouteExact
<1>1. IInv => RouteExact
  BY DEF IInv, Sound, Known, Exact, RouteExact
<1>2. QED BY <1>1, InvariantHolds, PTL
=============================================================================

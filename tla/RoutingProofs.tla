---------------------------- MODULE RoutingProofs ----------------------------
(***************************************************************************)
(* Proofs about the routing of an application (module Routing), as a part  *)
(* of Applications: for any hosts, paths and number of groups, the list    *)
(* that add_handlers keeps has the most precise rule for a request first.  *)
(***************************************************************************)
EXTENDS Applications, FiniteSetTheorems, SequenceTheorems, WellFoundedInduction, TLAPS

-----------------------------------------------------------------------------
(* The list of groups: gs are the groups as they were added, hs the list.  *)

Group == [host : Hosts \cup {Route!Wildcard}, paths : Route!Rules]

\* At most one group was added for any host.
OneAny(gs) ==
  \A i, j \in 1 .. Len(gs) :
    gs[i].host = Route!Wildcard /\ gs[j].host = Route!Wildcard => i = j

\* A group for any host has no group behind it, and the others come as added.
Ordered(gs, hs) ==
  \A k, l \in 1 .. Len(hs) : k < l =>
    /\ gs[hs[k]].host # Route!Wildcard
    /\ gs[hs[l]].host # Route!Wildcard => hs[k] < hs[l]

\* Every group is in the list, and nothing else is.
Listed(gs, hs) ==
  /\ gs \in Seq(Group) /\ hs \in Seq(Nat)
  /\ \A k \in 1 .. Len(hs) : hs[k] \in 1 .. Len(gs)
  /\ \A i \in 1 .. Len(gs) : \E k \in 1 .. Len(hs) : hs[k] = i

ListInv == Listed(groups, handlers) /\ (OneAny(groups) => Ordered(groups, handlers))

\* At first there is nothing.
LEMMA ListInit ==
  ASSUME Route!Init
  PROVE  ListInv
<1>1. groups = <<>> /\ handlers = <<>>
  BY DEF Route!Init
<1>2. /\ groups \in Seq(Group) /\ handlers \in Seq(Nat)
      /\ 1 .. Len(groups) = {} /\ 1 .. Len(handlers) = {}
  BY <1>1
<1> QED
  BY <1>2 DEF ListInv, Listed, Ordered

\* One group more: what was known of the others is as it was.
LEMMA AnotherGroup ==
  ASSUME NEW gs \in Seq(Group), NEW g \in Group
  PROVE  /\ Append(gs, g) \in Seq(Group)
         /\ Len(Append(gs, g)) = Len(gs) + 1
         /\ Append(gs, g)[Len(gs) + 1] = g
         /\ \A i \in 1 .. Len(gs) : Append(gs, g)[i] = gs[i]
         /\ OneAny(Append(gs, g)) => OneAny(gs)
<1> DEFINE gs2 == Append(gs, g)
           n == Len(gs)
<1>1. /\ n \in Nat /\ gs2 \in Seq(Group) /\ Len(gs2) = n + 1 /\ gs2[n + 1] = g
      /\ \A i \in 1 .. n : gs2[i] = gs[i]
  OBVIOUS
<1> HIDE DEF gs2, n
<1>2. \A i \in 1 .. n : i \in 1 .. (n + 1)
  BY <1>1
<1>3. OneAny(gs2) => OneAny(gs)
  BY <1>1, <1>2 DEF OneAny, n
<1> QED
  BY <1>1, <1>3 DEF gs2, n

\* The new group comes last.
LEMMA AppendOK ==
  ASSUME NEW gs, NEW hs, Listed(gs, hs), OneAny(gs) => Ordered(gs, hs), NEW g \in Group,
         Len(hs) = 0 \/ gs[hs[Len(hs)]].host # Route!Wildcard
  PROVE  LET gs2 == Append(gs, g)
             hs2 == Append(hs, Len(gs) + 1)
         IN  Listed(gs2, hs2) /\ (OneAny(gs2) => Ordered(gs2, hs2))
<1> DEFINE m == Len(gs)
           n == Len(hs)
           gs2 == Append(gs, g)
           hs2 == Append(hs, m + 1)
<1>1. /\ gs \in Seq(Group) /\ hs \in Seq(Nat) /\ m \in Nat /\ n \in Nat
      /\ \A k \in 1 .. n : hs[k] \in 1 .. m
      /\ \A i \in 1 .. m : \E k \in 1 .. n : hs[k] = i
  BY DEF Listed
<1>2. /\ gs2 \in Seq(Group) /\ Len(gs2) = m + 1 /\ gs2[m + 1] = g
      /\ \A i \in 1 .. m : gs2[i] = gs[i]
      /\ OneAny(gs2) => OneAny(gs)
  BY <1>1, AnotherGroup
<1>3. /\ hs2 \in Seq(Nat) /\ Len(hs2) = n + 1 /\ hs2[n + 1] = m + 1
      /\ \A k \in 1 .. n : hs2[k] = hs[k]
  BY <1>1
<1> HIDE DEF m, n, gs2, hs2
<1>4. /\ 1 .. (m + 1) = (1 .. m) \cup {m + 1}
      /\ 1 .. (n + 1) = (1 .. n) \cup {n + 1}
      /\ \A i \in 1 .. m : i < m + 1
  BY <1>1
<1>5. Listed(gs2, hs2)
  <2>1. \A k \in 1 .. (n + 1) : hs2[k] \in 1 .. (m + 1)
    BY <1>1, <1>3, <1>4
  <2>2. ASSUME NEW i \in 1 .. (m + 1) PROVE \E k \in 1 .. (n + 1) : hs2[k] = i
    <3>1. CASE i = m + 1
      BY <1>3, <1>4, <3>1
    <3>2. CASE i \in 1 .. m
      <4>1. PICK k \in 1 .. n : hs[k] = i
        BY <1>1, <3>2
      <4> QED
        BY <1>3, <1>4, <4>1
    <3> QED
      BY <1>4, <3>1, <3>2
  <2> QED
    BY <1>2, <1>3, <2>1, <2>2 DEF Listed
<1>6. ASSUME OneAny(gs2) PROVE Ordered(gs2, hs2)
  <2>1. Ordered(gs, hs)
    BY <1>2, <1>6
  <2>2. ASSUME NEW k \in 1 .. n PROVE gs[hs[k]].host # Route!Wildcard
    <3>1. n # 0 /\ n \in 1 .. n /\ (k = n \/ k < n)
      BY <1>1
    <3> QED
      BY <2>1, <3>1 DEF Ordered, n
  <2> SUFFICES ASSUME NEW k \in 1 .. (n + 1), NEW l \in 1 .. (n + 1), k < l
               PROVE  /\ gs2[hs2[k]].host # Route!Wildcard
                      /\ gs2[hs2[l]].host # Route!Wildcard => hs2[k] < hs2[l]
    BY <1>3 DEF Ordered
  <2>3. k \in 1 .. n
    BY <1>1
  <2>4. hs2[k] = hs[k] /\ gs2[hs2[k]] = gs[hs[k]] /\ hs[k] < m + 1
    BY <1>1, <1>2, <1>3, <1>4, <2>3
  <2>5. CASE l \in 1 .. n
    <3>1. hs2[l] = hs[l] /\ gs2[hs2[l]] = gs[hs[l]]
      BY <1>1, <1>2, <1>3, <2>5
    <3> QED
      BY <2>1, <2>2, <2>3, <2>4, <2>5, <3>1 DEF Ordered, n
  <2>6. CASE l = n + 1
    BY <1>3, <2>2, <2>3, <2>4, <2>6
  <2> QED
    BY <1>4, <2>5, <2>6
<1> QED
  BY <1>5, <1>6 DEF m, gs2, hs2

\* Two more at the end of a list.
LEMMA TwoMore ==
  ASSUME NEW p \in Nat, NEW f \in Seq(Nat), Len(f) = p, NEW b \in Seq(Nat), Len(b) = 2
  PROVE  /\ f \o b \in Seq(Nat) /\ Len(f \o b) = p + 2
         /\ (f \o b)[p + 1] = b[1] /\ (f \o b)[p + 2] = b[2]
         /\ \A k \in 1 .. p : (f \o b)[k] = f[k]
<1> DEFINE c == f \o b
<1>1. /\ c \in Seq(Nat) /\ Len(c) = p + 2
      /\ \A k \in 1 .. (p + 2) : c[k] = IF k <= p THEN f[k] ELSE b[k - p]
  <2>1. /\ f \o b \in Seq(Nat) /\ Len(f \o b) = Len(f) + Len(b)
        /\ \A k \in 1 .. (Len(f) + Len(b)) :
             (f \o b)[k] = IF k <= Len(f) THEN f[k] ELSE b[k - Len(f)]
    BY ConcatProperties, Zenon
  <2> QED
    BY <2>1
<1> HIDE DEF c
<1>2. /\ p + 1 \in 1 .. (p + 2) /\ p + 1 - p = 1 /\ ~(p + 1 <= p)
      /\ p + 2 \in 1 .. (p + 2) /\ p + 2 - p = 2 /\ ~(p + 2 <= p)
      /\ \A k \in 1 .. p : k \in 1 .. (p + 2) /\ k <= p
  OBVIOUS
<1> QED
  BY <1>1, <1>2 DEF c

\* The new group comes before the last one, which is for any host.
LEMMA InsertOK ==
  ASSUME NEW gs, NEW hs, Listed(gs, hs), OneAny(gs) => Ordered(gs, hs), NEW g \in Group,
         Len(hs) > 0, gs[hs[Len(hs)]].host = Route!Wildcard
  PROVE  LET gs2 == Append(gs, g)
             hs2 == SubSeq(hs, 1, Len(hs) - 1) \o <<Len(gs) + 1, hs[Len(hs)]>>
         IN  Listed(gs2, hs2) /\ (OneAny(gs2) => Ordered(gs2, hs2))
<1> DEFINE m == Len(gs)
           n == Len(hs)
           a == hs[n]
           f == SubSeq(hs, 1, n - 1)
           gs2 == Append(gs, g)
           hs2 == f \o <<m + 1, a>>
<1>1. /\ gs \in Seq(Group) /\ hs \in Seq(Nat) /\ m \in Nat /\ n \in Nat \ {0}
      /\ \A k \in 1 .. n : hs[k] \in 1 .. m
      /\ \A i \in 1 .. m : \E k \in 1 .. n : hs[k] = i
  BY DEF Listed
<1>2. /\ gs2 \in Seq(Group) /\ Len(gs2) = m + 1 /\ gs2[m + 1] = g
      /\ \A i \in 1 .. m : gs2[i] = gs[i]
      /\ OneAny(gs2) => OneAny(gs)
  BY <1>1, AnotherGroup
<1> HIDE DEF m, gs2
<1>3. f \in Seq(Nat) /\ Len(f) = n - 1 /\ \A k \in 1 .. (n - 1) : f[k] = hs[k]
  <2>1. n - 1 \in Nat /\ n - 1 <= Len(hs)
    BY <1>1
  <2> DEFINE p == n - 1
  <2>2. p \in Nat /\ p <= Len(hs)
    BY <2>1
  <2> HIDE DEF p
  <2>3. SubSeq(hs, 1, p) \in Seq(Nat) /\ Len(SubSeq(hs, 1, p)) = p
        /\ \A k \in 1 .. p : SubSeq(hs, 1, p)[k] = hs[k]
    BY <1>1, <2>2
  <2> QED
    BY <2>3 DEF p
<1>4. a \in 1 .. m /\ a \in Nat /\ m + 1 \in Nat
  BY <1>1
<1> HIDE DEF n, a, f
<1>5. <<m + 1, a>> \in Seq(Nat) /\ Len(<<m + 1, a>>) = 2
      /\ <<m + 1, a>>[1] = m + 1 /\ <<m + 1, a>>[2] = a
  BY <1>4
<1>6. /\ hs2 \in Seq(Nat) /\ Len(hs2) = n + 1 /\ hs2[n] = m + 1 /\ hs2[n + 1] = a
      /\ \A k \in 1 .. (n - 1) : hs2[k] = hs[k]
  <2> DEFINE b == <<m + 1, a>>
  <2>1. b \in Seq(Nat) /\ Len(b) = 2 /\ b[1] = m + 1 /\ b[2] = a
    BY <1>5
  <2> HIDE DEF b
  <2>2. /\ f \o b \in Seq(Nat) /\ Len(f \o b) = (n - 1) + 2
        /\ (f \o b)[(n - 1) + 1] = b[1] /\ (f \o b)[(n - 1) + 2] = b[2]
        /\ \A k \in 1 .. (n - 1) : (f \o b)[k] = f[k]
    <3>1. n - 1 \in Nat
      BY <1>1
    <3> QED
      BY <1>3, <2>1, <3>1, TwoMore
  <2>3. n - 1 + 2 = n + 1 /\ n - 1 + 1 = n
    BY <1>1
  <2> QED
    BY <1>3, <2>1, <2>2, <2>3 DEF b
<1> HIDE DEF hs2
<1>7. /\ 1 .. (m + 1) = (1 .. m) \cup {m + 1} /\ \A i \in 1 .. m : i < m + 1
      /\ 1 .. (n + 1) = (1 .. (n - 1)) \cup {n, n + 1}
      /\ \A k \in 1 .. (n - 1) : k \in 1 .. n /\ k < n
      /\ \A k \in 1 .. n : k = n \/ k \in 1 .. (n - 1)
      /\ n \in 1 .. n
  BY <1>1
<1>8. Listed(gs2, hs2)
  <2>1. \A k \in 1 .. (n + 1) : hs2[k] \in 1 .. (m + 1)
    BY <1>1, <1>4, <1>6, <1>7
  <2>2. ASSUME NEW i \in 1 .. (m + 1) PROVE \E k \in 1 .. (n + 1) : hs2[k] = i
    <3>1. CASE i = m + 1
      BY <1>6, <1>7, <3>1
    <3>2. CASE i \in 1 .. m
      <4>1. PICK k \in 1 .. n : hs[k] = i
        BY <1>1, <3>2
      <4> QED
        BY <1>6, <1>7, <4>1 DEF a
    <3> QED
      BY <1>7, <3>1, <3>2
  <2> QED
    BY <1>2, <1>6, <2>1, <2>2 DEF Listed
<1>9. ASSUME OneAny(gs2) PROVE Ordered(gs2, hs2)
  <2>1. Ordered(gs, hs)
    BY <1>2, <1>9
  <2>2. gs2[a].host = Route!Wildcard
    BY <1>2, <1>4 DEF a, n
  <2>3. gs2[m + 1].host # Route!Wildcard
    <3>1. a \in 1 .. (m + 1) /\ m + 1 \in 1 .. (m + 1) /\ a # m + 1
      BY <1>4, <1>7
    <3> QED
      BY <1>2, <1>9, <2>2, <3>1 DEF OneAny
  <2>4. ASSUME NEW k \in 1 .. (n - 1)
        PROVE  /\ hs2[k] = hs[k] /\ gs2[hs2[k]] = gs[hs[k]] /\ hs2[k] < m + 1
               /\ gs2[hs2[k]].host # Route!Wildcard
    <3>1. hs2[k] = hs[k] /\ hs[k] \in 1 .. m
      BY <1>1, <1>6, <1>7
    <3>2. gs[hs[k]].host # Route!Wildcard
      BY <1>7, <2>1 DEF Ordered, n
    <3> QED
      BY <1>2, <1>7, <3>1, <3>2
  <2> SUFFICES ASSUME NEW k \in 1 .. (n + 1), NEW l \in 1 .. (n + 1), k < l
               PROVE  /\ gs2[hs2[k]].host # Route!Wildcard
                      /\ gs2[hs2[l]].host # Route!Wildcard => hs2[k] < hs2[l]
    BY <1>6 DEF Ordered
  <2>5. CASE l \in 1 .. (n - 1)
    <3>1. k \in 1 .. (n - 1)
      BY <1>1, <2>5
    <3>2. gs[hs[l]].host # Route!Wildcard => hs[k] < hs[l]
      BY <1>7, <2>1, <2>5, <3>1 DEF Ordered, n
    <3> QED
      BY <2>4, <2>5, <3>1, <3>2
  <2>6. CASE l = n
    <3>1. k \in 1 .. (n - 1)
      BY <1>1, <2>6
    <3> QED
      BY <1>6, <2>4, <2>6, <3>1
  <2>7. CASE l = n + 1
    <3>1. k \in 1 .. (n - 1) \/ k = n
      BY <1>1, <2>7
    <3> QED
      BY <1>6, <2>2, <2>3, <2>4, <2>7, <3>1
  <2> QED
    BY <1>7, <2>5, <2>6, <2>7
<1> QED
  BY <1>8, <1>9 DEF m, n, a, f, gs2, hs2

\* add_handlers keeps the list.
LEMMA AddHandlersList ==
  ASSUME ListInv, NEW host \in Hosts \cup {Route!Wildcard}, NEW paths \in Route!Rules,
         Route!AddHandlers(host, paths)
  PROVE  ListInv'
<1> DEFINE g == [host |-> host, paths |-> paths]
           i == Len(groups) + 1
           n == Len(handlers)
<1>1. g \in Group /\ groups' = Append(groups, g)
  BY DEF Route!AddHandlers, Group
<1>2. handlers' = IF n > 0 /\ groups[handlers[n]].host = Route!Wildcard
                    THEN SubSeq(handlers, 1, n - 1) \o <<i, handlers[n]>>
                    ELSE Append(handlers, i)
  BY DEF Route!AddHandlers, Route!Insert
<1>3. n \in Nat
  BY DEF ListInv, Listed
<1> HIDE DEF g
<1>4. CASE n > 0 /\ groups[handlers[n]].host = Route!Wildcard
  <2>1. handlers' = SubSeq(handlers, 1, n - 1) \o <<i, handlers[n]>>
    BY <1>2, <1>4
  <2>2. Listed(groups', handlers') /\ (OneAny(groups') => Ordered(groups', handlers'))
    BY <1>1, <1>4, <2>1, InsertOK DEF ListInv
  <2> QED
    BY <2>2 DEF ListInv
<1>5. CASE ~(n > 0 /\ groups[handlers[n]].host = Route!Wildcard)
  <2>1. handlers' = Append(handlers, i)
    BY <1>2, <1>5
  <2>2. Listed(groups', handlers') /\ (OneAny(groups') => Ordered(groups', handlers'))
    BY <1>1, <1>3, <1>5, <2>1, AppendOK DEF ListInv
  <2> QED
    BY <2>2 DEF ListInv
<1> QED
  BY <1>4, <1>5

-----------------------------------------------------------------------------
(* What a request gets.                                                    *)

LeastOf(S) == CHOOSE x \in S : \A y \in S : x <= y

\* Of some numbers one is the least.
LEMMA LeastExists ==
  ASSUME NEW S \in SUBSET Nat, S # {}
  PROVE  LeastOf(S) \in S /\ \A y \in S : LeastOf(S) <= y
<1> DEFINE less == OpToRel(<, Nat)
<1>1. less = {p \in Nat \X Nat : p[1] < p[2]}
  BY ZenonT(20) DEF OpToRel
<1>2. IsWellFoundedOn(less, Nat)
  BY NatLessThanWellFounded
<1> HIDE DEF less
<1>3. PICK x \in S : \A y \in S : <<y, x>> \notin less
  BY <1>2, WFMin
<1>4. ASSUME NEW y \in S PROVE x <= y
  <2>1. x \in Nat /\ y \in Nat
    OBVIOUS
  <2>2. y < x => <<y, x>> \in less
    BY <1>1, <2>1
  <2> QED
    BY <1>3, <2>1, <2>2
<1> QED
  BY <1>3, <1>4 DEF LeastOf

\* (An INSTANCE has a Cardinality of its own.)  At most one of them is at most one.
LEMMA AtMostOne ==
  ASSUME NEW S, IsFiniteSet(S), Route!Cardinality(S) <= 1, NEW a \in S, NEW b \in S
  PROVE  a = b
<1> SUFFICES ASSUME a # b PROVE FALSE
  OBVIOUS
<1>1. Cardinality(S) <= 1
  BY DEF Route!Cardinality, Cardinality
<1>2. IsFiniteSet({a, b}) /\ Cardinality({a, b}) = 2
  <2>1. IsFiniteSet({b}) /\ Cardinality({b}) = 1
    <3>1. {b} = {} \cup {b} /\ b \notin {} /\ IsFiniteSet({}) /\ Cardinality({}) = 0
      BY FS_EmptySet
    <3> QED
      BY <3>1, FS_AddElement
  <2>2. {a, b} = {b} \cup {a} /\ a \notin {b}
    OBVIOUS
  <2> QED
    BY SMTT(30), <2>1, <2>2, FS_AddElement
<1>3. {a, b} \subseteq S /\ Cardinality({a, b}) <= Cardinality(S)
  BY <1>2, FS_Subset
<1> QED
  BY <1>1, <1>2, <1>3, FS_CardinalityType

\* The groups, in the list, that match a host, and their rules' places.
For(h) == {k \in DOMAIN handlers : Route!Matches(groups[handlers[k]].host, h)}
PathsOf(gs, i) == DOMAIN gs[i].paths
Places(h) == UNION {{k} \X PathsOf(groups, handlers[k]) : k \in For(h)}
Matching(h, path) ==
  {p \in Places(h) : Route!Matches(Route!PathOf(Route!RuleAt(p)), path)}
FirstPlace(S) == CHOOSE p \in S : \A q \in S : Route!Before(p, q)

\* The same from the groups gs alone, as RoutesArePrecise says it.
Of(gs, i, path) == {j \in PathsOf(gs, i) : Route!Matches(gs[i].paths[j], path)}
Own(gs, h, path) == {i \in DOMAIN gs : gs[i].host = h /\ Of(gs, i, path) # {}}
Any(gs, path) == {i \in DOMAIN gs : gs[i].host = Route!Wildcard /\ Of(gs, i, path) # {}}
GroupFor(gs, h, path) ==
  LeastOf(IF Own(gs, h, path) # {} THEN Own(gs, h, path) ELSE Any(gs, path))
RuleFor(gs, h, path) ==
  LET i == GroupFor(gs, h, path)
  IN  IF Own(gs, h, path) \cup Any(gs, path) = {} THEN Route!NotFound
      ELSE <<i, LeastOf(Of(gs, i, path))>>
Serves(gs, h) == \E i \in DOMAIN gs : Route!Matches(gs[i].host, h)
Precise(gs, default, r) ==
  Route!Cardinality({i \in DOMAIN gs : gs[i].host = Route!Wildcard}) <= 1 =>
    r.by = (CASE Serves(gs, r.host) -> RuleFor(gs, r.host, r.path)
              [] ~Serves(gs, r.host) /\ ~r.proxied /\ Serves(gs, default) ->
                   RuleFor(gs, default, r.path)
              [] OTHER -> Route!RedirectHandler)

\* A group has a rule, at least.
LEMMA PathsAre ==
  ASSUME ListInv, NEW i \in 1 .. Len(groups)
  PROVE  Len(groups[i].paths) \in Nat \ {0} /\ 1 \in PathsOf(groups, i) /\ PathsOf(groups, i) \subseteq Nat
<1>1. groups[i].paths \in Route!Rules
  <2>1. groups[i] \in Group
    BY DEF ListInv, Listed
  <2> QED
    BY <2>1 DEF Group
<1>2. ASSUME NEW p
      PROVE  Len(<<p>>) = 1 /\ Len(<<p, Route!Wildcard>>) = 2
  OBVIOUS
<1>3. Len(groups[i].paths) \in {1, 2}
  BY <1>1, <1>2 DEF Route!Rules
<1>4. DOMAIN groups[i].paths = 1 .. Len(groups[i].paths)
  BY <1>1, <1>2 DEF Route!Rules
<1> DEFINE L == Len(groups[i].paths)
<1> HIDE DEF L
<1>5. L \in {1, 2} /\ PathsOf(groups, i) = 1 .. L
  BY <1>3, <1>4 DEF PathsOf, L
<1>6. L \in Nat \ {0} /\ 1 \in 1 .. L /\ 1 .. L \subseteq Nat
  BY <1>5
<1> QED
  BY <1>5, <1>6 DEF L

\* A host has rules if a group matches it.
LEMMA PlacesOK ==
  ASSUME ListInv, NEW h
  PROVE  /\ \A p : p \in Places(h) <=>
                     \E k \in For(h) : \E j \in PathsOf(groups, handlers[k]) : p = <<k, j>>
         /\ Places(h) # {} <=> Serves(groups, h)
<1>1. ASSUME NEW p
      PROVE  p \in Places(h) <=>
               \E k \in For(h) : \E j \in PathsOf(groups, handlers[k]) : p = <<k, j>>
  BY DEF Places
<1>2. For(h) # {} => Places(h) # {}
  <2> SUFFICES ASSUME NEW k \in For(h) PROVE Places(h) # {}
    OBVIOUS
  <2>1. handlers[k] \in 1 .. Len(groups)
    BY DEF For, ListInv, Listed
  <2>2. 1 \in PathsOf(groups, handlers[k])
    BY <2>1, PathsAre
  <2>3. <<k, 1>> \in Places(h)
    BY <1>1, <2>2
  <2> QED
    BY <2>3
<1>3. For(h) # {} <=> Serves(groups, h)
  <2>1. Serves(groups, h) => For(h) # {}
    BY DEF Serves, For, ListInv, Listed
  <2>2. ASSUME NEW k \in For(h) PROVE Serves(groups, h)
    <3>1. /\ k \in DOMAIN handlers /\ Route!Matches(groups[handlers[k]].host, h)
          /\ handlers[k] \in DOMAIN groups
      BY DEF For, ListInv, Listed
    <3> QED
      BY <3>1 DEF Serves
  <2> QED
    BY <2>1, <2>2
<1> QED
  BY <1>1, <1>2, <1>3

\* The places of the rules that match.
LEMMA MatchingOK ==
  ASSUME NEW h, NEW path, NEW p, ListInv
  PROVE  p \in Matching(h, path) <=>
           \E k \in For(h) : \E j \in Of(groups, handlers[k], path) : p = <<k, j>>
<1>1. ASSUME NEW k, NEW j
      PROVE  Route!PathOf(Route!RuleAt(<<k, j>>)) = groups[handlers[k]].paths[j]
  BY DEF Route!PathOf, Route!RuleAt, Route!Rule
<1>2. p \in Places(h) <=> \E k \in For(h) : \E j \in PathsOf(groups, handlers[k]) : p = <<k, j>>
  BY PlacesOK
<1>3. p \in Matching(h, path) <=>
        p \in Places(h) /\ Route!Matches(Route!PathOf(Route!RuleAt(p)), path)
  BY DEF Matching
<1>4. ASSUME NEW k, NEW j
      PROVE  j \in Of(groups, handlers[k], path) <=>
               /\ j \in PathsOf(groups, handlers[k])
               /\ Route!Matches(Route!PathOf(Route!RuleAt(<<k, j>>)), path)
  BY <1>1 DEF Of
<1> QED
  BY <1>2, <1>3, <1>4

\* The first rule that matches is the first one of the most precise group.
LEMMA FirstOK ==
  ASSUME ListInv, OneAny(groups), NEW h, NEW path
  PROVE  LET i == GroupFor(groups, h, path)
         IN  /\ Matching(h, path) = {} <=> Own(groups, h, path) \cup Any(groups, path) = {}
             /\ Matching(h, path) # {} =>
                  Route!RuleAt(FirstPlace(Matching(h, path))) = <<i, LeastOf(Of(groups, i, path))>>
<1> DEFINE M == Matching(h, path)
           own == Own(groups, h, path)
           any == Any(groups, path)
           i == GroupFor(groups, h, path)
           m == Len(groups)
           n == Len(handlers)
<1>1. /\ Listed(groups, handlers) /\ Ordered(groups, handlers) /\ m \in Nat /\ n \in Nat
      /\ \A k \in 1 .. n : handlers[k] \in 1 .. m
      /\ \A g \in 1 .. m : \E k \in 1 .. n : handlers[k] = g
  BY DEF ListInv, Listed
<1>2. /\ own \in SUBSET Nat /\ any \in SUBSET Nat /\ own \subseteq 1 .. m /\ any \subseteq 1 .. m
      /\ \A g \in own : groups[g].host = h /\ Of(groups, g, path) # {}
      /\ \A g \in any : groups[g].host = Route!Wildcard /\ Of(groups, g, path) # {}
  BY <1>1 DEF Own, Any
<1>3. ASSUME NEW k \in For(h), NEW j \in Of(groups, handlers[k], path)
      PROVE  k \in 1 .. n /\ handlers[k] \in 1 .. m /\ handlers[k] \in own \cup any
  <2>1. k \in 1 .. n /\ groups[handlers[k]].host \in {Route!Wildcard, h}
    BY DEF For, Route!Matches
  <2>2. handlers[k] \in 1 .. m
    BY <1>1, <2>1
  <2> QED
    BY <1>3, <2>1, <2>2 DEF Own, Any
<1>4. own \cup any = {} => M = {}
  BY <1>3, MatchingOK
<1>5. CASE own \cup any # {}
  <2> DEFINE S == IF own # {} THEN own ELSE any
             j == LeastOf(Of(groups, i, path))
  <2>1. S \in SUBSET Nat /\ S # {} /\ i = LeastOf(S)
    BY <1>2, <1>5 DEF GroupFor
  <2>2. i \in S /\ \A g \in S : i <= g
    BY <2>1, LeastExists
  <2>3. i \in 1 .. m /\ groups[i].host \in {Route!Wildcard, h} /\ Of(groups, i, path) # {}
    BY <1>2, <2>2
  <2>4. j \in Of(groups, i, path) /\ (\A x \in Of(groups, i, path) : j <= x) /\ Of(groups, i, path) \subseteq Nat
    <3>1. Of(groups, i, path) \in SUBSET Nat
      BY <2>3, PathsAre DEF Of
    <3> QED
      BY <2>3, <3>1, LeastExists
  <2>5. PICK k \in 1 .. n : handlers[k] = i
    BY <1>1, <2>3
  <2>6. k \in For(h) /\ <<k, j>> \in M
    <3>1. k \in For(h)
      BY <2>3, <2>5 DEF For, Route!Matches
    <3> QED
      BY <2>4, <2>5, <3>1, MatchingOK
  <2> HIDE DEF j, i, M, own, any, m, n, S
  <2>7. ASSUME NEW l \in For(h), NEW x \in Of(groups, handlers[l], path)
        PROVE  k < l \/ (k = l /\ j <= x)
    <3> DEFINE g == handlers[l]
    <3>1. l \in 1 .. n /\ g \in 1 .. m /\ g \in own \cup any
      BY <1>3, <2>7
    <3>2. k = l \/ k < l \/ l < k
      BY <1>1, <3>1
    <3>3. CASE k = l
      BY <2>4, <2>5, <2>7, <3>3
    <3>4. CASE l < k
      <4>1. /\ groups[g].host # Route!Wildcard
            /\ groups[i].host # Route!Wildcard => g < i
        BY <1>1, <2>5, <3>1, <3>4 DEF Ordered, n
      <4>2. g \in own
        BY <1>2, <3>1, <4>1
      <4>3. i \in own /\ i <= g
        BY <2>2, <4>2 DEF S
      <4>4. groups[i].host = groups[g].host
        BY <1>2, <4>2, <4>3
      <4> QED
        BY <1>1, <2>3, <3>1, <4>1, <4>3, <4>4
    <3> QED
      BY <3>2, <3>3, <3>4
  <2>8. \A q \in M : Route!Before(<<k, j>>, q)
    <3> SUFFICES ASSUME NEW q \in M PROVE Route!Before(<<k, j>>, q)
      OBVIOUS
    <3>1. PICK l \in For(h) : \E x \in Of(groups, handlers[l], path) : q = <<l, x>>
      BY MatchingOK DEF M
    <3>2. PICK x \in Of(groups, handlers[l], path) : q = <<l, x>>
      BY <3>1
    <3> QED
      BY <2>7, <3>2 DEF Route!Before
  <2>9. FirstPlace(M) = <<k, j>>
    <3>1. FirstPlace(M) \in M /\ \A q \in M : Route!Before(FirstPlace(M), q)
      BY <2>6, <2>8 DEF FirstPlace
    <3>2. PICK l \in For(h) : \E x \in Of(groups, handlers[l], path) : FirstPlace(M) = <<l, x>>
      BY <3>1, MatchingOK DEF M
    <3>3. PICK x \in Of(groups, handlers[l], path) : FirstPlace(M) = <<l, x>>
      BY <3>2
    <3>4. k < l \/ (k = l /\ j <= x)
      BY <2>7
    <3>5. l < k \/ (l = k /\ x <= j)
      BY <2>6, <3>1, <3>3 DEF Route!Before
    <3>6. k \in Nat /\ l \in Nat
      <4>1. l \in 1 .. n
        BY <1>3, <3>3
      <4> QED
        BY <4>1
    <3>7. k = l
      BY <3>4, <3>5, <3>6
    <3>8. x \in Nat /\ j \in Nat
      BY <2>4, <2>5, <3>7
    <3>9. x = j
      BY <3>4, <3>5, <3>6, <3>7, <3>8
    <3> QED
      BY <3>3, <3>7, <3>9
  <2>10. Route!RuleAt(<<k, j>>) = <<i, j>>
    BY <2>5 DEF Route!RuleAt, Route!Rule
  <2> QED
    BY <1>5, <2>6, <2>9, <2>10 DEF M, i, j, own, any
<1>6. CASE own \cup any = {}
  BY <1>4, <1>6
<1> QED
  BY <1>5, <1>6

\* What the last request got is what the groups say; the groups are those it met.
RouteInv ==
  /\ ListInv
  /\ served # <<>> => Precise(groups, default_host, served[1])

\* A host without rules: the rule of FirstOK is "not found".
LEMMA RuleForOK ==
  ASSUME ListInv, OneAny(groups), NEW h, NEW path
  PROVE  /\ Matching(h, path) = {} => RuleFor(groups, h, path) = Route!NotFound
         /\ Matching(h, path) # {} =>
              RuleFor(groups, h, path) = Route!RuleAt(FirstPlace(Matching(h, path)))
BY FirstOK DEF RuleFor

\* A request gets the rule that the groups say.
LEMMA CallInv ==
  ASSUME RouteInv, NEW host, NEW path, NEW proxied \in BOOLEAN,
         Route!Call(host, path, proxied)
  PROVE  RouteInv'
<1> DEFINE h == IF Places(host) = {} /\ ~proxied THEN default_host ELSE host
           by == CASE Places(h) = {} -> Route!RedirectHandler
                   [] Places(h) # {} /\ Matching(h, path) = {} -> Route!NotFound
                   [] OTHER -> Route!RuleAt(FirstPlace(Matching(h, path)))
           r == [host |-> host, path |-> path, proxied |-> proxied, by |-> by]
<1>1. groups' = groups /\ handlers' = handlers /\ default_host' = default_host
  BY DEF Route!Call
<1>2. Route!GetHostHandlers(host, proxied) = Places(h)
  BY DEF Route!GetHostHandlers, Places, For, PathsOf
<1>3. served' = <<r>>
  BY <1>2 DEF Route!Call, Matching, FirstPlace
<1>4. r.host = host /\ r.path = path /\ r.proxied = proxied /\ r.by = by
  OBVIOUS
<1> HIDE DEF r
<1>5. Places(host) # {} <=> Serves(groups, host)
  BY PlacesOK DEF RouteInv
<1>6. Places(default_host) # {} <=> Serves(groups, default_host)
  BY PlacesOK DEF RouteInv
<1>7. Precise(groups, default_host, r)
  <2> SUFFICES
        ASSUME Route!Cardinality({i \in DOMAIN groups : groups[i].host = Route!Wildcard}) <= 1
        PROVE  by = (CASE Serves(groups, host) -> RuleFor(groups, host, path)
                       [] ~Serves(groups, host) /\ ~proxied /\ Serves(groups, default_host) ->
                            RuleFor(groups, default_host, path)
                       [] OTHER -> Route!RedirectHandler)
    BY <1>4 DEF Precise
  <2>1. OneAny(groups)
    <3> DEFINE S == {i \in DOMAIN groups : groups[i].host = Route!Wildcard}
    <3>1. DOMAIN groups = 1 .. Len(groups) /\ Len(groups) \in Nat
      BY DEF RouteInv, ListInv, Listed
    <3>2. IsFiniteSet(S)
      <4>1. IsFiniteSet(1 .. Len(groups)) /\ S \in SUBSET (1 .. Len(groups))
        BY <3>1, FS_Interval
      <4> HIDE DEF S
      <4> QED
        BY <4>1, FS_Subset
    <3>3. Route!Cardinality(S) <= 1
      OBVIOUS
    <3>4. \A i, j \in S : i = j
      <4> HIDE DEF S
      <4> QED
        BY <3>2, <3>3, AtMostOne
    <3> QED
      BY <3>1, <3>4 DEF OneAny
  <2>2. \A x : /\ Matching(x, path) = {} => RuleFor(groups, x, path) = Route!NotFound
               /\ Matching(x, path) # {} =>
                    RuleFor(groups, x, path) = Route!RuleAt(FirstPlace(Matching(x, path)))
    BY <2>1, RuleForOK DEF RouteInv
  <2>3. Places(h) # {} => by = RuleFor(groups, h, path)
    BY <2>2
  <2>4. Places(h) = {} => by = Route!RedirectHandler
    OBVIOUS
  <2> HIDE DEF by
  <2>5. CASE Serves(groups, host)
    BY <1>5, <2>3, <2>5
  <2>6. CASE ~Serves(groups, host) /\ ~proxied /\ Serves(groups, default_host)
    BY <1>5, <1>6, <2>3, <2>6
  <2>7. CASE ~Serves(groups, host) /\ ~(~proxied /\ Serves(groups, default_host))
    BY <1>5, <1>6, <2>4, <2>7
  <2> QED
    BY <2>5, <2>6, <2>7
<1>8. served' # <<>> /\ served'[1] = r
  BY <1>3
<1> QED
  BY <1>1, <1>7, <1>8 DEF RouteInv, ListInv

\* The steps of the other parts of Applications leave the routing alone.
LEMMA RouteStep ==
  ASSUME RouteInv, [Next]_vars
  PROVE  RouteInv'
<1>1. ASSUME NEW host \in Hosts \cup {Route!Wildcard}, NEW paths \in Route!Rules,
             Route!AddHandlers(host, paths)
      PROVE  RouteInv'
  <2>1. ListInv'
    BY <1>1, AddHandlersList DEF RouteInv
  <2>2. served' = <<>>
    BY <1>1 DEF Route!AddHandlers
  <2> QED
    BY <2>1, <2>2 DEF RouteInv
<1>2. ASSUME NEW host \in Hosts, NEW path \in Paths, NEW proxied \in BOOLEAN,
             Route!Call(host, path, proxied)
      PROVE  RouteInv'
  BY <1>2, CallInv
<1>3. CASE Route!Next
  BY <1>1, <1>2, <1>3 DEF Route!Next
<1>4. CASE UNCHANGED routing
  BY <1>4 DEF routing, RouteInv, ListInv
<1> QED
  BY <1>3, <1>4 DEF Next, vars

\* The property says of the last request what the invariant does.
LEMMA RouteInvSays == RouteInv => RoutesArePrecise
BY DEF RouteInv, Precise, Serves, RuleFor, GroupFor, Own, Any, Of, PathsOf, LeastOf,
   RoutesArePrecise, Route!RoutesArePrecise

\* For any hosts, paths and groups, in whatever order they are added while the
\* application serves, a request gets the first matching rule for its host, else of
\* the group for any host, else for the default host (web.py:1601-1648, 1693-1713,
\* 1746-1796): add_handlers keeps the precedence that its comment promises.
THEOREM RoutesHold == Spec => []RoutesArePrecise
<1>1. Init => RouteInv
  <2> SUFFICES ASSUME Init PROVE RouteInv
    OBVIOUS
  <2>1. Route!Init
    BY DEF Init
  <2>2. served = <<>>
    BY <2>1 DEF Route!Init
  <2> QED
    BY <2>1, <2>2, ListInit DEF RouteInv
<1>2. RouteInv /\ [Next]_vars => RouteInv'
  BY RouteStep
<1> QED
  BY <1>1, <1>2, RouteInvSays, PTL DEF Spec
=============================================================================

----------------------------- MODULE StackProofs -----------------------------
(***************************************************************************)
(* Proofs about the two parts of Applications that keep a stack: the       *)
(* parser of templates (module TemplateParser), whose stack of _parse      *)
(* calls is the blocks that are open, for templates of any length; and the *)
(* contexts (module StackContext), whose chains are entered and left in    *)
(* step, for any contexts and any depth.                                   *)
(***************************************************************************)
EXTENDS Applications, FiniteSetTheorems, WellFoundedInduction, TLAPS

-----------------------------------------------------------------------------
(* What a template says, as functions of its tags t.                       *)

\* Parser!Count, OpenAt and Belongs.
Among(t, S, i, j) == {k \in i .. j : t[k] \in S}
CountIn(t, S, i, j) == Cardinality(Among(t, S, i, j))
Ahead(t, j, k) == CountIn(t, Parser!Blocks, j, k) > CountIn(t, {"end"}, j, k)
OpenIn(t, i) ==
  {j \in 1 .. (i - 1) : t[j] \in Parser!Blocks /\ \A k \in j .. (i - 1) : Ahead(t, j, k)}
Innermost(open) == CHOOSE j \in open : \A k \in open : k <= j
InLoop(t, open) ==
  \E j \in open : t[j] \in Parser!Loops /\ \A k \in open : k > j => t[k] # "apply"
Stands(t, i) ==
  CASE t[i] \in DOMAIN Parser!Parents ->
         OpenIn(t, i) # {} /\ t[Innermost(OpenIn(t, i))] \in Parser!Parents[t[i]]
    [] t[i] = "end" -> OpenIn(t, i) # {}
    [] t[i] = "break" -> InLoop(t, OpenIn(t, i))
    [] OTHER -> TRUE

\* (An INSTANCE has a Cardinality of its own, defined as this one is.)
LEMMA ParserCardinality == \A S : Parser!Cardinality(S) = Cardinality(S)
  BY DEF Parser!Cardinality, Cardinality

\* These are the operators of TemplateParser.
LEMMA SameTemplate ==
  /\ \A i : Parser!OpenAt(i) = OpenIn(tags, i)
  /\ \A i : Parser!Belongs(i) <=> Stands(tags, i)
<1>1. \A S, i, j : Parser!Count(S, i, j) = CountIn(tags, S, i, j)
  BY ParserCardinality DEF Parser!Count, CountIn, Among
<1>2. \A i : Parser!OpenAt(i) = OpenIn(tags, i)
  BY <1>1 DEF Parser!OpenAt, OpenIn, Ahead
<1>3. \A i : Parser!Belongs(i) <=> Stands(tags, i)
  BY <1>2 DEF Parser!Belongs, Stands, Innermost, InLoop
<1> QED
  BY <1>2, <1>3

\* Of some places of a template one is the last.
LEMMA LargestExists ==
  ASSUME NEW n \in Nat, NEW open \in SUBSET (1 .. n), open # {}
  PROVE  Innermost(open) \in open /\ \A k \in open : k <= Innermost(open)
<1> DEFINE less == OpToRel(<, Nat)
           D == {d \in Nat : n - d \in open}
<1>1. less = {p \in Nat \X Nat : p[1] < p[2]}
  BY ZenonT(20) DEF OpToRel
<1>2. IsWellFoundedOn(less, Nat)
  BY NatLessThanWellFounded
<1>3. D # {} /\ D \subseteq Nat
  <2>1. PICK j : j \in open
    OBVIOUS
  <2>2. n - j \in D
    BY <2>1
  <2> QED
    BY <2>2
<1> HIDE DEF less
<1>4. PICK d \in D : \A e \in D : <<e, d>> \notin less
  BY <1>2, <1>3, WFMin
<1>5. n - d \in open
  BY <1>4
<1>6. ASSUME NEW k \in open PROVE k <= n - d
  <2>1. n - k \in D /\ n - k \in Nat
    OBVIOUS
  <2>2. ~(n - k < d)
    BY <1>1, <1>3, <1>4, <2>1
  <2> QED
    BY <1>3, <2>2
<1> QED
  BY <1>5, <1>6 DEF Innermost

\* Counts are numbers, and grow by one tag at a time.
LEMMA CountStep ==
  ASSUME NEW t, NEW S, NEW i \in Nat \ {0}, NEW n \in Nat, i <= n + 1
  PROVE  /\ CountIn(t, S, i, n) \in Nat
         /\ CountIn(t, S, i, n + 1) = CountIn(t, S, i, n) + (IF t[n + 1] \in S THEN 1 ELSE 0)
         /\ i = n + 1 => CountIn(t, S, i, n) = 0
<1> DEFINE A == Among(t, S, i, n)
           B == Among(t, S, i, n + 1)
<1>1. IsFiniteSet(i .. n) /\ A \in SUBSET (i .. n)
  BY FS_Interval DEF Among
<1>2. IsFiniteSet(A) /\ Cardinality(A) \in Nat
  BY <1>1, FS_Subset, FS_CardinalityType
<1>3. n + 1 \notin A
  BY DEF Among
<1>4. B = IF t[n + 1] \in S THEN A \cup {n + 1} ELSE A
  <2>1. i .. (n + 1) = (i .. n) \cup {n + 1}
    OBVIOUS
  <2> QED
    BY <2>1 DEF Among
<1>5. i = n + 1 => A = {}
  BY DEF Among
<1> HIDE DEF A, B
<1>6. Cardinality(B) = Cardinality(A) + (IF t[n + 1] \in S THEN 1 ELSE 0)
  BY <1>2, <1>3, <1>4, FS_AddElement
<1> QED
  BY <1>2, <1>5, <1>6, FS_EmptySet DEF A, B, CountIn

\* Only the tags between the places count.
LEMMA CountPrefix ==
  ASSUME NEW t, NEW u, NEW n \in Nat, \A k \in 1 .. n : u[k] = t[k],
         NEW S, NEW i \in Nat \ {0}, NEW j \in Nat, j <= n
  PROVE  CountIn(u, S, i, j) = CountIn(t, S, i, j)
<1>1. Among(u, S, i, j) = Among(t, S, i, j)
  BY DEF Among
<1> QED
  BY <1>1 DEF CountIn

\* What is open before a place depends on the tags before it.
LEMMA OpenPrefix ==
  ASSUME NEW t, NEW u, NEW n \in Nat, \A k \in 1 .. n : u[k] = t[k],
         NEW i \in Nat \ {0}, i <= n + 1
  PROVE  OpenIn(u, i) = OpenIn(t, i)
<1>1. ASSUME NEW j \in 1 .. (i - 1), NEW k \in j .. (i - 1)
      PROVE  Ahead(u, j, k) <=> Ahead(t, j, k)
  BY <1>1, CountPrefix DEF Ahead
<1>2. \A j \in 1 .. (i - 1) : u[j] = t[j]
  OBVIOUS
<1> QED
  BY <1>1, <1>2 DEF OpenIn

\* Whether a tag stands where it may depends on the tags up to it.
LEMMA StandsPrefix ==
  ASSUME NEW t, NEW u, NEW n \in Nat, \A k \in 1 .. n : u[k] = t[k],
         NEW i \in 1 .. n
  PROVE  Stands(u, i) <=> Stands(t, i)
<1>1. OpenIn(u, i) = OpenIn(t, i) /\ u[i] = t[i]
  BY OpenPrefix
<1>2. OpenIn(t, i) \subseteq 1 .. n
  BY DEF OpenIn
<1>3. InLoop(u, OpenIn(t, i)) <=> InLoop(t, OpenIn(t, i))
  BY <1>2 DEF InLoop
<1>4. OpenIn(t, i) # {} => u[Innermost(OpenIn(t, i))] = t[Innermost(OpenIn(t, i))]
  <2> DEFINE open == OpenIn(t, i)
  <2>1. open \in SUBSET (1 .. n)
    BY <1>2
  <2> HIDE DEF open
  <2>2. open # {} => Innermost(open) \in 1 .. n
    BY <2>1, LargestExists
  <2>3. open # {} => u[Innermost(open)] = t[Innermost(open)]
    BY <2>2
  <2> QED
    BY <2>3 DEF open
<1> QED
  BY <1>1, <1>3, <1>4 DEF Stands

-----------------------------------------------------------------------------
(* The stack of calls and the blocks that are open.                        *)

\* A tag more: it may close the innermost block, or open one.
LEMMA OpenNext ==
  ASSUME NEW t, NEW n \in Nat
  PROVE  OpenIn(t, n + 2) = {j \in OpenIn(t, n + 1) : Ahead(t, j, n + 1)}
                            \cup (IF t[n + 1] \in Parser!Blocks THEN {n + 1} ELSE {})
<1>1. t[n + 1] \in Parser!Blocks => Ahead(t, n + 1, n + 1)
  <2>1. ASSUME NEW S
        PROVE  CountIn(t, S, n + 1, n + 1) = (IF t[n + 1] \in S THEN 1 ELSE 0)
    <3>1. n + 1 \in Nat \ {0}
      OBVIOUS
    <3> QED
      BY <3>1, CountStep
  <2>2. t[n + 1] \in Parser!Blocks => t[n + 1] \notin {"end"}
    BY DEF Parser!Blocks, Parser!Loops
  <2> QED
    BY <2>1, <2>2 DEF Ahead
<1>2. ASSUME NEW j \in 1 .. n
      PROVE  j \in OpenIn(t, n + 2) <=> j \in OpenIn(t, n + 1) /\ Ahead(t, j, n + 1)
  <2>1. j .. (n + 2 - 1) = (j .. (n + 1 - 1)) \cup {n + 1}
    OBVIOUS
  <2>2. j \in 1 .. (n + 2 - 1) /\ j \in 1 .. (n + 1 - 1)
    OBVIOUS
  <2> QED
    BY <2>1, <2>2 DEF OpenIn
<1>3. n + 1 \in OpenIn(t, n + 2) <=> t[n + 1] \in Parser!Blocks
  <2>1. (n + 1) .. (n + 2 - 1) = {n + 1} /\ n + 1 \in 1 .. (n + 2 - 1)
    OBVIOUS
  <2> QED
    BY <1>1, <2>1 DEF OpenIn
<1>4. OpenIn(t, n + 1) \subseteq 1 .. n /\ OpenIn(t, n + 2) \subseteq 1 .. (n + 1)
  BY DEF OpenIn
<1> QED
  BY <1>2, <1>3, <1>4

Call == [in_block : Parser!Blocks \cup {Parser!Outside}, in_loop : BOOLEAN]

\* The last loop among the first a of the blocks that the tags o open is not around
\* an apply of them.
LoopAround(t, o, a) ==
  \E b \in 1 .. a : t[o[b]] \in Parser!Loops /\ \A e \in (b + 1) .. a : t[o[e]] # "apply"

\* Whether a loop is around depends on the blocks alone.
LEMMA SameLoops ==
  ASSUME NEW a \in Nat, NEW t, NEW u, NEW o, NEW r, \A b \in 1 .. a : u[r[b]] = t[o[b]]
  PROVE  LoopAround(u, r, a) <=> LoopAround(t, o, a)
<1>1. \A b \in 1 .. a : \A e \in (b + 1) .. a : u[r[e]] = t[o[e]]
  OBVIOUS
<1> QED
  BY <1>1 DEF LoopAround

\* The a-th call below the first one parses the block that tag o[a] opened; so many
\* blocks are open behind that tag as there are calls, and the call is in a loop
\* if the last one of the blocks around it that is a loop is not around an apply.
Opens(t, n, p, o) ==
  LET calls == 1 .. (Len(p) - 1)
  IN  /\ o \in [calls -> 1 .. n]
      /\ \A a, b \in calls : a < b => o[a] < o[b]
      /\ OpenIn(t, n + 1) = {o[a] : a \in calls}
      /\ p[1].in_block = Parser!Outside
      /\ \A a \in calls :
           /\ p[a + 1].in_block = t[o[a]]
           /\ CountIn(t, Parser!Blocks, o[a], n) =
                CountIn(t, {"end"}, o[a], n) + Len(p) - a
      /\ \A a \in {0} \cup calls :
           p[a + 1].in_loop <=> LoopAround(t, o, a)

\* What the innermost call was given is what the template says of the next place.
LEMMA TopOK ==
  ASSUME NEW t, NEW n \in Nat, NEW p \in Seq(Call), p # <<>>, NEW o, Opens(t, n, p, o)
  PROVE  LET open == OpenIn(t, n + 1)
             top  == p[Len(p)]
         IN  /\ open = {} <=> top.in_block = Parser!Outside
             /\ open = {} <=> Len(p) = 1
             /\ open # {} => top.in_block = t[Innermost(open)]
             /\ top.in_loop <=> InLoop(t, open)
             /\ open \subseteq 1 .. n
<1> DEFINE m == Len(p) - 1
           open == OpenIn(t, n + 1)
<1>1. Len(p) \in Nat \ {0} /\ m \in Nat /\ Len(p) = m + 1
  OBVIOUS
<1>2. /\ o \in [1 .. m -> 1 .. n] /\ open = {o[a] : a \in 1 .. m}
      /\ \A a, b \in 1 .. m : a < b => o[a] < o[b]
      /\ p[1].in_block = Parser!Outside
      /\ \A a \in 1 .. m : p[a + 1].in_block = t[o[a]]
      /\ \A a \in {0} \cup (1 .. m) :
           p[a + 1].in_loop <=> LoopAround(t, o, a)
  BY DEF Opens
<1>3. open \subseteq 1 .. n /\ \A j \in open : t[j] \in Parser!Blocks
  BY DEF OpenIn
<1>4. Parser!Outside \notin Parser!Blocks
  BY DEF Parser!Outside, Parser!Blocks, Parser!Loops
<1> HIDE DEF m, open
<1>5. m = 0 <=> open = {}
  <2>1. m = 0 => 1 .. m = {}
    OBVIOUS
  <2>2. m # 0 => 1 \in 1 .. m
    BY <1>1
  <2>3. open = {} <=> 1 .. m = {}
    BY ZenonT(40), <1>2
  <2> QED
    BY <2>1, <2>2, <2>3
<1>6. ASSUME m # 0 PROVE Innermost(open) = o[m]
  <2>1. m \in 1 .. m /\ o[m] \in open
    BY <1>1, <1>2, <1>6
  <2>2. \A k \in open : k <= o[m]
    <3>1. \A a \in 1 .. m : a = m \/ a < m
      BY <1>1
    <3> QED
      BY <1>2, <2>1, <3>1
  <2>3. Innermost(open) \in open /\ \A k \in open : k <= Innermost(open)
    BY <1>3, <2>1, LargestExists
  <2> DEFINE i == Innermost(open)
  <2> HIDE DEF i
  <2>4. i \in 1 .. n /\ o[m] \in 1 .. n /\ i <= o[m] /\ o[m] <= i
    BY <1>3, <2>1, <2>2, <2>3 DEF i
  <2>5. i = o[m]
    BY <2>4
  <2> QED
    BY <2>5 DEF i
<1>7. p[m + 1].in_loop <=> InLoop(t, open)
  <2>1. p[m + 1].in_loop <=> LoopAround(t, o, m)
    <3>1. m \in {0} \cup (1 .. m)
      BY <1>1
    <3> QED
      BY <1>2, <3>1
  <2>2. ASSUME NEW b \in 1 .. m
        PROVE  (\A e \in (b + 1) .. m : t[o[e]] # "apply")
               <=> \A k \in open : k > o[b] => t[k] # "apply"
    <3>1. \A e \in (b + 1) .. m : e \in 1 .. m /\ o[e] > o[b] /\ o[e] \in open
      BY <1>1, <1>2
    <3>2. \A e \in 1 .. m : o[e] > o[b] => e \in (b + 1) .. m
      <4> SUFFICES ASSUME NEW e \in 1 .. m, o[e] > o[b], ~(e > b) PROVE FALSE
        BY <1>1
      <4>1. e = b \/ e < b
        BY <1>1
      <4>2. o[e] \in 1 .. n /\ o[b] \in 1 .. n
        BY <1>2
      <4> QED
        BY <1>2, <4>1, <4>2
    <3>3. ASSUME \A k \in open : k > o[b] => t[k] # "apply", NEW e \in (b + 1) .. m
          PROVE  t[o[e]] # "apply"
      BY <3>1, <3>3
    <3>4. ASSUME \A e \in (b + 1) .. m : t[o[e]] # "apply", NEW k \in open, k > o[b]
          PROVE  t[k] # "apply"
      <4>1. PICK e \in 1 .. m : k = o[e]
        BY <1>2
      <4>2. e \in (b + 1) .. m
        BY <3>2, <3>4, <4>1
      <4> QED
        BY <3>4, <4>1, <4>2
    <3> QED
      BY <3>3, <3>4
  <2> QED
    BY <1>2, <2>1, <2>2 DEF InLoop, LoopAround
<1>8. CASE m = 0
  BY <1>1, <1>2, <1>3, <1>5, <1>7, <1>8 DEF open
<1>9. CASE m # 0
  <2>1. p[m + 1].in_block = t[o[m]] /\ o[m] \in open
    BY <1>1, <1>2, <1>9
  <2> QED
    BY <1>1, <1>3, <1>4, <1>5, <1>6, <1>7, <1>9, <2>1 DEF open
<1> QED
  BY <1>8, <1>9

\* A tag is misplaced where the template says that it does not stand.
LEMMA MisplacedOK ==
  ASSUME NEW o, parsing \in Seq(Call), parsing # <<>>, tags \in Seq(Parser!Tags),
         Opens(tags, Len(tags), parsing, o), NEW tag \in Parser!Tags
  PROVE  Stands(Append(tags, tag), Len(tags) + 1) <=> ~Parser!Misplaced(tag)
<1> DEFINE n == Len(tags)
           u == Append(tags, tag)
           open == OpenIn(tags, n + 1)
           top == parsing[Len(parsing)]
<1>1. n \in Nat /\ u[n + 1] = tag /\ \A k \in 1 .. n : u[k] = tags[k]
  OBVIOUS
<1>2. OpenIn(u, n + 1) = open
  <2>1. n + 1 \in Nat \ {0} /\ n + 1 <= n + 1
    OBVIOUS
  <2> QED
    BY <1>1, <2>1, OpenPrefix
<1>3. /\ open = {} <=> top.in_block = Parser!Outside
      /\ open # {} => top.in_block = tags[Innermost(open)]
      /\ top.in_loop <=> InLoop(tags, open)
      /\ open \in SUBSET (1 .. n)
  BY <1>1, TopOK
<1> HIDE DEF open, u
<1>4. open # {} => Innermost(open) \in 1 .. n
  BY <1>1, <1>3, LargestExists
<1>5. InLoop(u, open) <=> InLoop(tags, open)
  BY <1>1, <1>3 DEF InLoop
<1>6. open # {} => u[Innermost(open)] = top.in_block
  BY <1>1, <1>3, <1>4
<1>7. Parser!Misplaced(tag) <=>
        \/ tag \in DOMAIN Parser!Parents /\ top.in_block \notin Parser!Parents[tag]
        \/ tag = "end" /\ top.in_block = Parser!Outside
        \/ tag = "break" /\ ~top.in_loop
  BY DEF Parser!Misplaced, Parser!This
<1>8. Stands(u, n + 1) <=>
        CASE tag \in DOMAIN Parser!Parents ->
               open # {} /\ u[Innermost(open)] \in Parser!Parents[tag]
          [] tag = "end" -> open # {}
          [] tag = "break" -> InLoop(u, open)
          [] OTHER -> TRUE
  BY <1>1, <1>2 DEF Stands
<1> HIDE DEF top
<1>9. /\ DOMAIN Parser!Parents = {"else", "elif", "except"}
      /\ \A x \in DOMAIN Parser!Parents : Parser!Outside \notin Parser!Parents[x]
  <2>1. DOMAIN Parser!Parents = {"else", "elif", "except"}
    BY DEF Parser!Parents
  <2>2. Parser!Outside \notin Parser!Parents.else
    BY DEF Parser!Parents, Parser!Outside
  <2>3. Parser!Outside \notin Parser!Parents.elif
    BY DEF Parser!Parents, Parser!Outside
  <2>4. Parser!Outside \notin Parser!Parents.except
    BY DEF Parser!Parents, Parser!Outside
  <2> QED
    BY <2>1, <2>2, <2>3, <2>4
<1>10. CASE tag \in DOMAIN Parser!Parents
  <2>1. tag # "end" /\ tag # "break"
    BY <1>9, <1>10
  <2>2. Stands(u, n + 1) <=> open # {} /\ u[Innermost(open)] \in Parser!Parents[tag]
    BY <1>8, <1>10, <2>1
  <2> QED
    BY <1>3, <1>6, <1>7, <1>9, <1>10, <2>1, <2>2 DEF u
<1>11. CASE tag = "end"
  <2>1. tag \notin DOMAIN Parser!Parents
    BY <1>9, <1>11
  <2> QED
    BY <1>3, <1>7, <1>8, <1>11, <2>1 DEF u
<1>12. CASE tag = "break"
  <2>1. tag \notin DOMAIN Parser!Parents
    BY <1>9, <1>12
  <2> QED
    BY <1>3, <1>5, <1>7, <1>8, <1>12, <2>1 DEF u
<1>13. CASE tag \notin DOMAIN Parser!Parents /\ tag # "end" /\ tag # "break"
  BY <1>7, <1>8, <1>13 DEF u
<1> QED
  BY <1>10, <1>11, <1>12, <1>13

\* What a tag more changes in the counts from an open block on.
SameUpTo(t, u, n) == \A k \in 1 .. n : u[k] = t[k]

\* A tag more adds one to the counts it belongs to, from any place on.
LEMMA CountNext ==
  ASSUME NEW t, NEW u, NEW n \in Nat, SameUpTo(t, u, n),
         NEW S, NEW j \in 1 .. n
  PROVE  /\ CountIn(t, S, j, n) \in Nat
         /\ CountIn(u, S, j, n + 1) = CountIn(t, S, j, n) + (IF u[n + 1] \in S THEN 1 ELSE 0)
<1>1. j \in Nat \ {0} /\ j <= n + 1 /\ n <= n
  OBVIOUS
<1>2. CountIn(u, S, j, n) = CountIn(t, S, j, n)
  BY <1>1, CountPrefix DEF SameUpTo
<1> QED
  BY <1>1, <1>2, CountStep

\* A tag opens a block.
LEMMA OpensBlock ==
  ASSUME NEW t, NEW n \in Nat, NEW p \in Seq(Call), p # <<>>, NEW o, Opens(t, n, p, o),
         NEW u, \A k \in 1 .. n : u[k] = t[k], u[n + 1] \in Parser!Blocks,
         NEW l \in BOOLEAN,
         l <=> \/ u[n + 1] \in Parser!Loops
               \/ u[n + 1] # "apply" /\ p[Len(p)].in_loop
  PROVE  \E r : Opens(u, n + 1, Append(p, [in_block |-> u[n + 1], in_loop |-> l]), r)
<1> DEFINE m == Len(p) - 1
           tag == u[n + 1]
           c == [in_block |-> tag, in_loop |-> l]
           q == Append(p, c)
           r == [a \in 1 .. (m + 1) |-> IF a = m + 1 THEN n + 1 ELSE o[a]]
<1>1. /\ m \in Nat /\ Len(p) = m + 1
      /\ Len(q) = m + 2 /\ q[m + 2] = c /\ \A a \in 1 .. (m + 1) : q[a] = p[a]
  OBVIOUS
<1>2. /\ o \in [1 .. m -> 1 .. n] /\ OpenIn(t, n + 1) = {o[a] : a \in 1 .. m}
      /\ \A a, b \in 1 .. m : a < b => o[a] < o[b]
      /\ p[1].in_block = Parser!Outside
      /\ \A a \in 1 .. m :
           /\ p[a + 1].in_block = t[o[a]]
           /\ CountIn(t, Parser!Blocks, o[a], n) = CountIn(t, {"end"}, o[a], n) + (m + 1) - a
      /\ \A a \in {0} \cup (1 .. m) :
           p[a + 1].in_loop <=> LoopAround(t, o, a)
  BY <1>1 DEF Opens
<1>3. tag \notin {"end"} /\ ("apply" \notin Parser!Loops)
  BY DEF Parser!Blocks, Parser!Loops
<1> HIDE DEF m, q
<1>4. /\ r \in [1 .. (m + 1) -> 1 .. (n + 1)] /\ r[m + 1] = n + 1
      /\ \A a \in 1 .. m : r[a] = o[a] /\ r[a] \in 1 .. n /\ u[r[a]] = t[o[a]]
  <2>1. \A a \in 1 .. m : o[a] \in 1 .. n /\ a \in 1 .. (m + 1) /\ a # m + 1
    BY <1>1, <1>2
  <2>2. m + 1 \in 1 .. (m + 1) /\ n + 1 \in 1 .. (n + 1)
    BY <1>1
  <2>3. r[m + 1] = n + 1
    BY <2>2
  <2>4. \A a \in 1 .. m : r[a] = o[a]
    BY <2>1
  <2>5. \A a \in 1 .. (m + 1) : a = m + 1 \/ a \in 1 .. m
    BY <1>1
  <2>6. \A a \in 1 .. m : o[a] \in 1 .. (n + 1)
    BY <2>1
  <2>7. r = [a \in 1 .. (m + 1) |-> r[a]]
    OBVIOUS
  <2> HIDE DEF r
  <2>8. r \in [1 .. (m + 1) -> 1 .. (n + 1)]
    BY <2>2, <2>3, <2>4, <2>5, <2>6, <2>7
  <2> QED
    BY <2>1, <2>3, <2>4, <2>8
<1> HIDE DEF r
<1>5. ASSUME NEW a \in 1 .. (m + 1), NEW b \in 1 .. (m + 1), a < b
      PROVE  r[a] < r[b]
  <2>1. a \in 1 .. m /\ (b = m + 1 \/ b \in 1 .. m)
    BY <1>1, <1>5
  <2>2. r[a] = o[a] /\ o[a] \in 1 .. n
    BY <1>4, <2>1
  <2>3. CASE b = m + 1
    BY <1>4, <2>2, <2>3
  <2>4. CASE b \in 1 .. m
    BY <1>2, <1>4, <1>5, <2>1, <2>2, <2>4
  <2> QED
    BY <2>1, <2>3, <2>4
<1>6. /\ \A a \in 1 .. m : CountIn(u, Parser!Blocks, r[a], n + 1) =
                             CountIn(u, {"end"}, r[a], n + 1) + (m + 2) - a
      /\ CountIn(u, Parser!Blocks, n + 1, n + 1) = 1 /\ CountIn(u, {"end"}, n + 1, n + 1) = 0
  <2>1. ASSUME NEW S
        PROVE  CountIn(u, S, n + 1, n + 1) = (IF u[n + 1] \in S THEN 1 ELSE 0)
    <3>1. n + 1 \in Nat \ {0}
      OBVIOUS
    <3> QED
      BY <3>1, CountStep
  <2>2. ASSUME NEW a \in 1 .. m
        PROVE  CountIn(u, Parser!Blocks, r[a], n + 1) =
                 CountIn(u, {"end"}, r[a], n + 1) + (m + 2) - a
    <3> DEFINE j == o[a]
    <3>1. j \in 1 .. n /\ r[a] = j
      BY <1>2, <1>4
    <3>2. CountIn(t, Parser!Blocks, j, n) = CountIn(t, {"end"}, j, n) + (m + 1) - a
      BY <1>2
    <3> HIDE DEF j
    <3>3. /\ CountIn(t, Parser!Blocks, j, n) \in Nat /\ CountIn(t, {"end"}, j, n) \in Nat
          /\ CountIn(u, Parser!Blocks, j, n + 1) = CountIn(t, Parser!Blocks, j, n) + 1
          /\ CountIn(u, {"end"}, j, n + 1) = CountIn(t, {"end"}, j, n) + 0
      <4>1. ASSUME NEW S
            PROVE  /\ CountIn(t, S, j, n) \in Nat
                   /\ CountIn(u, S, j, n + 1) =
                        CountIn(t, S, j, n) + (IF tag \in S THEN 1 ELSE 0)
        <5>1. SameUpTo(t, u, n)
          BY DEF SameUpTo
        <5> QED
          BY <3>1, <5>1, CountNext
      <4> HIDE DEF tag
      <4> QED
        BY <1>3, <4>1 DEF tag
    <3> QED
      BY <1>1, <3>1, <3>2, <3>3
  <2> QED
    BY <1>3, <2>1, <2>2
<1>7. OpenIn(u, n + 2) = {r[a] : a \in 1 .. (m + 1)}
  <2>1. OpenIn(u, n + 1) = OpenIn(t, n + 1)
    <3>1. n + 1 \in Nat \ {0} /\ n + 1 <= n + 1
      OBVIOUS
    <3> QED
      BY <3>1, OpenPrefix
  <2>2. ASSUME NEW a \in 1 .. m PROVE Ahead(u, r[a], n + 1)
    <3>1. CountIn(u, {"end"}, r[a], n + 1) \in Nat
      <4>1. r[a] \in Nat \ {0} /\ r[a] <= n + 1 + 1 /\ n + 1 \in Nat
        BY <1>4
      <4> QED
        BY <4>1, CountStep
    <3> QED
      BY <1>1, <1>6, <3>1 DEF Ahead
  <2>3. OpenIn(u, n + 1) = {r[a] : a \in 1 .. m}
    BY <1>2, <1>4, <2>1
  <2>4. {j \in OpenIn(u, n + 1) : Ahead(u, j, n + 1)} = {r[a] : a \in 1 .. m}
    BY <2>2, <2>3
  <2>5. OpenIn(u, n + 2) = {r[a] : a \in 1 .. m} \cup {n + 1}
    BY <2>4, OpenNext
  <2>6. 1 .. (m + 1) = (1 .. m) \cup {m + 1}
    BY <1>1
  <2> QED
    BY SMTT(30), <1>4, <2>5, <2>6
<1>8. ASSUME NEW a \in 1 .. (m + 1)
      PROVE  /\ q[a + 1].in_block = u[r[a]]
             /\ CountIn(u, Parser!Blocks, r[a], n + 1) =
                  CountIn(u, {"end"}, r[a], n + 1) + (m + 2) - a
  <2>1. CASE a = m + 1
    BY <1>1, <1>4, <1>6, <2>1
  <2>2. CASE a # m + 1
    <3>1. a \in 1 .. m /\ a + 1 \in 1 .. (m + 1)
      BY <1>1, <2>2
    <3> QED
      BY <1>1, <1>2, <1>4, <1>6, <3>1
  <2> QED
    BY <2>1, <2>2
<1>9. ASSUME NEW a \in {0} \cup (1 .. (m + 1))
      PROVE  q[a + 1].in_loop <=> LoopAround(u, r, a)
  <2>1. \A b \in 0 .. m : LoopAround(u, r, b) <=> LoopAround(t, o, b)
    <3>1. ASSUME NEW b \in 0 .. m
          PROVE  LoopAround(u, r, b) <=> LoopAround(t, o, b)
      <4>1. b \in Nat /\ \A x \in 1 .. b : u[r[x]] = t[o[x]]
        BY <1>1, <1>4
      <4> QED
        BY <4>1, SameLoops
    <3> QED
      BY <3>1
  <2>2. CASE a # m + 1
    <3>1. a \in {0} \cup (1 .. m) /\ a \in 0 .. m /\ q[a + 1] = p[a + 1]
      BY <1>1, <2>2
    <3> QED
      BY <1>2, <2>1, <3>1
  <2>3. CASE a = m + 1
    <3>1. q[a + 1].in_loop <=> tag \in Parser!Loops \/ (tag # "apply" /\ p[m + 1].in_loop)
      BY <1>1, <2>3
    <3>2. p[m + 1].in_loop <=> LoopAround(u, r, m)
      <4>1. m \in {0} \cup (1 .. m) /\ m \in 0 .. m
        BY <1>1
      <4> QED
        BY <1>2, <2>1, <4>1
    <3>3. u[r[m + 1]] = tag
      BY <1>4
    <3>4. ASSUME NEW b \in 1 .. m
          PROVE  (\A e \in (b + 1) .. (m + 1) : u[r[e]] # "apply") <=>
                   (tag # "apply" /\ \A e \in (b + 1) .. m : u[r[e]] # "apply")
      <4>1. (b + 1) .. (m + 1) = ((b + 1) .. m) \cup {m + 1}
        BY <1>1
      <4> QED
        BY <3>3, <4>1
    <3>5. 1 .. (m + 1) = (1 .. m) \cup {m + 1} /\ (m + 1 + 1) .. (m + 1) = {}
      BY <1>1
    <3> HIDE DEF tag
    <3>6. LoopAround(u, r, m + 1) <=>
            tag \in Parser!Loops \/ (tag # "apply" /\ LoopAround(u, r, m))
      BY <3>3, <3>4, <3>5 DEF LoopAround
    <3> QED
      BY <2>3, <3>1, <3>2, <3>6
  <2> QED
    BY <2>2, <2>3
<1>10. Opens(u, n + 1, q, r)
  <2>1. Len(q) - 1 = m + 1 /\ n + 1 + 1 = n + 2 /\ q[1].in_block = Parser!Outside
    BY <1>1, <1>2
  <2> QED
    BY <1>1, <1>4, <1>5, <1>7, <1>8, <1>9, <2>1 DEF Opens
<1> QED
  BY <1>10 DEF q

\* A tag closes the innermost block, or is in it.
LEMMA OpensOn ==
  ASSUME NEW t, NEW n \in Nat, NEW p \in Seq(Call), p # <<>>, NEW o, Opens(t, n, p, o),
         NEW u, \A k \in 1 .. n : u[k] = t[k], u[n + 1] \notin Parser!Blocks,
         NEW q \in Seq(Call), q # <<>>, \A a \in 1 .. Len(q) : q[a] = p[a],
         Len(q) = Len(p) - (IF u[n + 1] \in {"end"} THEN 1 ELSE 0)
  PROVE  \E r : Opens(u, n + 1, q, r)
<1> DEFINE m == Len(p) - 1
           k == Len(q) - 1
           d == IF u[n + 1] \in {"end"} THEN 1 ELSE 0
           r == [a \in 1 .. k |-> o[a]]
<1>1. /\ m \in Nat /\ k \in Nat /\ Len(p) = m + 1 /\ Len(q) = k + 1 /\ d \in {0, 1} /\ k = m - d
      /\ \A a \in 0 .. k : q[a + 1] = p[a + 1]
      /\ \A a \in 1 .. k : a \in 1 .. m
  OBVIOUS
<1>2. /\ o \in [1 .. m -> 1 .. n] /\ OpenIn(t, n + 1) = {o[a] : a \in 1 .. m}
      /\ \A a, b \in 1 .. m : a < b => o[a] < o[b]
      /\ p[1].in_block = Parser!Outside
      /\ \A a \in 1 .. m :
           /\ p[a + 1].in_block = t[o[a]]
           /\ CountIn(t, Parser!Blocks, o[a], n) = CountIn(t, {"end"}, o[a], n) + (m + 1) - a
      /\ \A a \in {0} \cup (1 .. m) : p[a + 1].in_loop <=> LoopAround(t, o, a)
  BY <1>1 DEF Opens
<1>3. ASSUME NEW a \in 1 .. m
      PROVE  /\ CountIn(u, {"end"}, o[a], n + 1) \in Nat
             /\ CountIn(u, Parser!Blocks, o[a], n + 1) =
                  CountIn(u, {"end"}, o[a], n + 1) + (k + 1) - a
  <2> DEFINE j == o[a]
  <2>1. j \in 1 .. n
    BY <1>2
  <2>2. CountIn(t, Parser!Blocks, j, n) = CountIn(t, {"end"}, j, n) + (m + 1) - a
    BY <1>2
  <2> HIDE DEF j, m, k
  <2>3. ASSUME NEW S
        PROVE  /\ CountIn(t, S, j, n) \in Nat
               /\ CountIn(u, S, j, n + 1) = CountIn(t, S, j, n) + (IF u[n + 1] \in S THEN 1 ELSE 0)
    <3>1. SameUpTo(t, u, n)
      BY DEF SameUpTo
    <3> QED
      BY <2>1, <3>1, CountNext
  <2>4. /\ CountIn(t, Parser!Blocks, j, n) \in Nat /\ CountIn(t, {"end"}, j, n) \in Nat
        /\ CountIn(u, Parser!Blocks, j, n + 1) = CountIn(t, Parser!Blocks, j, n) + 0
        /\ CountIn(u, {"end"}, j, n + 1) = CountIn(t, {"end"}, j, n) + d
    BY <2>3
  <2> HIDE DEF d
  <2>5. m \in Int /\ k = m - d /\ d \in Int /\ a \in Int
    BY <1>1
  <2> DEFINE x == CountIn(t, Parser!Blocks, j, n)
             y == CountIn(t, {"end"}, j, n)
             e == CountIn(u, {"end"}, j, n + 1)
             f == CountIn(u, Parser!Blocks, j, n + 1)
  <2>6. x \in Nat /\ y \in Nat /\ f = x + 0 /\ e = y + d /\ x = y + (m + 1) - a /\ d \in {0, 1}
    BY <1>1, <2>2, <2>4
  <2> HIDE DEF x, y, e, f
  <2>7. e \in Nat /\ f = e + (k + 1) - a
    BY <2>5, <2>6
  <2> QED
    BY <2>7 DEF e, f, j
<1> HIDE DEF m, k, d
<1>4. /\ r \in [1 .. k -> 1 .. (n + 1)]
      /\ \A a \in 1 .. k : r[a] = o[a] /\ u[r[a]] = t[o[a]]
  <2>1. \A a \in 1 .. k : o[a] \in 1 .. n /\ o[a] \in 1 .. (n + 1)
    BY <1>1, <1>2
  <2> QED
    BY <2>1
<1> HIDE DEF r
<1>5. OpenIn(u, n + 2) = {r[a] : a \in 1 .. k}
  <2>1. OpenIn(u, n + 1) = {o[a] : a \in 1 .. m}
    <3>1. n + 1 \in Nat \ {0} /\ n + 1 <= n + 1
      OBVIOUS
    <3>2. OpenIn(u, n + 1) = OpenIn(t, n + 1)
      BY <3>1, OpenPrefix
    <3> QED
      BY <1>2, <3>2
  <2>2. ASSUME NEW a \in 1 .. m PROVE Ahead(u, o[a], n + 1) <=> a \in 1 .. k
    BY <1>1, <1>3 DEF Ahead
  <2>3. OpenIn(u, n + 2) = {j \in {o[a] : a \in 1 .. m} : Ahead(u, j, n + 1)}
    BY ZenonT(40), <2>1, OpenNext
  <2>4. {j \in {o[a] : a \in 1 .. m} : Ahead(u, j, n + 1)} = {o[a] : a \in 1 .. k}
    BY <1>1, <2>2
  <2>5. {o[a] : a \in 1 .. k} = {r[a] : a \in 1 .. k}
    BY <1>4
  <2> QED
    BY <2>3, <2>4, <2>5
<1>6. \A a, b \in 1 .. k : a < b => r[a] < r[b]
  BY <1>1, <1>2, <1>4
<1>7. ASSUME NEW a \in 1 .. k
      PROVE  /\ q[a + 1].in_block = u[r[a]]
             /\ CountIn(u, Parser!Blocks, r[a], n + 1) =
                  CountIn(u, {"end"}, r[a], n + 1) + (k + 1) - a
  <2>1. a \in 1 .. m /\ a \in 0 .. k
    BY <1>1
  <2>2. q[a + 1] = p[a + 1] /\ r[a] = o[a] /\ u[r[a]] = t[o[a]]
    BY <1>1, <1>4, <2>1
  <2>3. p[a + 1].in_block = t[o[a]]
    BY <1>2, <2>1
  <2>4. CountIn(u, Parser!Blocks, o[a], n + 1) =
          CountIn(u, {"end"}, o[a], n + 1) + (k + 1) - a
    BY <1>3, <2>1
  <2> QED
    BY <2>2, <2>3, <2>4
<1>8. ASSUME NEW a \in {0} \cup (1 .. k)
      PROVE  q[a + 1].in_loop <=> LoopAround(u, r, a)
  <2>1. a \in Nat /\ a \in 0 .. k /\ a \in {0} \cup (1 .. m)
    BY <1>1
  <2>2. \A b \in 1 .. a : u[r[b]] = t[o[b]]
    BY <1>1, <1>4, <2>1
  <2>3. LoopAround(u, r, a) <=> LoopAround(t, o, a)
    BY <2>1, <2>2, SameLoops
  <2> QED
    BY <1>1, <1>2, <2>1, <2>3
<1>9. Opens(u, n + 1, q, r)
  <2>1. Len(q) - 1 = k /\ Len(q) = k + 1 /\ n + 1 + 1 = n + 2
    BY <1>1
  <2>2. q[1].in_block = Parser!Outside
    <3>1. 0 \in 0 .. k /\ 0 + 1 = 1
      BY <1>1
    <3>2. q[1] = p[1]
      BY <1>1, <3>1
    <3> QED
      BY <1>2, <3>2
  <2> QED
    BY <1>4, <1>5, <1>6, <1>7, <1>8, <2>1, <2>2 DEF Opens
<1> QED
  BY <1>9

-----------------------------------------------------------------------------
\* Every tag read so far stands where it may, and the calls in progress are those
\* for the blocks that are open; or else the parser has said so.
ParserInv ==
  /\ tags \in Seq(Parser!Tags) /\ parsing \in Seq(Call) /\ parsing # <<>>
  /\ parsed \in {"reading", "done", "error"}
  /\ LET fits == \A i \in 1 .. Len(tags) : Stands(tags, i)
         open == OpenIn(tags, Len(tags) + 1)
     IN  /\ parsed = "reading" => fits /\ \E o : Opens(tags, Len(tags), parsing, o)
         /\ parsed = "done" => fits /\ open = {}
         /\ parsed = "error" => ~fits \/ open # {}

\* At first nothing is open.
LEMMA ParserInit ==
  ASSUME Parser!Init
  PROVE  ParserInv
<1> DEFINE c == [in_block |-> Parser!Outside, in_loop |-> FALSE]
           o == [a \in {} |-> a]
<1>1. tags = <<>> /\ parsing = <<c>> /\ parsed = "reading" /\ c \in Call
  BY DEF Parser!Init, Call
<1>2. OpenIn(<<>>, 0 + 1) = {}
  BY DEF OpenIn
<1>3. ~LoopAround(<<>>, o, 0)
  BY DEF LoopAround
<1>4. c.in_block = Parser!Outside /\ ~c.in_loop
  OBVIOUS
<1> HIDE DEF c
<1>5. /\ parsing \in Seq(Call) /\ Len(parsing) = 1 /\ parsing[1] = c
      /\ tags \in Seq(Parser!Tags) /\ Len(tags) = 0
  BY <1>1
<1>6. 1 .. (Len(parsing) - 1) = {} /\ o \in [{} -> 1 .. 0]
  BY <1>5
<1> HIDE DEF o
<1>7. Opens(<<>>, 0, parsing, o)
  BY <1>2, <1>3, <1>4, <1>5, <1>6 DEF Opens
<1> QED
  BY <1>1, <1>5, <1>7 DEF ParserInv

\* The end of the text.
LEMMA ParseEOFInv ==
  ASSUME ParserInv, Parser!ParseEOF
  PROVE  ParserInv'
<1> DEFINE open == OpenIn(tags, Len(tags) + 1)
<1>1. /\ parsed = "reading" /\ UNCHANGED <<tags, parsing>>
      /\ parsed' = IF parsing[Len(parsing)].in_block # Parser!Outside THEN "error" ELSE "done"
  BY DEF Parser!ParseEOF, Parser!This
<1>2. PICK o : Opens(tags, Len(tags), parsing, o)
  BY <1>1 DEF ParserInv
<1>3. open = {} <=> parsing[Len(parsing)].in_block = Parser!Outside
  BY <1>2, TopOK DEF ParserInv
<1> HIDE DEF open
<1> QED
  BY <1>1, <1>3 DEF ParserInv, open

\* A call returns: the ones around it are as they were.
LEMMA FrontOfCalls ==
  ASSUME NEW p \in Seq(Call), p # <<>>, Len(p) # 1
  PROVE  LET q == SubSeq(p, 1, Len(p) - 1)
         IN  /\ q \in Seq(Call) /\ q # <<>>
             /\ Len(q) = Len(p) - 1
             /\ \A a \in 1 .. Len(q) : q[a] = p[a]
<1> DEFINE L == Len(p) - 1
           q == SubSeq(p, 1, L)
<1>1. L \in Nat \ {0} /\ L <= Len(p) /\ 1 \in 1 .. (Len(p) + 1) /\ L \in 0 .. Len(p)
  OBVIOUS
<1> HIDE DEF L
<1>2. q \in Seq(Call) /\ Len(q) = L /\ \A a \in 1 .. L : q[a] = p[a]
  BY <1>1
<1> HIDE DEF q
<1> QED
  BY <1>1, <1>2 DEF q, L

\* The next tag.
LEMMA ParseInv ==
  ASSUME ParserInv, NEW tag \in Parser!Tags, Parser!Parse(tag)
  PROVE  ParserInv'
<1> DEFINE n == Len(tags)
           u == Append(tags, tag)
<1>1. /\ parsed = "reading" /\ tags' = u /\ tags \in Seq(Parser!Tags)
      /\ parsing \in Seq(Call) /\ parsing # <<>>
      /\ \A i \in 1 .. n : Stands(tags, i)
  BY DEF Parser!Parse, ParserInv
<1>2. PICK o : Opens(tags, n, parsing, o)
  BY <1>1 DEF ParserInv
<1>3. Stands(u, n + 1) <=> ~Parser!Misplaced(tag)
  BY <1>1, <1>2, MisplacedOK
<1>4. /\ n \in Nat /\ Len(u) = n + 1 /\ u[n + 1] = tag /\ u \in Seq(Parser!Tags)
      /\ \A k \in 1 .. n : u[k] = tags[k]
  BY <1>1
<1> HIDE DEF n, u
<1>5. (\A i \in 1 .. (n + 1) : Stands(u, i)) <=> Stands(u, n + 1)
  <2>1. \A i \in 1 .. n : Stands(u, i)
    BY <1>1, <1>4, StandsPrefix
  <2>2. 1 .. (n + 1) = (1 .. n) \cup {n + 1}
    BY <1>4
  <2> QED
    BY <2>1, <2>2
<1>6. CASE Parser!Misplaced(tag)
  <2>1. parsed' = "error" /\ parsing' = parsing
    BY <1>6 DEF Parser!Parse
  <2> QED
    BY <1>1, <1>3, <1>4, <1>5, <1>6, <2>1 DEF ParserInv
<1>7. CASE ~Parser!Misplaced(tag)
  <2>1. parsed' = parsed
    BY <1>7 DEF Parser!Parse
  <2>2. "end" \notin Parser!Blocks
    BY DEF Parser!Blocks, Parser!Loops
  <2>3. parsing' \in Seq(Call) /\ parsing' # <<>> /\ \E r : Opens(u, n + 1, parsing', r)
    <3>1. CASE tag \in Parser!Blocks
      <4> DEFINE top == parsing[Len(parsing)]
                 l == CASE tag \in Parser!Loops -> TRUE
                        [] tag = "apply" -> FALSE
                        [] OTHER -> top.in_loop
                 c == [in_block |-> tag, in_loop |-> l]
      <4>1. parsing' = Append(parsing, c)
        <5>1. Parser!ParseBlock(tag)
          BY <1>7, <2>2, <3>1 DEF Parser!Parse
        <5> QED
          BY <5>1 DEF Parser!ParseBlock, Parser!This
      <4>2. top \in Call
        BY <1>1
      <4>3. l \in BOOLEAN /\ (l <=> tag \in Parser!Loops \/ (tag # "apply" /\ top.in_loop))
        BY <4>2 DEF Call, Parser!Loops
      <4> HIDE DEF l
      <4>4. c \in Call
        BY <3>1, <4>3 DEF Call
      <4>5. \E r : Opens(u, n + 1, Append(parsing, c), r)
        BY <1>1, <1>2, <1>4, <3>1, <4>3, OpensBlock
      <4> HIDE DEF c
      <4> QED
        BY <1>1, <4>1, <4>4, <4>5
    <3>2. CASE tag = "end"
      <4>1. parsing' = SubSeq(parsing, 1, Len(parsing) - 1)
        BY <1>7, <2>2, <3>2 DEF Parser!Parse, Parser!ParseEnd, Parser!Front
      <4>2. parsing[Len(parsing)].in_block # Parser!Outside
        BY <1>7, <3>2 DEF Parser!Misplaced, Parser!This
      <4>3. Len(parsing) # 1
        BY <1>1, <1>2, <1>4, <4>2, TopOK DEF n
      <4>4. /\ parsing' \in Seq(Call) /\ parsing' # <<>>
            /\ Len(parsing') = Len(parsing) - 1
            /\ \A a \in 1 .. Len(parsing') : parsing'[a] = parsing[a]
        BY <1>1, <4>1, <4>3, FrontOfCalls
      <4>5. Len(parsing') = Len(parsing) - (IF u[n + 1] \in {"end"} THEN 1 ELSE 0)
        BY <1>4, <3>2, <4>4
      <4>6. u[n + 1] \notin Parser!Blocks
        BY <1>4, <2>2, <3>2
      <4> QED
        BY ZenonT(40), <1>1, <1>2, <1>4, <4>4, <4>5, <4>6, OpensOn
    <3>3. CASE tag \notin Parser!Blocks /\ tag # "end"
      <4>1. parsing' = parsing
        BY <1>7, <3>3 DEF Parser!Parse
      <4>2. Len(parsing) = Len(parsing) - (IF u[n + 1] \in {"end"} THEN 1 ELSE 0)
        BY <1>1, <1>4, <3>3
      <4> QED
        BY <1>1, <1>2, <1>4, <3>3, <4>1, <4>2, OpensOn
    <3> QED
      BY <3>1, <3>2, <3>3
  <2> QED
    BY <1>1, <1>3, <1>4, <1>5, <1>7, <2>1, <2>3 DEF ParserInv
<1> QED
  BY <1>6, <1>7

\* The steps of the other parts of Applications leave the parser alone.
LEMMA ParserStep ==
  ASSUME ParserInv, [Next]_vars
  PROVE  ParserInv'
<1>1. CASE Parser!Next
  BY <1>1, ParseEOFInv, ParseInv DEF Parser!Next
<1>2. CASE UNCHANGED reading
  <2>1. tags' = tags /\ parsing' = parsing /\ parsed' = parsed
    BY <1>2 DEF reading
  <2> QED
    BY <2>1 DEF ParserInv
<1> QED
  BY <1>1, <1>2 DEF Next, vars

\* The invariant is stated of the template alone; so is the property.
LEMMA ParserInvSays == ParserInv => ParserTakesTheRightTemplates
<1> SUFFICES ASSUME ParserInv PROVE Parser!ParserTakesTheRightTemplates
  BY DEF ParserTakesTheRightTemplates
<1> DEFINE n == Len(tags)
           fits == \A i \in 1 .. n : Parser!Belongs(i)
           ended == Parser!OpenAt(n + 1) = {}
<1>1. fits <=> \A i \in 1 .. n : Stands(tags, i)
  BY SameTemplate
<1>2. ended <=> OpenIn(tags, n + 1) = {}
  BY SameTemplate
<1>3. Parser!ParserTakesTheRightTemplates <=>
        CASE parsed = "reading" -> fits
          [] parsed = "done" -> fits /\ ended
          [] parsed = "error" -> ~fits \/ ~ended
  BY DEF Parser!ParserTakesTheRightTemplates
<1>4. /\ parsed \in {"reading", "done", "error"}
      /\ parsed = "reading" => \A i \in 1 .. n : Stands(tags, i)
      /\ parsed = "done" => (\A i \in 1 .. n : Stands(tags, i)) /\ OpenIn(tags, n + 1) = {}
      /\ parsed = "error" =>
           ~(\A i \in 1 .. n : Stands(tags, i)) \/ OpenIn(tags, n + 1) # {}
  BY DEF ParserInv
<1> HIDE DEF n, fits, ended
<1> QED
  BY <1>1, <1>2, <1>3, <1>4

\* _parse (template.py:693-861) takes a template, of any length and nested to any
\* depth, just when every block ends and every tag stands where Python lets it.
THEOREM ParserHolds == Spec => []ParserTakesTheRightTemplates
<1>1. Init => ParserInv
  <2> SUFFICES ASSUME Init PROVE ParserInv
    OBVIOUS
  <2>1. Parser!Init
    BY DEF Init
  <2> QED
    BY <2>1, ParserInit
<1>2. ParserInv /\ [Next]_vars => ParserInv'
  BY ParserStep
<1> QED
  BY <1>1, <1>2, ParserInvSays, PTL DEF Spec

-----------------------------------------------------------------------------
(* Chains of contexts, in a table o of old_contexts.                       *)

None == "none"

\* A table of old_contexts: whatever a context was opened under has one, too, ...
Linked(o) ==
  /\ None \notin DOMAIN o
  /\ \A x \in DOMAIN o : o[x].head \in DOMAIN o \union {None}

\* ... and every chain comes to an end.
Ends(o) == \A x \in DOMAIN o : \E e \in Context!Chain(o, x) : o[e].head = None

\* A chain is in every closed set that it begins in, ...
LEMMA ChainIsLeast ==
  ASSUME NEW o, NEW S \in SUBSET DOMAIN o, Context!Closed(o, S), NEW c \in S \union {None}
  PROVE  Context!Chain(o, c) \subseteq S
BY DEF Context!Chain, Context!NoContext, None

\* ... and is one.
LEMMA ChainIsClosed ==
  ASSUME NEW o, Linked(o), NEW c \in DOMAIN o \union {None}
  PROVE  /\ Context!Chain(o, c) \subseteq DOMAIN o
         /\ Context!Closed(o, Context!Chain(o, c))
         /\ c \in Context!Chain(o, c) \union {None}
<1>1. Context!Chain(o, c) \subseteq DOMAIN o
  BY DEF Context!Chain
<1>2. c \in Context!Chain(o, c) \union {None}
  BY DEF Context!Chain, Context!NoContext, None
<1>3. ASSUME NEW x \in Context!Chain(o, c), o[x].head # None
      PROVE  o[x].head \in Context!Chain(o, c)
  <2>1. o[x].head \in DOMAIN o
    BY <1>1, <1>3 DEF Linked
  <2>2. ASSUME NEW S \in SUBSET DOMAIN o, Context!Closed(o, S), c \in S \union {None}
        PROVE  o[x].head \in S
    <3>1. x \in S
      BY <2>2, ChainIsLeast
    <3> QED
      BY <1>3, <2>2, <3>1 DEF Context!Closed, Context!NoContext, None
  <2> QED
    BY <2>1, <2>2 DEF Context!Chain, Context!NoContext, None
<1> QED
  BY <1>1, <1>2, <1>3 DEF Context!Closed, Context!NoContext, None

\* It is the context and the chain of what it was opened under.
LEMMA ChainNext ==
  ASSUME NEW o, Linked(o), NEW x \in DOMAIN o
  PROVE  /\ Context!Chain(o, x) = {x} \union Context!Chain(o, o[x].head)
         /\ Context!Chain(o, None) = {}
<1>1. /\ Context!Chain(o, x) \subseteq DOMAIN o
      /\ Context!Closed(o, Context!Chain(o, x)) /\ x \in Context!Chain(o, x)
  BY ChainIsClosed DEF Linked
<1>2. o[x].head \in DOMAIN o \union {None}
  BY DEF Linked
<1>3. /\ Context!Chain(o, o[x].head) \subseteq DOMAIN o
      /\ Context!Closed(o, Context!Chain(o, o[x].head))
      /\ o[x].head \in Context!Chain(o, o[x].head) \union {None}
  BY <1>2, ChainIsClosed
<1>4. Context!Chain(o, x) \subseteq {x} \union Context!Chain(o, o[x].head)
  <2>1. Context!Closed(o, {x} \union Context!Chain(o, o[x].head))
    BY <1>3 DEF Context!Closed, Context!NoContext, None
  <2> QED
    BY <1>3, <2>1, ChainIsLeast
<1>5. Context!Chain(o, o[x].head) \subseteq Context!Chain(o, x)
  <2>1. o[x].head \in Context!Chain(o, x) \union {None}
    BY <1>1 DEF Context!Closed, Context!NoContext, None
  <2> QED
    BY <1>1, <2>1, ChainIsLeast
<1>6. Context!Chain(o, None) = {}
  <2>1. Context!Closed(o, {})
    BY DEF Context!Closed
  <2> QED
    BY <2>1, ChainIsLeast
<1> QED
  BY <1>1, <1>4, <1>5, <1>6

\* A chain of no table, or from nowhere.
LEMMA NoChain == \A o : Context!Chain(o, None) = {}
<1>1. \A o : Context!Closed(o, {})
  BY DEF Context!Closed
<1> QED
  BY <1>1, ChainIsLeast

\* What is behind a context in a chain is in the chain.
LEMMA ChainBehind ==
  ASSUME NEW o, Linked(o), NEW c \in DOMAIN o \union {None}, NEW x \in Context!Chain(o, c)
  PROVE  x \in DOMAIN o /\ Context!Chain(o, x) \subseteq Context!Chain(o, c)
BY ChainIsClosed, ChainIsLeast

\* Chains do not go in circles.
LEMMA ChainOrder ==
  ASSUME NEW o, Linked(o), Ends(o), NEW x \in DOMAIN o, NEW y \in Context!Chain(o, x),
         x \in Context!Chain(o, y)
  PROVE  x = y
<1> SUFFICES ASSUME x # y PROVE FALSE
  OBVIOUS
<1> DEFINE S == {z \in Context!Chain(o, x) : x \in Context!Chain(o, z)}
<1>1. /\ Context!Chain(o, x) \subseteq DOMAIN o
      /\ Context!Closed(o, Context!Chain(o, x)) /\ x \in Context!Chain(o, x)
  BY ChainIsClosed DEF Linked
<1>2. ASSUME NEW z \in S PROVE o[z].head \in S
  <2>1. z \in DOMAIN o /\ x \in Context!Chain(o, z) /\ z \in Context!Chain(o, x)
    BY <1>1
  <2>2. Context!Chain(o, z) = {z} \union Context!Chain(o, o[z].head)
    BY <2>1, ChainNext
  <2>3. x \in Context!Chain(o, o[z].head)
    <3>1. CASE z # x
      BY <2>1, <2>2, <3>1
    <3>2. CASE z = x
      <4>1. y \in Context!Chain(o, o[z].head)
        BY <2>2, <3>2
      <4>2. o[z].head \in DOMAIN o \union {None}
        BY <2>1 DEF Linked
      <4>3. Context!Chain(o, y) \subseteq Context!Chain(o, o[z].head)
        BY <4>1, <4>2, ChainBehind
      <4> QED
        BY <4>3
    <3> QED
      BY <3>1, <3>2
  <2>4. o[z].head # None
    BY <2>3, NoChain
  <2>5. o[z].head \in Context!Chain(o, x)
    BY <1>1, <2>1, <2>4 DEF Context!Closed, Context!NoContext, None
  <2> QED
    BY <2>3, <2>5
<1>3. Context!Chain(o, x) \subseteq S
  <2>1. Context!Closed(o, S)
    BY <1>2 DEF Context!Closed
  <2>2. x \in S /\ S \subseteq DOMAIN o
    BY <1>1
  <2> HIDE DEF S
  <2> QED
    BY <2>1, <2>2, ChainIsLeast
<1>4. PICK e \in Context!Chain(o, x) : o[e].head = None
  BY DEF Ends
<1>5. e \in S /\ o[e].head \in S
  BY <1>2, <1>3
<1>6. None \in DOMAIN o
  BY <1>1, <1>4, <1>5
<1> QED
  BY <1>6 DEF Linked

\* The first context of A in the chain from c.
First(o, A, c) ==
  LET live == {x \in Context!Chain(o, c) : x \in A}
  IN IF live = {} THEN None ELSE CHOOSE x \in live : live \subseteq Context!Chain(o, x)

\* What the chain from c has of A, the chain from the first of these has.
LEMMA FirstExists ==
  ASSUME NEW o, Linked(o), NEW A, NEW c \in DOMAIN o \union {None},
         NEW a \in Context!Chain(o, c), a \in A
  PROVE  \E x \in Context!Chain(o, c) : x \in A /\ Context!Chain(o, c) \cap A \subseteq Context!Chain(o, x)
<1> SUFFICES ASSUME \A x \in Context!Chain(o, c) : Context!Chain(o, c) \cap A \subseteq Context!Chain(o, x)
                                                    => x \notin A
             PROVE  FALSE
  OBVIOUS
<1> DEFINE S == {x \in Context!Chain(o, c) : Context!Chain(o, c) \cap A \subseteq Context!Chain(o, x)}
<1>1. /\ Context!Chain(o, c) \subseteq DOMAIN o
      /\ Context!Closed(o, Context!Chain(o, c)) /\ c \in Context!Chain(o, c) \union {None}
  BY ChainIsClosed
<1>2. c \in S \union {None} /\ S \subseteq DOMAIN o
  BY <1>1
<1>3. ASSUME NEW x \in S PROVE o[x].head \in S \union {None}
  <2>1. x \in DOMAIN o /\ x \notin A
    BY <1>1
  <2>2. Context!Chain(o, x) = {x} \union Context!Chain(o, o[x].head)
    BY <2>1, ChainNext
  <2>3. Context!Chain(o, c) \cap A \subseteq Context!Chain(o, o[x].head)
    BY <2>1, <2>2
  <2>4. o[x].head \in Context!Chain(o, c) \union {None}
    BY <1>1 DEF Context!Closed, Context!NoContext, None
  <2> QED
    BY <2>3, <2>4
<1>4. Context!Closed(o, S)
  BY <1>3 DEF Context!Closed, Context!NoContext, None
<1>5. a \in S
  <2> HIDE DEF S
  <2> QED
    BY <1>2, <1>4, ChainIsLeast
<1> QED
  BY <1>5

\* There is none, or it is the first; a context of A is the first of its chain,
\* and without A the chain begins behind it.
LEMMA FirstIs ==
  ASSUME NEW o, Linked(o), Ends(o), NEW A, NEW c \in DOMAIN o \union {None}
  PROVE  LET f == First(o, A, c)
         IN  /\ f = None <=> Context!Chain(o, c) \cap A = {}
             /\ f # None => /\ f \in Context!Chain(o, c) /\ f \in A /\ f \in DOMAIN o
                            /\ Context!Chain(o, c) \cap A \subseteq Context!Chain(o, f)
             /\ c \in A /\ c # None => f = c
<1> DEFINE f == First(o, A, c)
           live == {x \in Context!Chain(o, c) : x \in A}
<1>1. Context!Chain(o, c) \subseteq DOMAIN o /\ c \in Context!Chain(o, c) \union {None}
  BY ChainIsClosed
<1>2. CASE live = {}
  <2>1. f = None
    BY <1>2 DEF First
  <2> QED
    BY <1>1, <1>2, <2>1
<1>3. CASE live # {}
  <2>1. \E x \in live : live \subseteq Context!Chain(o, x)
    BY <1>3, FirstExists
  <2>2. f = CHOOSE x \in live : live \subseteq Context!Chain(o, x)
    BY <1>3 DEF First
  <2>3. f \in live /\ live \subseteq Context!Chain(o, f)
    <3> HIDE DEF live, f
    <3> QED
      BY <2>1, <2>2
  <2>4. f # None
    BY <1>1, <2>3 DEF Linked
  <2>5. c \in A /\ c # None => f = c
    <3> SUFFICES ASSUME c \in A, c # None PROVE f = c
      OBVIOUS
    <3>1. c \in live /\ c \in DOMAIN o
      BY <1>1
    <3>2. c \in Context!Chain(o, f) /\ f \in Context!Chain(o, c)
      BY <2>3, <3>1
    <3> HIDE DEF f, live
    <3> QED
      BY <3>1, <3>2, ChainOrder
  <2>6. live = Context!Chain(o, c) \cap A
    OBVIOUS
  <2>7. f = First(o, A, c)
    OBVIOUS
  <2> HIDE DEF f, live
  <2> QED
    BY <1>1, <1>3, <2>3, <2>4, <2>5, <2>6, <2>7
<1> QED
  BY <1>2, <1>3

\* From a context that is not of A, it is the first behind it.
LEMMA FirstBehind ==
  ASSUME NEW o, Linked(o), NEW A, NEW x \in DOMAIN o, x \notin A
  PROVE  First(o, A, x) = First(o, A, o[x].head)
<1> DEFINE live(c) == {y \in Context!Chain(o, c) : y \in A}
<1>1. live(x) = live(o[x].head)
  BY ChainNext
<1>2. \A c : First(o, A, c) = IF live(c) = {} THEN None
                              ELSE CHOOSE y \in live(c) : live(c) \subseteq Context!Chain(o, y)
  BY DEF First
<1> HIDE DEF live
<1> QED
  BY <1>1, <1>2

\* The last context of the chain from c that is not of A, or c, before the next.
LEMMA LastExists ==
  ASSUME NEW o, Linked(o), Ends(o), NEW A, NEW c \in DOMAIN o
  PROVE  \E b \in Context!Chain(o, c) : o[b].head = First(o, A, o[c].head)
<1> DEFINE next == First(o, A, o[c].head)
           S == {x \in Context!Chain(o, c) : First(o, A, o[x].head) = next}
<1> SUFFICES ASSUME \A b \in Context!Chain(o, c) : o[b].head # next PROVE FALSE
  OBVIOUS
<1>1. /\ Context!Chain(o, c) \subseteq DOMAIN o
      /\ Context!Closed(o, Context!Chain(o, c)) /\ c \in Context!Chain(o, c)
  BY ChainIsClosed DEF Linked
<1>2. First(o, A, None) = None
  BY FirstIs, NoChain
<1>3. ASSUME NEW x \in S PROVE o[x].head \in S
  <2>1. x \in DOMAIN o /\ o[x].head # next /\ First(o, A, o[x].head) = next
    BY <1>1
  <2>2. o[x].head # None
    BY <1>2, <2>1
  <2>3. o[x].head \in Context!Chain(o, c) /\ o[x].head \in DOMAIN o
    BY <1>1, <2>2 DEF Context!Closed, Context!NoContext, None
  <2>4. o[x].head \notin A
    BY <2>1, <2>2, <2>3, FirstIs
  <2>5. First(o, A, o[o[x].head].head) = next
    BY <2>1, <2>3, <2>4, FirstBehind
  <2> QED
    BY <2>3, <2>5
<1>4. Context!Chain(o, c) \subseteq S
  <2>1. Context!Closed(o, S)
    BY <1>3 DEF Context!Closed
  <2>2. c \in S /\ S \subseteq DOMAIN o
    BY <1>1
  <2> HIDE DEF S
  <2> QED
    BY <2>1, <2>2, ChainIsLeast
<1>5. PICK e \in Context!Chain(o, c) : o[e].head = None
  BY DEF Ends
<1>6. None \in DOMAIN o
  BY <1>1, <1>3, <1>4, <1>5
<1> QED
  BY <1>6 DEF Linked

\* Of two contexts of a chain, one is not behind what both are behind.
LEMMA OneBefore ==
  ASSUME NEW o, Linked(o), Ends(o), NEW c \in DOMAIN o, NEW b \in Context!Chain(o, c),
         o[b].head = o[c].head
  PROVE  b = c
<1> SUFFICES ASSUME b # c PROVE FALSE
  OBVIOUS
<1> DEFINE n == o[c].head
<1>1. Context!Chain(o, c) = {c} \union Context!Chain(o, n)
  BY ChainNext
<1>2. b \in Context!Chain(o, n) /\ n # None
  BY <1>1, NoChain
<1>3. n \in DOMAIN o
  BY <1>2 DEF Linked
<1>4. b \in DOMAIN o
  BY ChainBehind
<1>5. n \in Context!Chain(o, b)
  <2>1. Context!Chain(o, b) = {b} \union Context!Chain(o, n)
    BY <1>4, ChainNext
  <2>2. n \in Context!Chain(o, n)
    BY <1>2, <1>3, ChainIsClosed
  <2> QED
    BY <2>1, <2>2
<1>6. b = n
  <2> HIDE DEF n
  <2> QED
    BY <1>2, <1>3, <1>5, ChainOrder
<1>7. o[n].head = n
  BY <1>6
<1>8. Context!Closed(o, {n})
  BY <1>7 DEF Context!Closed
<1>9. Context!Chain(o, n) \subseteq {n}
  <2> HIDE DEF n
  <2> QED
    BY <1>3, <1>8, ChainIsLeast
<1>10. PICK e \in Context!Chain(o, n) : o[e].head = None
  BY <1>3 DEF Ends
<1> QED
  BY <1>2, <1>7, <1>9, <1>10

\* Contexts of A in the chain from h are linked to the next of A, past the
\* others; what a chain in A holds stays as it is.
Relinked(o, A, h, p) ==
  /\ DOMAIN p = DOMAIN o
  /\ \A x \in DOMAIN o :
       p[x].head = IF x \in Context!Chain(o, h) /\ x \in A THEN First(o, A, o[x].head) ELSE o[x].head
  /\ \A x \in DOMAIN o : Context!Chain(o, x) \subseteq A => p[x] = o[x]

\* Relinking leads nowhere else ...
LEMMA RelinkedIsLinked ==
  ASSUME NEW o, Linked(o), Ends(o), NEW A, NEW h, NEW p, Relinked(o, A, h, p)
  PROVE  /\ Linked(p)
         /\ \A x \in DOMAIN o : Context!Chain(p, x) \subseteq Context!Chain(o, x)
<1>1. ASSUME NEW y \in DOMAIN o
      PROVE  \/ p[y].head \in {o[y].head, None}
             \/ p[y].head \in Context!Chain(o, o[y].head) /\ p[y].head \in DOMAIN o
  <2>1. o[y].head \in DOMAIN o \union {None}
    BY DEF Linked
  <2> QED
    BY <2>1, FirstIs DEF Relinked
<1>2. DOMAIN p = DOMAIN o
  BY DEF Relinked
<1>3. Linked(p)
  BY <1>1, <1>2 DEF Linked
<1>4. ASSUME NEW x \in DOMAIN o PROVE Context!Chain(p, x) \subseteq Context!Chain(o, x)
  <2>1. /\ Context!Chain(o, x) \subseteq DOMAIN o
        /\ Context!Closed(o, Context!Chain(o, x)) /\ x \in Context!Chain(o, x)
    BY ChainIsClosed DEF Linked
  <2>2. ASSUME NEW y \in Context!Chain(o, x) PROVE p[y].head \in Context!Chain(o, x) \union {None}
    <3>1. y \in DOMAIN o
      BY <2>1
    <3>2. o[y].head \in Context!Chain(o, x) \union {None}
      BY <2>1 DEF Context!Closed, Context!NoContext, None
    <3>3. Context!Chain(o, y) = {y} \union Context!Chain(o, o[y].head)
      BY <3>1, ChainNext
    <3>4. Context!Chain(o, y) \subseteq Context!Chain(o, x)
      BY ChainBehind
    <3> QED
      BY <1>1, <3>1, <3>2, <3>3, <3>4
  <2>3. Context!Closed(p, Context!Chain(o, x))
    BY <2>2 DEF Context!Closed, Context!NoContext, None
  <2> QED
    BY <1>2, <2>1, <2>3, ChainIsLeast
<1> QED
  BY <1>3, <1>4

\* ... and leaves out nothing of A, ...
LEMMA RelinkedKeeps ==
  ASSUME NEW o, Linked(o), Ends(o), NEW A, NEW h, NEW p, Relinked(o, A, h, p), NEW x \in DOMAIN o
  PROVE  Context!Chain(o, x) \cap A \subseteq Context!Chain(p, x)
<1> DEFINE S == {y \in Context!Chain(o, x) :
                   \/ y \in Context!Chain(p, x)
                   \/ y \notin A /\ First(o, A, y) \in Context!Chain(p, x) \union {None}}
<1>1. /\ Context!Chain(o, x) \subseteq DOMAIN o
      /\ Context!Closed(o, Context!Chain(o, x)) /\ x \in Context!Chain(o, x)
  BY ChainIsClosed DEF Linked
<1>2. Linked(p) /\ DOMAIN p = DOMAIN o
  <2>1. DOMAIN p = DOMAIN o
    BY DEF Relinked
  <2> QED
    BY <2>1, RelinkedIsLinked
<1>3. Context!Closed(p, Context!Chain(p, x)) /\ x \in Context!Chain(p, x)
  BY <1>2, ChainIsClosed DEF Linked
<1>4. ASSUME NEW y \in S PROVE o[y].head \in S \union {None}
  <2> DEFINE z == o[y].head
  <2> SUFFICES ASSUME z # None PROVE z \in S
    OBVIOUS
  <2>1. y \in DOMAIN o /\ y \in Context!Chain(o, x)
    BY <1>1
  <2>2. z \in Context!Chain(o, x) /\ z \in DOMAIN o
    BY <1>1, <2>1 DEF Context!Closed, Context!NoContext, None
  <2>3. z \in A => First(o, A, z) = z
    BY <2>2, FirstIs
  <2>4. SUFFICES z \in Context!Chain(p, x) \/ First(o, A, z) \in Context!Chain(p, x) \union {None}
    BY <2>2, <2>3
  <2>5. CASE y \in Context!Chain(p, x)
    <3>1. p[y].head \in Context!Chain(p, x) \union {None}
      BY <1>3, <2>5 DEF Context!Closed, Context!NoContext, None
    <3>2. p[y].head = z \/ p[y].head = First(o, A, z)
      BY <2>1 DEF Relinked
    <3> QED
      BY <3>1, <3>2
  <2>6. CASE y \notin A /\ First(o, A, y) \in Context!Chain(p, x) \union {None}
    BY <2>1, <2>6, FirstBehind
  <2> QED
    BY <2>5, <2>6
<1>5. Context!Chain(o, x) \subseteq S
  <2>1. Context!Closed(o, S)
    BY <1>4 DEF Context!Closed, Context!NoContext, None
  <2>2. x \in S /\ S \subseteq DOMAIN o
    BY <1>1, <1>3
  <2> HIDE DEF S
  <2> QED
    BY <2>1, <2>2, ChainIsLeast
<1> QED
  BY <1>5

\* ... and every chain still ends.
LEMMA RelinkedEnds ==
  ASSUME NEW o, Linked(o), Ends(o), NEW A, NEW h, NEW p, Relinked(o, A, h, p)
  PROVE  Ends(p)
<1> SUFFICES ASSUME NEW x \in DOMAIN o, \A e \in Context!Chain(p, x) : p[e].head # None
             PROVE  FALSE
  BY DEF Ends, Relinked
<1> DEFINE S == {y \in Context!Chain(o, x) :
                   \/ y \in Context!Chain(p, x)
                   \/ y \notin A /\ First(o, A, y) \in Context!Chain(p, x)}
<1>1. /\ Context!Chain(o, x) \subseteq DOMAIN o
      /\ Context!Closed(o, Context!Chain(o, x)) /\ x \in Context!Chain(o, x)
  BY ChainIsClosed DEF Linked
<1>2. Linked(p) /\ DOMAIN p = DOMAIN o
  <2>1. DOMAIN p = DOMAIN o
    BY DEF Relinked
  <2> QED
    BY <2>1, RelinkedIsLinked
<1>3. /\ Context!Closed(p, Context!Chain(p, x)) /\ x \in Context!Chain(p, x)
      /\ None \notin Context!Chain(p, x)
  BY <1>2, ChainIsClosed DEF Linked
<1>4. First(o, A, None) = None
  BY FirstIs, NoChain
<1>5. ASSUME NEW y \in S PROVE o[y].head \in S
  <2> DEFINE z == o[y].head
  <2>1. y \in DOMAIN o /\ y \in Context!Chain(o, x)
    BY <1>1
  <2>2. z \in Context!Chain(p, x) \/ First(o, A, z) \in Context!Chain(p, x)
    <3>1. CASE y \in Context!Chain(p, x)
      <4>1. p[y].head \in Context!Chain(p, x)
        BY <1>3, <3>1 DEF Context!Closed, Context!NoContext, None
      <4>2. p[y].head = z \/ p[y].head = First(o, A, z)
        BY <2>1 DEF Relinked
      <4> QED
        BY <4>1, <4>2
    <3>2. CASE y \notin A /\ First(o, A, y) \in Context!Chain(p, x)
      BY <2>1, <3>2, FirstBehind
    <3> QED
      BY <3>1, <3>2
  <2>3. z # None
    BY <1>3, <1>4, <2>2
  <2>4. z \in Context!Chain(o, x) /\ z \in DOMAIN o
    BY <1>1, <2>1, <2>3 DEF Context!Closed, Context!NoContext, None
  <2>5. z \in A => First(o, A, z) = z
    BY <2>3, <2>4, FirstIs
  <2> QED
    BY <2>2, <2>4, <2>5
<1>6. Context!Chain(o, x) \subseteq S
  <2>1. Context!Closed(o, S)
    BY <1>5 DEF Context!Closed
  <2>2. x \in S /\ S \subseteq DOMAIN o
    BY <1>1, <1>3
  <2> HIDE DEF S
  <2> QED
    BY <2>1, <2>2, ChainIsLeast
<1>7. PICK e \in Context!Chain(o, x) : o[e].head = None
  BY DEF Ends
<1>8. None \in DOMAIN o
  BY <1>1, <1>5, <1>6, <1>7
<1> QED
  BY <1>8 DEF Linked

\* The chain of what is entered is what the chain had of A.
LEMMA RelinkedHead ==
  ASSUME NEW o, Linked(o), Ends(o), NEW A, NEW h \in DOMAIN o \union {None}, NEW p,
         Relinked(o, A, h, p)
  PROVE  Context!Chain(p, First(o, A, h)) = Context!Chain(o, h) \cap A
<1> DEFINE f == First(o, A, h)
<1>1. CASE f = None
  BY <1>1, FirstIs, NoChain
<1>2. CASE f # None
  <2>1. /\ f \in Context!Chain(o, h) /\ f \in A /\ f \in DOMAIN o
        /\ Context!Chain(o, h) \cap A \subseteq Context!Chain(o, f)
    BY <1>2, FirstIs
  <2>2. Context!Chain(o, h) \cap A \subseteq Context!Chain(p, f)
    <3> HIDE DEF f
    <3>1. Context!Chain(o, f) \cap A \subseteq Context!Chain(p, f)
      BY <2>1, RelinkedKeeps
    <3> QED
      BY <2>1, <3>1
  <2>3. ASSUME NEW y \in Context!Chain(o, h) \cap A
        PROVE  p[y].head \in (Context!Chain(o, h) \cap A) \union {None}
    <3>1. y \in DOMAIN o /\ Context!Chain(o, y) \subseteq Context!Chain(o, h)
      BY ChainBehind
    <3>2. Context!Chain(o, y) = {y} \union Context!Chain(o, o[y].head)
      BY <3>1, ChainNext
    <3>3. p[y].head = First(o, A, o[y].head)
      BY <3>1 DEF Relinked
    <3>4. o[y].head \in DOMAIN o \union {None}
      BY <3>1 DEF Linked
    <3> QED
      BY <3>1, <3>2, <3>3, <3>4, FirstIs
  <2>4. Context!Closed(p, Context!Chain(o, h) \cap A)
    BY <2>3 DEF Context!Closed, Context!NoContext, None
  <2>5. Context!Chain(o, h) \cap A \subseteq DOMAIN p
    BY ChainIsClosed DEF Relinked
  <2>6. Context!Chain(p, f) \subseteq Context!Chain(o, h) \cap A
    <3> HIDE DEF f
    <3> QED
      BY <2>1, <2>4, <2>5, ChainIsLeast
  <2> QED
    BY <2>2, <2>6
<1> QED
  BY <1>1, <1>2

\* To the contexts o, c is added with the value v: no other chain changes.
Extended(o, c, v, p) ==
  /\ DOMAIN p = DOMAIN o \union {c} /\ p[c] = v /\ \A x \in DOMAIN o : p[x] = o[x]
  /\ Linked(p)
  /\ Ends(p)
  /\ \A x \in DOMAIN o \union {None} : Context!Chain(p, x) = Context!Chain(o, x)
  /\ Context!Chain(p, c) = {c} \union Context!Chain(o, v.head)

\* A context that is opened is at the head of a chain of its own.
LEMMA ExtendedChains ==
  ASSUME NEW o, Linked(o), Ends(o), NEW c, c \notin DOMAIN o, c # None,
         NEW v, v.head \in DOMAIN o \union {None}, NEW p, p = Context!Extend(o, c, v)
  PROVE  Extended(o, c, v, p)
<1>1. DOMAIN p = DOMAIN o \union {c} /\ p[c] = v /\ \A x \in DOMAIN o : p[x] = o[x]
  BY DEF Context!Extend
<1>2. Linked(p)
  BY <1>1 DEF Linked
<1>3. ASSUME NEW x \in DOMAIN o PROVE Context!Chain(p, x) = Context!Chain(o, x)
  <2>1. /\ Context!Chain(o, x) \subseteq DOMAIN o
        /\ Context!Closed(o, Context!Chain(o, x)) /\ x \in Context!Chain(o, x)
    BY ChainIsClosed DEF Linked
  <2>2. Context!Closed(p, Context!Chain(o, x))
    BY <1>1, <2>1 DEF Context!Closed
  <2>3. Context!Chain(p, x) \subseteq Context!Chain(o, x)
    BY <1>1, <2>1, <2>2, ChainIsLeast
  <2>4. Context!Closed(p, Context!Chain(p, x)) /\ x \in Context!Chain(p, x)
    BY <1>1, <1>2, ChainIsClosed DEF Linked
  <2>5. Context!Closed(o, Context!Chain(p, x)) /\ Context!Chain(p, x) \subseteq DOMAIN o
    BY <1>1, <2>1, <2>3, <2>4 DEF Context!Closed
  <2> QED
    BY <2>3, <2>4, <2>5, ChainIsLeast
<1>4. Context!Chain(p, None) = {} /\ Context!Chain(o, None) = {}
  BY NoChain
<1>5. Context!Chain(p, c) = {c} \union Context!Chain(o, v.head)
  <2>1. Context!Chain(p, c) = {c} \union Context!Chain(p, v.head)
    BY <1>1, <1>2, ChainNext
  <2> QED
    BY <1>3, <1>4, <2>1
<1>6. Ends(p)
  <2>1. ASSUME NEW x \in DOMAIN o PROVE \E e \in Context!Chain(p, x) : p[e].head = None
    <3>1. PICK e \in Context!Chain(o, x) : o[e].head = None
      BY DEF Ends
    <3>2. e \in DOMAIN o
      BY ChainIsClosed
    <3> QED
      BY <1>1, <1>3, <3>1, <3>2
  <2>2. \E e \in Context!Chain(p, c) : p[e].head = None
    <3>1. CASE v.head = None
      BY <1>1, <1>5, <3>1
    <3>2. CASE v.head # None
      <4>1. PICK e \in Context!Chain(p, v.head) : p[e].head = None
        BY <2>1, <3>2
      <4> QED
        BY <1>3, <1>4, <1>5, <4>1
    <3> QED
      BY <3>1, <3>2
  <2> QED
    BY <1>1, <2>1, <2>2 DEF Ends
<1> QED
  BY <1>1, <1>2, <1>3, <1>4, <1>5, <1>6 DEF Extended

-----------------------------------------------------------------------------
(* What is in progress, and the contexts it runs under.                    *)

\* Contexts to enter, with the head of a chain.
Pairs == [stack : SUBSET StackContexts, head : Context!Contexts \union {None}]

\* Blocks and calls in progress.
Frames == [kind : {"with", "call", "null"},
           what : Context!Contexts \union Functions_ \union {None},
           contexts : Pairs, saved : Pairs]

\* The contexts that have been opened and not deactivated.
Live == {x \in DOMAIN old : active[x]}

\* What the first i blocks and calls in progress leave to run under.
Under(fs, i) == IF i = 0 THEN Context!Nothing ELSE fs[i].contexts

\* Each was begun under what the one before it had set up.
Nested(fs) ==
  /\ fs \in Seq(Frames)
  /\ \A i \in DOMAIN fs : fs[i].saved = Under(fs, i - 1)

\* Contexts in force, where A are active: all are, and they are to be entered
\* just as the chain has them.
InForce(o, A, pair) ==
  /\ pair.head \in DOMAIN o \union {None}
  /\ Context!Chain(o, pair.head) \subseteq A
  /\ pair.stack = Context!Chain(o, pair.head) \cap StackContexts

\* What is in progress runs under contexts in force, and a block's context knows
\* what to restore.
Upright(o, A, frame) ==
  /\ InForce(o, A, frame.contexts)
  /\ frame.kind = "null" => frame.contexts = Context!Nothing
  /\ frame.kind = "with" =>
       /\ frame.what \in DOMAIN o /\ o[frame.what] = frame.saved
       /\ frame.contexts.head = frame.what

\* Wrapped functions: a context that is still active is among those to enter
\* just when it is in the chain.
Agrees(o, A, pair) ==
  /\ pair.head \in DOMAIN o \union {None}
  /\ pair.stack \subseteq DOMAIN o \cap StackContexts
  /\ pair.stack \cap A = Context!Chain(o, pair.head) \cap StackContexts \cap A

\* The blocks and calls in progress that have entered c.
Holds(frame, c) ==
  \/ frame.kind = "with" /\ frame.what = c
  \/ frame.kind = "call" /\ c \in frame.contexts.stack

Holding(fs, c) == {i \in DOMAIN fs : Holds(fs[i], c)}

ChainsInv ==
  /\ DOMAIN old \subseteq Context!Contexts
  /\ Linked(old)
  /\ Ends(old)

ActiveInv ==
  /\ active \in [Context!Contexts -> BOOLEAN]
  /\ \A c \in Context!Contexts : c \notin DOMAIN old => active[c]

FramesInv ==
  /\ Nested(frames)
  /\ current = Under(frames, Len(frames))
  /\ \A i \in DOMAIN frames : Upright(old, Live, frames[i])

CapturedInv == \A f \in DOMAIN captured : Agrees(old, Live, captured[f])

DepthInv ==
  /\ depth \in [Context!Contexts -> Nat]
  /\ ~broken
  /\ \A c \in StackContexts : depth[c] = Cardinality(Holding(frames, c))

ContextsInv == ChainsInv /\ ActiveInv /\ FramesInv /\ CapturedInv /\ DepthInv

-----------------------------------------------------------------------------
(* Blocks and calls begin and end.                                         *)

\* A block or a call begins ...
LEMMA Pushed ==
  ASSUME NEW fs \in Seq(Frames), NEW frame \in Frames
  PROVE  LET gs == Append(fs, frame)
         IN  /\ gs \in Seq(Frames) /\ Len(gs) = Len(fs) + 1 /\ Len(fs) \in Nat
             /\ DOMAIN fs = 1 .. Len(fs)
             /\ DOMAIN gs = DOMAIN fs \union {Len(fs) + 1}
             /\ gs[Len(fs) + 1] = frame /\ \A i \in DOMAIN fs : gs[i] = fs[i]
OBVIOUS

\* ... or ends.
LEMMA Popped ==
  ASSUME NEW fs \in Seq(Frames), fs # <<>>
  PROVE  LET gs == SubSeq(fs, 1, Len(fs) - 1)
         IN  /\ gs \in Seq(Frames) /\ Len(gs) = Len(fs) - 1 /\ Len(gs) \in Nat
             /\ DOMAIN fs = DOMAIN gs \union {Len(fs)} /\ Len(fs) \notin DOMAIN gs
             /\ DOMAIN gs = 1 .. Len(gs) /\ Len(fs) \in Nat \ {0}
             /\ \A i \in DOMAIN gs : gs[i] = fs[i]
             /\ fs[Len(fs)] \in Frames
<1> DEFINE gs == SubSeq(fs, 1, Len(fs) - 1)
<1>1. Len(fs) \in Nat \ {0} /\ DOMAIN fs = 1 .. Len(fs) /\ fs[Len(fs)] \in Frames
  OBVIOUS
<1>2. gs \in Seq(Frames) /\ Len(gs) = Len(fs) - 1 /\ \A i \in 1 .. Len(fs) - 1 : gs[i] = fs[i]
  BY <1>1
<1>3. Len(gs) \in Nat /\ DOMAIN gs = 1 .. Len(gs)
  BY <1>2
<1>4. gs = SubSeq(fs, 1, Len(fs) - 1)
  OBVIOUS
<1> HIDE DEF gs
<1>5. DOMAIN fs = DOMAIN gs \union {Len(fs)} /\ Len(fs) \notin DOMAIN gs
  BY <1>1, <1>2, <1>3
<1>6. \A i \in DOMAIN gs : gs[i] = fs[i]
  BY <1>2, <1>3
<1> QED
  BY <1>1, <1>2, <1>3, <1>4, <1>5, <1>6

\* What hold c are finitely many.
LEMMA HoldingFinite ==
  ASSUME NEW fs \in Seq(Frames), NEW c
  PROVE  IsFiniteSet(Holding(fs, c)) /\ Cardinality(Holding(fs, c)) \in Nat
<1>1. IsFiniteSet(1 .. Len(fs))
  BY FS_Interval
<1>2. Holding(fs, c) \subseteq 1 .. Len(fs)
  BY DEF Holding
<1>3. IsFiniteSet(Holding(fs, c))
  BY <1>1, <1>2, FS_Subset
<1> QED
  BY <1>3, FS_CardinalityType

\* One more or one fewer holds what the block or call holds.
LEMMA PushedHolds ==
  ASSUME NEW fs \in Seq(Frames), NEW frame \in Frames, NEW c
  PROVE  Cardinality(Holding(Append(fs, frame), c)) =
           Cardinality(Holding(fs, c)) + (IF Holds(frame, c) THEN 1 ELSE 0)
<1> DEFINE gs == Append(fs, frame)
           n == Len(fs) + 1
<1>1. /\ DOMAIN gs = DOMAIN fs \union {n} /\ gs[n] = frame
      /\ \A i \in DOMAIN fs : gs[i] = fs[i] /\ n \notin DOMAIN fs
  BY Pushed
<1>2. n \notin Holding(fs, c)
  BY DEF Holding
<1>3. Holding(gs, c) = IF Holds(frame, c) THEN Holding(fs, c) \union {n} ELSE Holding(fs, c)
  BY <1>1 DEF Holding
<1>4. IsFiniteSet(Holding(fs, c)) /\ Cardinality(Holding(fs, c)) \in Nat
  BY HoldingFinite
<1>5. Cardinality(Holding(fs, c) \union {n}) = Cardinality(Holding(fs, c)) + 1
  BY <1>2, <1>4, FS_AddElement
<1> HIDE DEF gs, n
<1>6. Cardinality(Holding(gs, c)) = Cardinality(Holding(fs, c)) + (IF Holds(frame, c) THEN 1 ELSE 0)
  BY <1>3, <1>4, <1>5
<1> QED
  BY <1>6 DEF gs

\* ... and one fewer hold it when the last frame, which did, returns.
LEMMA PoppedHolds ==
  ASSUME NEW fs \in Seq(Frames), fs # <<>>, NEW c
  PROVE  LET gs == SubSeq(fs, 1, Len(fs) - 1)
         IN  /\ Cardinality(Holding(fs, c)) =
                  Cardinality(Holding(gs, c)) + (IF Holds(fs[Len(fs)], c) THEN 1 ELSE 0)
             /\ Cardinality(Holding(gs, c)) \in Nat
<1> DEFINE gs == SubSeq(fs, 1, Len(fs) - 1)
           n == Len(fs)
<1>1. /\ DOMAIN fs = DOMAIN gs \union {n} /\ n \notin DOMAIN gs
      /\ \A i \in DOMAIN gs : gs[i] = fs[i]
      /\ gs \in Seq(Frames)
  BY Popped
<1>2. n \notin Holding(gs, c)
  BY <1>1 DEF Holding
<1>3. Holding(fs, c) = IF Holds(fs[n], c) THEN Holding(gs, c) \union {n} ELSE Holding(gs, c)
  BY <1>1 DEF Holding
<1>4. IsFiniteSet(Holding(gs, c)) /\ Cardinality(Holding(gs, c)) \in Nat
  BY <1>1, HoldingFinite
<1>5. Cardinality(Holding(gs, c) \union {n}) = Cardinality(Holding(gs, c)) + 1
  BY <1>2, <1>4, FS_AddElement
<1> HIDE DEF gs, n
<1>6. Cardinality(Holding(fs, c)) = Cardinality(Holding(gs, c)) + (IF Holds(fs[n], c) THEN 1 ELSE 0)
  BY <1>3, <1>4, <1>5
<1> QED
  BY <1>4, <1>6 DEF gs, n

\* What begins under what there is nests, ...
LEMMA PushedNested ==
  ASSUME NEW fs, Nested(fs), NEW frame \in Frames, frame.saved = Under(fs, Len(fs))
  PROVE  LET gs == Append(fs, frame)
         IN  /\ Nested(gs) /\ Under(gs, Len(gs)) = frame.contexts
             /\ \A i \in DOMAIN gs : gs[i] = frame \/ (i \in DOMAIN fs /\ gs[i] = fs[i])
<1> DEFINE gs == Append(fs, frame)
<1>1. fs \in Seq(Frames)
  BY DEF Nested
<1>2. /\ gs \in Seq(Frames) /\ Len(gs) = Len(fs) + 1 /\ Len(fs) \in Nat
      /\ DOMAIN fs = 1 .. Len(fs)
      /\ DOMAIN gs = DOMAIN fs \union {Len(fs) + 1}
      /\ gs[Len(fs) + 1] = frame /\ \A i \in DOMAIN fs : gs[i] = fs[i]
  BY <1>1, Pushed
<1>3. gs = Append(fs, frame)
  OBVIOUS
<1> HIDE DEF gs
<1>4. \A i \in 0 .. Len(fs) : Under(gs, i) = Under(fs, i)
  BY <1>2 DEF Under
<1>5. ASSUME NEW i \in DOMAIN gs PROVE gs[i].saved = Under(gs, i - 1)
  <2>1. CASE i \in DOMAIN fs
    <3>1. fs[i].saved = Under(fs, i - 1)
      BY <2>1 DEF Nested
    <3>2. i - 1 \in 0 .. Len(fs)
      BY <1>2, <2>1
    <3> QED
      BY <1>2, <1>4, <2>1, <3>1, <3>2
  <2>2. CASE i = Len(fs) + 1
    <3>1. Len(fs) \in 0 .. Len(fs) /\ i - 1 = Len(fs)
      BY <1>2, <2>2
    <3> QED
      BY <1>2, <1>4, <2>2, <3>1
  <2> QED
    BY <1>2, <2>1, <2>2
<1>6. Nested(gs)
  BY <1>2, <1>5 DEF Nested
<1>7. Under(gs, Len(gs)) = frame.contexts
  BY <1>2 DEF Under
<1>8. \A i \in DOMAIN gs : gs[i] = frame \/ (i \in DOMAIN fs /\ gs[i] = fs[i])
  BY <1>2
<1> QED
  BY <1>3, <1>6, <1>7, <1>8

\* ... and so does what is left when the innermost ends.
LEMMA PoppedNested ==
  ASSUME NEW fs, Nested(fs), fs # <<>>
  PROVE  LET gs == SubSeq(fs, 1, Len(fs) - 1)
         IN  /\ Nested(gs) /\ Under(gs, Len(gs)) = fs[Len(fs)].saved
             /\ \A i \in DOMAIN gs : i \in DOMAIN fs /\ gs[i] = fs[i]
             /\ Len(fs) \in DOMAIN fs /\ fs[Len(fs)] \in Frames
             /\ Under(fs, Len(fs)) = fs[Len(fs)].contexts
<1> DEFINE gs == SubSeq(fs, 1, Len(fs) - 1)
<1>1. fs \in Seq(Frames)
  BY DEF Nested
<1>2. /\ gs \in Seq(Frames) /\ Len(gs) = Len(fs) - 1 /\ Len(gs) \in Nat
      /\ DOMAIN fs = DOMAIN gs \union {Len(fs)} /\ Len(fs) \notin DOMAIN gs
      /\ DOMAIN gs = 1 .. Len(gs) /\ Len(fs) \in Nat \ {0}
      /\ \A i \in DOMAIN gs : gs[i] = fs[i]
      /\ fs[Len(fs)] \in Frames
  BY <1>1, Popped
<1>3. gs = SubSeq(fs, 1, Len(fs) - 1)
  OBVIOUS
<1> HIDE DEF gs
<1>4. \A i \in 0 .. Len(gs) : Under(gs, i) = Under(fs, i)
  BY <1>2 DEF Under
<1>5. ASSUME NEW i \in DOMAIN gs PROVE gs[i].saved = Under(gs, i - 1)
  <2>1. fs[i].saved = Under(fs, i - 1)
    BY <1>2 DEF Nested
  <2>2. i - 1 \in 0 .. Len(gs)
    BY <1>2
  <2> QED
    BY <1>2, <1>4, <2>1, <2>2
<1>6. Nested(gs)
  BY <1>2, <1>5 DEF Nested
<1>7. Under(gs, Len(gs)) = fs[Len(fs)].saved
  <2>1. Under(gs, Len(gs)) = Under(fs, Len(fs) - 1)
    BY <1>2, <1>4
  <2> QED
    BY <1>2, <2>1 DEF Nested
<1>8. Under(fs, Len(fs)) = fs[Len(fs)].contexts
  BY <1>2 DEF Under
<1> QED
  BY <1>2, <1>3, <1>6, <1>7, <1>8

\* Contexts in force agree, whether or not contexts are deactivated later.
LEMMA InForceAgrees ==
  ASSUME NEW o, Linked(o), NEW A, NEW pair, InForce(o, A, pair)
  PROVE  Agrees(o, A, pair)
<1>1. Context!Chain(o, pair.head) \subseteq DOMAIN o
  BY ChainIsClosed DEF InForce
<1> QED
  BY <1>1 DEF InForce, Agrees

\* Opening a context, ...
LEMMA ExtendedKeeps ==
  ASSUME NEW o, Linked(o), Ends(o), NEW A, NEW c, c \notin DOMAIN o, c # None,
         NEW v, v.head \in DOMAIN o \union {None}, NEW p, p = Context!Extend(o, c, v)
  PROVE  /\ \A frame : Upright(o, A, frame) => Upright(p, A \union {c}, frame)
         /\ \A pair : Agrees(o, A, pair) => Agrees(p, A \union {c}, pair)
<1>1. /\ DOMAIN p = DOMAIN o \union {c} /\ \A x \in DOMAIN o : p[x] = o[x]
      /\ \A x \in DOMAIN o \union {None} : Context!Chain(p, x) = Context!Chain(o, x)
  <2>1. Extended(o, c, v, p)
    BY ExtendedChains
  <2> QED
    BY <2>1 DEF Extended
<1>2. \A x \in DOMAIN o \union {None} : c \notin Context!Chain(o, x)
  BY ChainIsClosed
<1>3. ASSUME NEW frame, Upright(o, A, frame) PROVE Upright(p, A \union {c}, frame)
  <2>1. InForce(p, A \union {c}, frame.contexts)
    BY <1>1, <1>3 DEF Upright, InForce
  <2> QED
    BY <1>1, <1>3, <2>1 DEF Upright
<1>4. ASSUME NEW pair, Agrees(o, A, pair) PROVE Agrees(p, A \union {c}, pair)
  <2>1. pair.head \in DOMAIN o \union {None} /\ c \notin pair.stack
    BY <1>4 DEF Agrees
  <2> QED
    BY <1>1, <1>2, <1>4, <2>1 DEF Agrees
<1> QED
  BY <1>3, <1>4

\* ... relinking and ...
LEMMA RelinkedKeepsAll ==
  ASSUME NEW o, Linked(o), Ends(o), NEW A, NEW h, NEW p, Relinked(o, A, h, p)
  PROVE  /\ \A frame : Upright(o, A, frame) => Upright(p, A, frame)
         /\ \A pair : Agrees(o, A, pair) => Agrees(p, A, pair)
<1>1. DOMAIN p = DOMAIN o
  BY DEF Relinked
<1>2. ASSUME NEW x \in DOMAIN o \union {None}
      PROVE  /\ Context!Chain(p, x) \cap A = Context!Chain(o, x) \cap A
             /\ Context!Chain(o, x) \subseteq A => Context!Chain(p, x) = Context!Chain(o, x)
  <2>1. CASE x = None
    BY <2>1, NoChain
  <2>2. CASE x \in DOMAIN o
    BY <2>2, RelinkedIsLinked, RelinkedKeeps
  <2> QED
    BY <2>1, <2>2
<1>3. ASSUME NEW frame, Upright(o, A, frame) PROVE Upright(p, A, frame)
  <2>1. InForce(p, A, frame.contexts)
    BY <1>1, <1>2, <1>3 DEF Upright, InForce
  <2>2. frame.kind = "with" => p[frame.what] = o[frame.what]
    BY <1>3 DEF Upright, InForce, Relinked
  <2> QED
    BY <1>1, <1>3, <2>1, <2>2 DEF Upright
<1>4. ASSUME NEW pair, Agrees(o, A, pair) PROVE Agrees(p, A, pair)
  BY <1>1, <1>2, <1>4 DEF Agrees
<1> QED
  BY <1>3, <1>4

-----------------------------------------------------------------------------
(* Steps.                                                                  *)

\* What runs now runs under contexts in force.
LEMMA CurrentInForce ==
  ASSUME ChainsInv, FramesInv
  PROVE  current \in Pairs /\ InForce(old, Live, current)
<1>1. frames \in Seq(Frames) /\ Nested(frames) /\ current = Under(frames, Len(frames))
  BY DEF FramesInv, Nested
<1>2. CASE frames = <<>>
  <2>1. current = Context!Nothing
    BY <1>1, <1>2 DEF Under
  <2>2. current \in Pairs /\ current.head = None /\ current.stack = {}
    BY <2>1 DEF Context!Nothing, Context!NoContext, Pairs, None
  <2>3. Context!Chain(old, None) = {}
    BY NoChain
  <2> QED
    BY <2>2, <2>3 DEF InForce
<1>3. CASE frames # <<>>
  <2>1. Len(frames) \in DOMAIN frames /\ frames[Len(frames)] \in Frames
        /\ current = frames[Len(frames)].contexts
    BY <1>1, <1>3, PoppedNested
  <2>2. Upright(old, Live, frames[Len(frames)])
    BY <2>1 DEF FramesInv
  <2> QED
    BY <2>1, <2>2 DEF Upright, Frames
<1> QED
  BY <1>2, <1>3

\* A block or call begins, under contexts that are in force then.
LEMMA FramesPush ==
  ASSUME FramesInv, NEW frame \in Frames, frame.saved = current,
         frames' = Append(frames, frame), current' = frame.contexts,
         \A i \in DOMAIN frames : Upright(old', Live', frames[i]), Upright(old', Live', frame)
  PROVE  FramesInv'
<1>1. Nested(frames) /\ frame.saved = Under(frames, Len(frames))
  BY DEF FramesInv
<1>2. /\ Nested(frames') /\ Under(frames', Len(frames')) = frame.contexts
      /\ \A i \in DOMAIN frames' : frames'[i] = frame \/ (i \in DOMAIN frames /\ frames'[i] = frames[i])
  BY <1>1, PushedNested
<1>3. \A i \in DOMAIN frames' : Upright(old', Live', frames'[i])
  BY <1>2
<1> QED
  BY <1>2, <1>3 DEF FramesInv

\* One ends.
LEMMA FramesPop ==
  ASSUME FramesInv, frames # <<>>, Context!Pop, current' = Context!Top.saved,
         UNCHANGED <<old, active>>
  PROVE  FramesInv'
<1>1. Nested(frames) /\ \A i \in DOMAIN frames : Upright(old, Live, frames[i])
  BY DEF FramesInv
<1>2. /\ Nested(frames') /\ Under(frames', Len(frames')) = frames[Len(frames)].saved
      /\ \A i \in DOMAIN frames' : i \in DOMAIN frames /\ frames'[i] = frames[i]
  BY <1>1, PoppedNested DEF Context!Pop
<1>3. current' = frames[Len(frames)].saved
  BY DEF Context!Top
<1>4. Live' = Live
  BY DEF Live
<1>5. \A i \in DOMAIN frames' : Upright(old', Live', frames'[i])
  BY <1>1, <1>2, <1>4
<1> QED
  BY <1>2, <1>3, <1>5 DEF FramesInv

\* Nothing is said of the contexts when they and what is active stay.
LEMMA TablesKept ==
  ASSUME ChainsInv, ActiveInv, UNCHANGED <<old, active>>
  PROVE  ChainsInv' /\ ActiveInv' /\ Live' = Live
BY DEF ChainsInv, ActiveInv, Live

\* A block begins: its context is at the head of a chain in force.
LEMMA BeginKeeps ==
  ASSUME ContextsInv, NEW c \in Context!Contexts, NEW stack,
         stack = IF c \in StackContexts THEN current.stack \union {c} ELSE current.stack,
         Context!Begin(c, stack)
  PROVE  /\ ChainsInv' /\ ActiveInv' /\ FramesInv' /\ CapturedInv'
         /\ frames' = Append(frames, Context!Frame("with", c, [stack |-> stack, head |-> c]))
         /\ Context!Frame("with", c, [stack |-> stack, head |-> c]) \in Frames
<1> DEFINE new == [stack |-> stack, head |-> c]
           frame == Context!Frame("with", c, new)
<1>1. /\ ChainsInv /\ ActiveInv /\ FramesInv /\ CapturedInv
  BY DEF ContextsInv
<1>2. /\ c \notin DOMAIN old /\ old' = Context!Extend(old, c, current)
      /\ current' = new /\ frames' = Append(frames, frame)
      /\ active' = active /\ captured' = captured
  BY DEF Context!Begin, Context!Opened
<1>3. current \in Pairs /\ InForce(old, Live, current)
  BY <1>1, CurrentInForce
<1>4. Linked(old) /\ Ends(old) /\ DOMAIN old \subseteq Context!Contexts
  BY <1>1 DEF ChainsInv
<1>5. c # None
  BY ContextsAssumption DEF None, Context!Contexts
<1>6. current.head \in DOMAIN old \union {None}
  BY <1>3 DEF InForce
<1>7. /\ DOMAIN old' = DOMAIN old \union {c} /\ old'[c] = current
      /\ \A x \in DOMAIN old : old'[x] = old[x]
      /\ Linked(old') /\ Ends(old')
      /\ Context!Chain(old', c) = {c} \union Context!Chain(old, current.head)
  <2>1. Extended(old, c, current, old')
    BY <1>2, <1>4, <1>5, <1>6, ExtendedChains
  <2> QED
    BY <2>1 DEF Extended
<1>8. ChainsInv'
  BY <1>4, <1>7 DEF ChainsInv
<1>9. ActiveInv'
  BY <1>1, <1>2, <1>7 DEF ActiveInv
<1>10. active[c]
  BY <1>1, <1>2 DEF ActiveInv
<1>11. Live' = Live \union {c}
  BY <1>2, <1>7, <1>10 DEF Live
<1>12. /\ \A f : Upright(old, Live, f) => Upright(old', Live', f)
       /\ \A pair : Agrees(old, Live, pair) => Agrees(old', Live', pair)
  BY <1>2, <1>4, <1>5, <1>6, <1>11, ExtendedKeeps
<1>13. CapturedInv'
  BY <1>1, <1>2, <1>12 DEF CapturedInv
<1>14. stack \in SUBSET StackContexts
  BY <1>3 DEF Pairs
<1>15. frame \in Frames
  BY <1>3, <1>14 DEF Pairs, Frames, Context!Frame
<1>16. /\ frame.kind = "with" /\ frame.what = c /\ frame.contexts = new /\ frame.saved = current
       /\ new.head = c /\ new.stack = stack
  BY DEF Context!Frame
<1>17. Upright(old', Live', frame)
  <2>1. stack = Context!Chain(old', c) \cap StackContexts
    BY <1>3, <1>7 DEF InForce
  <2>2. Context!Chain(old', c) \subseteq Live'
    BY <1>3, <1>7, <1>11 DEF InForce
  <2> HIDE DEF new, frame
  <2>3. InForce(old', Live', new)
    BY <1>7, <1>16, <2>1, <2>2 DEF InForce
  <2> QED
    BY <1>7, <1>16, <2>3 DEF Upright
<1>18. FramesInv'
  <2>1. \A i \in DOMAIN frames : Upright(old', Live', frames[i])
    BY <1>1, <1>12 DEF FramesInv
  <2> HIDE DEF frame, new
  <2> QED
    BY <1>1, <1>2, <1>15, <1>16, <1>17, <2>1, FramesPush
<1> QED
  BY <1>2, <1>8, <1>9, <1>13, <1>15, <1>18

\* A context is entered once more, or left once, for what holds it.
LEMMA DepthPush ==
  ASSUME DepthInv, FramesInv, NEW frame \in Frames, frames' = Append(frames, frame),
         depth' \in [Context!Contexts -> Nat], broken' = broken,
         \A d \in StackContexts : depth'[d] = depth[d] + (IF Holds(frame, d) THEN 1 ELSE 0)
  PROVE  DepthInv'
<1>1. frames \in Seq(Frames)
  BY DEF FramesInv, Nested
<1>2. \A d \in StackContexts : depth[d] = Cardinality(Holding(frames, d))
  BY DEF DepthInv
<1>3. ASSUME NEW d \in StackContexts PROVE depth'[d] = Cardinality(Holding(frames', d))
  BY <1>1, <1>2, PushedHolds
<1>4. ~broken'
  BY DEF DepthInv
<1> QED
  BY <1>3, <1>4 DEF DepthInv

\* What the innermost holds, was entered.
LEMMA DepthHolds ==
  ASSUME DepthInv, FramesInv, frames # <<>>
  PROVE  \A d \in StackContexts : Holds(Context!Top, d) => depth[d] > 0
<1>1. frames \in Seq(Frames)
  BY DEF FramesInv, Nested
<1>2. \A d \in StackContexts : depth[d] = Cardinality(Holding(frames, d))
  BY DEF DepthInv
<1> QED
  BY <1>1, <1>2, PoppedHolds DEF Context!Top

\* The innermost leaves what it held.
LEMMA DepthPop ==
  ASSUME DepthInv, FramesInv, frames # <<>>, Context!Pop,
         depth' \in [Context!Contexts -> Nat], ~broken',
         \A d \in StackContexts : depth'[d] = depth[d] - (IF Holds(Context!Top, d) THEN 1 ELSE 0)
  PROVE  DepthInv'
<1>1. frames \in Seq(Frames)
  BY DEF FramesInv, Nested
<1>2. \A d \in StackContexts : depth[d] = Cardinality(Holding(frames, d))
  BY DEF DepthInv
<1>3. ASSUME NEW d \in StackContexts PROVE depth'[d] = Cardinality(Holding(frames', d))
  <2>1. /\ Cardinality(Holding(frames, d)) =
             Cardinality(Holding(frames', d)) + (IF Holds(Context!Top, d) THEN 1 ELSE 0)
        /\ Cardinality(Holding(frames', d)) \in Nat
    BY <1>1, PoppedHolds DEF Context!Pop, Context!Top
  <2> QED
    BY <1>2, <2>1
<1> QED
  BY <1>3 DEF DepthInv

\* StackContext.__enter__ counts its context once.
LEMMA EnterStep ==
  ASSUME ContextsInv, NEW c \in Context!Contexts, Context!Enter(c)
  PROVE  ContextsInv'
<1> DEFINE stack == current.stack \union {c}
           frame == Context!Frame("with", c, [stack |-> stack, head |-> c])
<1>1. c \in StackContexts /\ Context!Begin(c, stack) /\ depth' = [depth EXCEPT ![c] = @ + 1]
  BY DEF Context!Enter
<1>2. stack = IF c \in StackContexts THEN current.stack \union {c} ELSE current.stack
  BY <1>1
<1>3. broken' = broken
  BY <1>1 DEF Context!Begin
<1>4. /\ ChainsInv' /\ ActiveInv' /\ FramesInv' /\ CapturedInv'
      /\ frames' = Append(frames, frame) /\ frame \in Frames
  <2> HIDE DEF stack
  <2> QED
    BY <1>1, <1>2, BeginKeeps
<1>5. DepthInv /\ FramesInv
  BY DEF ContextsInv
<1>6. depth \in [Context!Contexts -> Nat]
  BY <1>5 DEF DepthInv
<1>7. depth' \in [Context!Contexts -> Nat]
  BY <1>1, <1>6
<1>8. \A d \in StackContexts : Holds(frame, d) <=> d = c
  BY DEF Holds, Context!Frame
<1>9. \A d \in StackContexts : d \in Context!Contexts
  BY DEF Context!Contexts
<1> HIDE DEF frame, stack
<1>10. \A d \in StackContexts : depth'[d] = depth[d] + (IF Holds(frame, d) THEN 1 ELSE 0)
  BY <1>1, <1>6, <1>8, <1>9
<1>11. DepthInv'
  BY <1>3, <1>4, <1>5, <1>7, <1>10, DepthPush
<1> QED
  BY <1>4, <1>11 DEF ContextsInv

\* ExceptionStackContext.__enter__ counts none.
LEMMA EnterExceptionStep ==
  ASSUME ContextsInv, NEW c \in Context!Contexts, Context!EnterException(c)
  PROVE  ContextsInv'
<1> DEFINE frame == Context!Frame("with", c, [stack |-> current.stack, head |-> c])
<1>1. c \in ExceptionContexts /\ Context!Begin(c, current.stack) /\ depth' = depth
  BY DEF Context!EnterException
<1>2. c \notin StackContexts
  BY <1>1, ApplicationsAssumption
<1>3. broken' = broken
  BY <1>1 DEF Context!Begin
<1>4. /\ ChainsInv' /\ ActiveInv' /\ FramesInv' /\ CapturedInv'
      /\ frames' = Append(frames, frame) /\ frame \in Frames
  BY <1>1, <1>2, BeginKeeps
<1>5. DepthInv /\ FramesInv
  BY DEF ContextsInv
<1>6. depth \in [Context!Contexts -> Nat]
  BY <1>5 DEF DepthInv
<1>7. \A d \in StackContexts : ~Holds(frame, d) /\ d \in Context!Contexts
  BY <1>2 DEF Holds, Context!Frame, Context!Contexts
<1> HIDE DEF frame
<1>8. \A d \in StackContexts : depth'[d] = depth[d] + (IF Holds(frame, d) THEN 1 ELSE 0)
  BY <1>1, <1>6, <1>7
<1>9. DepthInv'
  BY <1>1, <1>3, <1>4, <1>5, <1>6, <1>8, DepthPush
<1> QED
  BY <1>4, <1>9 DEF ContextsInv

\* Under NullContext, nothing is in force.
LEMMA EnterNullStep ==
  ASSUME ContextsInv, Context!EnterNull
  PROVE  ContextsInv'
<1> DEFINE frame == Context!Frame("null", Context!NoContext, Context!Nothing)
<1>1. /\ current' = Context!Nothing /\ frames' = Append(frames, frame)
      /\ UNCHANGED <<old, active>> /\ depth' = depth /\ captured' = captured /\ broken' = broken
  BY DEF Context!EnterNull
<1>2. ChainsInv /\ ActiveInv /\ FramesInv /\ CapturedInv /\ DepthInv
  BY DEF ContextsInv
<1>3. ChainsInv' /\ ActiveInv' /\ Live' = Live
  BY <1>1, <1>2, TablesKept
<1>4. current \in Pairs
  BY <1>2, CurrentInForce
<1>5. Context!Nothing.head = None /\ Context!Nothing.stack = {} /\ Context!Nothing \in Pairs
  BY DEF Context!Nothing, Context!NoContext, None, Pairs
<1>6. /\ frame \in Frames /\ frame.kind = "null" /\ frame.contexts = Context!Nothing
      /\ frame.saved = current
  BY <1>4, <1>5 DEF Context!Frame, Frames, Context!NoContext, None
<1>7. \A d \in StackContexts : ~Holds(frame, d) /\ d \in Context!Contexts
  BY DEF Holds, Context!Frame, Context!Contexts
<1> HIDE DEF frame
<1>8. Upright(old', Live', frame)
  BY <1>5, <1>6, NoChain DEF Upright, InForce
<1>9. \A i \in DOMAIN frames : Upright(old', Live', frames[i])
  BY <1>1, <1>2, <1>3 DEF FramesInv
<1>10. FramesInv'
  BY <1>1, <1>2, <1>6, <1>8, <1>9, FramesPush
<1>11. depth \in [Context!Contexts -> Nat]
  BY <1>2 DEF DepthInv
<1>12. \A d \in StackContexts : depth'[d] = depth[d] + (IF Holds(frame, d) THEN 1 ELSE 0)
  BY <1>1, <1>7, <1>11
<1>13. DepthInv'
  BY <1>1, <1>2, <1>6, <1>11, <1>12, DepthPush
<1>14. CapturedInv'
  BY <1>1, <1>2, <1>3 DEF CapturedInv
<1> QED
  BY <1>3, <1>10, <1>13, <1>14 DEF ContextsInv

\* A function is wrapped under contexts that agree.
LEMMA WrapStep ==
  ASSUME ContextsInv, NEW f, Context!Wrap(f)
  PROVE  ContextsInv'
<1>1. /\ captured' = Context!Extend(captured, f, current)
      /\ UNCHANGED <<old, active>> /\ current' = current /\ depth' = depth /\ frames' = frames
      /\ broken' = broken
  BY DEF Context!Wrap
<1>2. ChainsInv /\ ActiveInv /\ FramesInv /\ CapturedInv /\ DepthInv
  BY DEF ContextsInv
<1>3. ChainsInv' /\ ActiveInv' /\ Live' = Live
  BY <1>1, <1>2, TablesKept
<1>4. Agrees(old, Live, current)
  <2>1. Linked(old)
    BY <1>2 DEF ChainsInv
  <2> QED
    BY <1>2, <2>1, CurrentInForce, InForceAgrees
<1>5. CapturedInv'
  BY <1>1, <1>2, <1>3, <1>4 DEF CapturedInv, Context!Extend
<1>6. FramesInv'
  BY <1>1, <1>2, <1>3 DEF FramesInv
<1>7. DepthInv'
  BY <1>1, <1>2 DEF DepthInv
<1> QED
  BY <1>3, <1>5, <1>6, <1>7 DEF ContextsInv

\* Contexts that are not in force can be deactivated.
LEMMA DeactivateStep ==
  ASSUME ContextsInv, ~DeactivateOpen, NEW c \in Context!Contexts, Context!Deactivate(c)
  PROVE  ContextsInv'
<1>1. /\ c \in DOMAIN old /\ active' = [active EXCEPT ![c] = FALSE]
      /\ \A i \in DOMAIN frames :
           frames[i].kind = "null" \/ c \notin Context!Chain(old, frames[i].contexts.head)
      /\ old' = old /\ current' = current /\ depth' = depth /\ captured' = captured
      /\ frames' = frames /\ broken' = broken
  BY DEF Context!Deactivate, Context!Opened
<1>2. ChainsInv /\ ActiveInv /\ FramesInv /\ CapturedInv /\ DepthInv
  BY DEF ContextsInv
<1>3. ChainsInv'
  BY <1>1, <1>2 DEF ChainsInv
<1>4. ActiveInv'
  BY <1>1, <1>2 DEF ActiveInv
<1>5. Live' = Live \ {c}
  <2>1. DOMAIN old \subseteq DOMAIN active
    BY <1>2 DEF ChainsInv, ActiveInv
  <2> QED
    BY <1>1, <2>1 DEF Live
<1>6. ASSUME NEW i \in DOMAIN frames PROVE Upright(old, Live', frames[i])
  <2>1. Upright(old, Live, frames[i])
    BY <1>2 DEF FramesInv
  <2>2. c \notin Context!Chain(old, frames[i].contexts.head)
    <3>1. CASE frames[i].kind = "null"
      <4>1. frames[i].contexts.head = None
        BY <2>1, <3>1 DEF Upright, Context!Nothing, Context!NoContext, None
      <4> QED
        BY <4>1, NoChain
    <3> QED
      BY <1>1, <3>1
  <2> QED
    BY <1>5, <2>1, <2>2 DEF Upright, InForce
<1>7. FramesInv'
  BY <1>1, <1>2, <1>6 DEF FramesInv
<1>8. \A pair : Agrees(old, Live, pair) => Agrees(old, Live', pair)
  BY <1>5 DEF Agrees
<1>9. CapturedInv'
  BY <1>1, <1>2, <1>8 DEF CapturedInv
<1>10. DepthInv'
  BY <1>1, <1>2 DEF DepthInv
<1> QED
  BY <1>3, <1>4, <1>7, <1>9, <1>10 DEF ContextsInv

\* A block finds its own contexts when it ends, and restores what it found.
LEMMA EndKeeps ==
  ASSUME ContextsInv, Context!End
  PROVE  /\ ChainsInv' /\ ActiveInv' /\ FramesInv' /\ CapturedInv'
         /\ ~broken' /\ frames # <<>> /\ Context!Pop
         /\ Context!Top.kind = "with" /\ Context!Top.what \in Context!Contexts
<1>1. /\ frames # <<>> /\ Context!Top.kind = "with" /\ Context!Pop
      /\ current' = old[Context!Top.what]
      /\ broken' = (broken \/ current # Context!Top.contexts)
      /\ UNCHANGED <<old, active>> /\ captured' = captured
  BY DEF Context!End
<1>2. ChainsInv /\ ActiveInv /\ FramesInv /\ CapturedInv /\ DepthInv
  BY DEF ContextsInv
<1>3. ChainsInv' /\ ActiveInv' /\ Live' = Live
  BY <1>1, <1>2, TablesKept
<1>4. /\ Upright(old, Live, Context!Top)
      /\ current = Context!Top.contexts
  <2>1. Nested(frames) /\ current = Under(frames, Len(frames))
    BY <1>2 DEF FramesInv
  <2>2. Len(frames) \in DOMAIN frames /\ Under(frames, Len(frames)) = frames[Len(frames)].contexts
    BY <1>1, <2>1, PoppedNested
  <2> QED
    BY <1>2, <2>1, <2>2 DEF FramesInv, Context!Top
<1>5. Context!Top.what \in DOMAIN old /\ old[Context!Top.what] = Context!Top.saved
  BY <1>1, <1>4 DEF Upright
<1>6. FramesInv'
  BY <1>1, <1>2, <1>5, FramesPop
<1>7. CapturedInv'
  BY <1>1, <1>2, <1>3 DEF CapturedInv
<1>8. ~broken'
  BY <1>1, <1>2, <1>4 DEF DepthInv
<1>9. Context!Top.what \in Context!Contexts
  BY <1>2, <1>5 DEF ChainsInv
<1> QED
  BY <1>1, <1>3, <1>6, <1>7, <1>8, <1>9

\* StackContext.__exit__ leaves its context once.
LEMMA ExitWithStep ==
  ASSUME ContextsInv, Context!ExitWith
  PROVE  ContextsInv'
<1> DEFINE c == Context!Top.what
<1>1. /\ Context!End /\ c \in StackContexts
      /\ depth' = [depth EXCEPT ![c] = IF @ > 0 THEN @ - 1 ELSE @]
  BY DEF Context!ExitWith
<1>2. /\ ChainsInv' /\ ActiveInv' /\ FramesInv' /\ CapturedInv'
      /\ ~broken' /\ frames # <<>> /\ Context!Pop
      /\ Context!Top.kind = "with" /\ c \in Context!Contexts
  BY <1>1, EndKeeps
<1>3. FramesInv /\ DepthInv
  BY DEF ContextsInv
<1>4. depth \in [Context!Contexts -> Nat]
  BY <1>3 DEF DepthInv
<1>5. \A d \in StackContexts : (Holds(Context!Top, d) <=> d = c) /\ d \in Context!Contexts
  BY <1>2 DEF Holds, Context!Contexts
<1>6. \A d \in StackContexts : Holds(Context!Top, d) => depth[d] > 0
  BY <1>2, <1>3, DepthHolds
<1> HIDE DEF c
<1>7. depth' = [depth EXCEPT ![c] = depth[c] - 1] /\ depth[c] - 1 \in Nat
  <2>1. depth[c] > 0 /\ depth[c] \in Nat
    BY <1>1, <1>2, <1>4, <1>5, <1>6
  <2> DEFINE n == IF depth[c] > 0 THEN depth[c] - 1 ELSE depth[c]
  <2>2. n = depth[c] - 1 /\ depth[c] - 1 \in Nat
    BY <2>1
  <2>3. depth' = [depth EXCEPT ![c] = n]
    BY <1>1
  <2> QED
    BY <2>2, <2>3
<1>8. depth' \in [Context!Contexts -> Nat]
  BY <1>4, <1>7
<1>9. \A d \in StackContexts : depth'[d] = depth[d] - (IF Holds(Context!Top, d) THEN 1 ELSE 0)
  BY <1>1, <1>4, <1>5, <1>7
<1>10. DepthInv'
  BY <1>2, <1>3, <1>8, <1>9, DepthPop
<1> QED
  BY <1>2, <1>10 DEF ContextsInv

\* ExceptionStackContext.__exit__ leaves none.
LEMMA ExitExceptionStep ==
  ASSUME ContextsInv, Context!ExitException
  PROVE  ContextsInv'
<1> DEFINE c == Context!Top.what
<1>1. Context!End /\ c \in ExceptionContexts /\ depth' = depth
  BY DEF Context!ExitException
<1>2. /\ ChainsInv' /\ ActiveInv' /\ FramesInv' /\ CapturedInv'
      /\ ~broken' /\ frames # <<>> /\ Context!Pop
      /\ Context!Top.kind = "with" /\ c \in Context!Contexts
  BY <1>1, EndKeeps
<1>3. FramesInv /\ DepthInv
  BY DEF ContextsInv
<1>4. depth \in [Context!Contexts -> Nat]
  BY <1>3 DEF DepthInv
<1>5. c \notin StackContexts
  BY <1>1, ApplicationsAssumption
<1>6. \A d \in StackContexts : ~Holds(Context!Top, d) /\ d \in Context!Contexts
  BY <1>2, <1>5 DEF Holds, Context!Contexts
<1> HIDE DEF c
<1>7. \A d \in StackContexts : depth'[d] = depth[d] - (IF Holds(Context!Top, d) THEN 1 ELSE 0)
  BY <1>1, <1>4, <1>6
<1>8. DepthInv'
  BY <1>1, <1>2, <1>3, <1>4, <1>7, DepthPop
<1> QED
  BY <1>2, <1>8 DEF ContextsInv

\* After NullContext, what was set aside is in force again.
LEMMA ExitNullStep ==
  ASSUME ContextsInv, Context!ExitNull
  PROVE  ContextsInv'
<1>1. /\ frames # <<>> /\ Context!Top.kind = "null" /\ Context!Pop
      /\ current' = Context!Top.saved
      /\ UNCHANGED <<old, active>> /\ depth' = depth /\ captured' = captured /\ broken' = broken
  BY DEF Context!ExitNull
<1>2. ChainsInv /\ ActiveInv /\ FramesInv /\ CapturedInv /\ DepthInv
  BY DEF ContextsInv
<1>3. ChainsInv' /\ ActiveInv' /\ Live' = Live
  BY <1>1, <1>2, TablesKept
<1>4. FramesInv'
  BY <1>1, <1>2, FramesPop
<1>5. CapturedInv'
  BY <1>1, <1>2, <1>3 DEF CapturedInv
<1>6. depth \in [Context!Contexts -> Nat] /\ ~broken'
  BY <1>1, <1>2 DEF DepthInv
<1>7. \A d \in StackContexts : ~Holds(Context!Top, d) /\ d \in Context!Contexts
  BY <1>1 DEF Holds, Context!Contexts
<1>8. \A d \in StackContexts : depth'[d] = depth[d] - (IF Holds(Context!Top, d) THEN 1 ELSE 0)
  BY <1>1, <1>6, <1>7
<1>9. DepthInv'
  BY <1>1, <1>2, <1>6, <1>8, DepthPop
<1> QED
  BY <1>3, <1>4, <1>5, <1>9 DEF ContextsInv

\* A call ends, whether it returns or fails: it leaves what it entered.
LEMMA CallEnds ==
  ASSUME ContextsInv, frames # <<>>, Context!Top.kind = "call", Context!Pop, NEW s,
         s = Context!Top.contexts.stack
           \/ s = Context!Chain(old, Context!Top.contexts.head) \cap StackContexts,
         Context!Leave(s), current' = Context!Top.saved, UNCHANGED <<old, active, captured>>
  PROVE  ContextsInv'
<1>1. ChainsInv /\ ActiveInv /\ FramesInv /\ CapturedInv /\ DepthInv
  BY DEF ContextsInv
<1>2. ChainsInv' /\ ActiveInv' /\ Live' = Live
  BY <1>1, TablesKept
<1>3. FramesInv'
  BY <1>1, FramesPop
<1>4. CapturedInv'
  BY <1>1, <1>2 DEF CapturedInv
<1>5. Upright(old, Live, Context!Top)
  <2>1. Nested(frames)
    BY <1>1 DEF FramesInv
  <2>2. Len(frames) \in DOMAIN frames
    BY <2>1, PoppedNested
  <2> QED
    BY <1>1, <2>2 DEF FramesInv, Context!Top
<1>6. s \subseteq StackContexts /\ \A d \in StackContexts : Holds(Context!Top, d) <=> d \in s
  BY <1>5 DEF Upright, InForce, Holds
<1>7. \A d \in StackContexts : Holds(Context!Top, d) => depth[d] > 0
  BY <1>1, DepthHolds
<1>8. depth \in [Context!Contexts -> Nat] /\ ~broken
  BY <1>1 DEF DepthInv
<1>9. /\ depth' = [d \in Context!Contexts |-> IF d \in s /\ depth[d] > 0 THEN depth[d] - 1 ELSE depth[d]]
      /\ broken' = (broken \/ \E d \in s : depth[d] = 0)
  BY DEF Context!Leave
<1>10. ~broken'
  <2>1. ~(\E d \in s : depth[d] = 0)
    BY <1>6, <1>7
  <2> QED
    BY <1>8, <1>9, <2>1, Zenon
<1>11. depth' \in [Context!Contexts -> Nat]
  BY <1>8, <1>9
<1>12. \A d \in StackContexts : depth'[d] = depth[d] - (IF Holds(Context!Top, d) THEN 1 ELSE 0)
  <2>1. \A d \in StackContexts : d \in Context!Contexts
    BY DEF Context!Contexts
  <2> QED
    BY <1>6, <1>7, <1>8, <1>9, <2>1
<1>13. DepthInv'
  BY <1>1, <1>10, <1>11, <1>12, DepthPop
<1> QED
  BY <1>2, <1>3, <1>4, <1>13 DEF ContextsInv

\* A call returns and leaves the contexts it entered, ...
LEMMA ReturnStep ==
  ASSUME ContextsInv, Context!Return
  PROVE  ContextsInv'
<1>1. /\ frames # <<>> /\ Context!Top.kind = "call" /\ Context!Pop
      /\ Context!Leave(Context!Top.contexts.stack) /\ current' = Context!Top.saved
      /\ UNCHANGED <<old, active, captured>>
  BY DEF Context!Return
<1> QED
  BY <1>1, CallEnds

\* ... or fails, and the chain leaves the same ones.
LEMMA HandleExceptionStep ==
  ASSUME ContextsInv, Context!HandleException
  PROVE  ContextsInv'
<1>1. /\ frames # <<>> /\ Context!Top.kind = "call" /\ Context!Pop
      /\ Context!Leave(Context!Chain(old, Context!Top.contexts.head) \cap StackContexts)
      /\ current' = Context!Top.saved /\ UNCHANGED <<old, active, captured>>
  BY DEF Context!HandleException
<1> QED
  BY <1>1, CallEnds

\* Where an exception is, is not part of the invariant.
LEMMA ContextsStay ==
  ASSUME ContextsInv, UNCHANGED <<current, old, active, depth, captured, frames, broken>>
  PROVE  ContextsInv'
BY DEF ContextsInv, ChainsInv, ActiveInv, Live, FramesInv, CapturedInv, DepthInv

\* The first active context, in the words of this module.
LEMMA FirstActiveIs ==
  ASSUME ChainsInv, NEW c \in DOMAIN old \union {None}
  PROVE  Context!FirstActive(c) = First(old, Live, c)
<1> DEFINE live == {x \in Context!Chain(old, c) : active[x]}
           same == {x \in Context!Chain(old, c) : x \in Live}
<1>1. live = same
  BY ChainIsClosed DEF ChainsInv, Live
<1>2. Context!FirstActive(c) = IF live = {} THEN None
                               ELSE CHOOSE x \in live : live \subseteq Context!Chain(old, x)
  BY DEF Context!FirstActive, Context!NoContext, None
<1>3. First(old, Live, c) = IF same = {} THEN None
                            ELSE CHOOSE x \in same : same \subseteq Context!Chain(old, x)
  BY DEF First
<1> HIDE DEF live, same
<1> QED
  BY <1>1, <1>2, <1>3

\* _remove_deactivated relinks the active contexts of the chain.
LEMMA RemovedIsRelinked ==
  ASSUME ChainsInv, NEW pair, pair.head \in DOMAIN old \union {None}
  PROVE  /\ Relinked(old, Live, pair.head, Context!RemoveDeactivated(pair).old)
         /\ Context!RemoveDeactivated(pair).contexts =
              [stack |-> {x \in pair.stack : active[x]}, head |-> First(old, Live, pair.head)]
<1> DEFINE Last(c) == CHOOSE x \in Context!Chain(old, c) :
                         old[x].head = Context!FirstActive(old[c].head)
           p == [c \in DOMAIN old |-> IF active[c] /\ c \in Context!Chain(old, pair.head)
                                        THEN old[Last(c)] ELSE old[c]]
<1>1. Linked(old) /\ Ends(old)
  BY DEF ChainsInv
<1>2. ASSUME NEW c \in DOMAIN old
      PROVE  /\ Last(c) \in Context!Chain(old, c)
             /\ old[Last(c)].head = First(old, Live, old[c].head)
  <2>1. old[c].head \in DOMAIN old \union {None}
    BY <1>1 DEF Linked
  <2>2. Context!FirstActive(old[c].head) = First(old, Live, old[c].head)
    BY <2>1, FirstActiveIs
  <2>3. \E b \in Context!Chain(old, c) : old[b].head = First(old, Live, old[c].head)
    BY <1>1, LastExists
  <2> QED
    BY <2>2, <2>3
<1>3. /\ Context!RemoveDeactivated(pair).old = p
      /\ Context!RemoveDeactivated(pair).contexts =
           [stack |-> {x \in pair.stack : active[x]}, head |-> Context!FirstActive(pair.head)]
  BY DEF Context!RemoveDeactivated, Context!Opened
<1>4. \A c \in DOMAIN old : active[c] <=> c \in Live
  BY DEF Live
<1> HIDE DEF Last
<1>5. \A x \in DOMAIN old :
        p[x].head = IF x \in Context!Chain(old, pair.head) /\ x \in Live
                      THEN First(old, Live, old[x].head) ELSE old[x].head
  BY <1>2, <1>4
<1>6. ASSUME NEW x \in DOMAIN old, Context!Chain(old, x) \subseteq Live
      PROVE  p[x] = old[x]
  <2>1. First(old, Live, old[x].head) = old[x].head
    <3>1. old[x].head \in DOMAIN old \union {None}
      BY <1>1 DEF Linked
    <3>2. CASE old[x].head = None
      BY <1>1, <3>2, FirstIs, NoChain
    <3>3. CASE old[x].head # None
      <4>1. old[x].head \in Context!Chain(old, old[x].head)
        BY <1>1, <3>1, <3>3, ChainIsClosed
      <4>2. old[x].head \in Live
        BY <1>1, <1>6, <4>1, ChainNext
      <4> QED
        BY <1>1, <3>1, <3>3, <4>2, FirstIs
    <3> QED
      BY <3>2, <3>3
  <2>2. Last(x) = x
    BY <1>1, <1>2, <2>1, OneBefore
  <2> QED
    BY <2>2
<1>7. DOMAIN p = DOMAIN old
  OBVIOUS
<1> HIDE DEF p
<1>8. Relinked(old, Live, pair.head, p)
  BY <1>5, <1>6, <1>7 DEF Relinked
<1> QED
  BY <1>3, <1>8, FirstActiveIs

\* A call enters the active contexts of its chain, which is relinked.
LEMMA CallStep ==
  ASSUME ContextsInv, NEW f \in Functions_, Context!Call(f)
  PROVE  ContextsInv'
<1> DEFINE pair == captured[f]
           new == Context!RemoveDeactivated(pair).contexts
           frame == Context!Frame("call", f, new)
<1>1. /\ f \in DOMAIN captured
      /\ captured' = [captured EXCEPT ![f] = new]
      /\ old' = Context!RemoveDeactivated(pair).old
      /\ current' = new
      /\ depth' = [d \in Context!Contexts |-> depth[d] + (IF d \in new.stack THEN 1 ELSE 0)]
      /\ frames' = Append(frames, frame)
      /\ active' = active /\ broken' = broken
  BY DEF Context!Call
<1>2. ChainsInv /\ ActiveInv /\ FramesInv /\ CapturedInv /\ DepthInv
  BY DEF ContextsInv
<1>3. Linked(old) /\ Ends(old) /\ DOMAIN old \subseteq Context!Contexts
  BY <1>2 DEF ChainsInv
<1>4. Agrees(old, Live, pair)
  BY <1>1, <1>2 DEF CapturedInv
<1>5. pair.head \in DOMAIN old \union {None}
  BY <1>4 DEF Agrees
<1>6. /\ Relinked(old, Live, pair.head, old')
      /\ new = [stack |-> {x \in pair.stack : active[x]}, head |-> First(old, Live, pair.head)]
  BY <1>1, <1>2, <1>5, RemovedIsRelinked
<1>7. /\ Linked(old') /\ Ends(old')
      /\ DOMAIN old' = DOMAIN old
      /\ Context!Chain(old', First(old, Live, pair.head)) = Context!Chain(old, pair.head) \cap Live
      /\ \A fr : Upright(old, Live, fr) => Upright(old', Live, fr)
      /\ \A q : Agrees(old, Live, q) => Agrees(old', Live, q)
  <2> DEFINE o == old
             p == old'
             A == Live
             h == pair.head
  <2>1. Linked(o) /\ Ends(o) /\ h \in DOMAIN o \union {None} /\ Relinked(o, A, h, p)
    BY <1>3, <1>5, <1>6
  <2> HIDE DEF o, p, A, h
  <2>2. Linked(p)
    BY <2>1, RelinkedIsLinked
  <2>3. Ends(p)
    BY <2>1, RelinkedEnds
  <2>4. Context!Chain(p, First(o, A, h)) = Context!Chain(o, h) \cap A
    BY <2>1, RelinkedHead
  <2>5. /\ \A fr : Upright(o, A, fr) => Upright(p, A, fr)
        /\ \A q : Agrees(o, A, q) => Agrees(p, A, q)
    BY <2>1, RelinkedKeepsAll
  <2>6. DOMAIN p = DOMAIN o
    BY <2>1 DEF Relinked
  <2> QED
    BY <2>2, <2>3, <2>4, <2>5, <2>6 DEF o, p, A, h
<1>8. Live' = Live
  BY <1>1, <1>7 DEF Live
<1>9. ChainsInv'
  BY <1>3, <1>7 DEF ChainsInv
<1>10. ActiveInv'
  BY <1>1, <1>2, <1>7 DEF ActiveInv
<1>11. First(old, Live, pair.head) \in DOMAIN old \union {None}
  BY <1>3, <1>5, FirstIs
<1>12. {x \in pair.stack : active[x]} = Context!Chain(old, pair.head) \cap StackContexts \cap Live
  <2>1. {x \in pair.stack : active[x]} = pair.stack \cap Live
    BY <1>4 DEF Agrees, Live
  <2> QED
    BY <1>4, <2>1 DEF Agrees
<1>13. InForce(old', Live', new)
  BY <1>6, <1>7, <1>8, <1>11, <1>12 DEF InForce
<1>14. new \in Pairs
  BY <1>3, <1>6, <1>11, <1>12 DEF Pairs
<1>15. current \in Pairs
  BY <1>2, CurrentInForce
<1> HIDE DEF new
<1>16. /\ frame \in Frames /\ frame.kind = "call" /\ frame.contexts = new /\ frame.saved = current
  BY <1>14, <1>15 DEF Frames, Context!Frame
<1>17. \A d : Holds(frame, d) <=> d \in new.stack
  BY <1>16 DEF Holds
<1> HIDE DEF frame, pair
<1>18. Upright(old', Live', frame)
  BY <1>13, <1>16 DEF Upright
<1>19. \A i \in DOMAIN frames : Upright(old', Live', frames[i])
  BY <1>2, <1>7, <1>8 DEF FramesInv
<1>20. FramesInv'
  BY <1>1, <1>2, <1>16, <1>18, <1>19, FramesPush
<1>21. depth \in [Context!Contexts -> Nat]
  BY <1>2 DEF DepthInv
<1>22. depth' \in [Context!Contexts -> Nat]
  BY <1>1, <1>21
<1>23. \A d \in StackContexts : depth'[d] = depth[d] + (IF Holds(frame, d) THEN 1 ELSE 0)
  <2>1. \A d \in StackContexts : d \in Context!Contexts
    BY DEF Context!Contexts
  <2> QED
    BY <1>1, <1>17, <2>1
<1>24. DepthInv'
  BY <1>1, <1>2, <1>16, <1>22, <1>23, DepthPush
<1>25. Agrees(old', Live', new)
  BY <1>7, <1>13, InForceAgrees
<1>26. CapturedInv'
  <2>1. \A g \in DOMAIN captured : Agrees(old', Live', captured[g])
    BY <1>2, <1>7, <1>8 DEF CapturedInv
  <2> QED
    BY <1>1, <1>25, <2>1 DEF CapturedInv
<1> QED
  BY <1>9, <1>10, <1>20, <1>24, <1>26 DEF ContextsInv

\* Nothing is opened at first.
LEMMA ContextsBegin == Init => ContextsInv
<1> SUFFICES ASSUME Init PROVE ContextsInv
  OBVIOUS
<1>1. /\ current = Context!Nothing /\ old = <<>> /\ captured = <<>> /\ frames = <<>>
      /\ active = [c \in Context!Contexts |-> TRUE] /\ depth = [c \in Context!Contexts |-> 0]
      /\ broken = FALSE
  BY DEF Init, Context!Init
<1>2. DOMAIN old = {} /\ DOMAIN captured = {} /\ DOMAIN frames = {} /\ Len(frames) = 0
      /\ frames \in Seq(Frames)
  BY <1>1
<1>3. ChainsInv
  BY <1>2 DEF ChainsInv, Linked, Ends
<1>4. ActiveInv
  BY <1>1 DEF ActiveInv
<1>5. FramesInv
  BY <1>1, <1>2 DEF FramesInv, Nested, Under
<1>6. CapturedInv
  BY <1>2 DEF CapturedInv
<1>7. \A c : Cardinality(Holding(frames, c)) = 0
  <2>1. \A c : Holding(frames, c) = {}
    BY <1>2 DEF Holding
  <2> QED
    BY <2>1, FS_EmptySet
<1>8. DepthInv
  <2>1. \A c \in StackContexts : c \in Context!Contexts
    BY DEF Context!Contexts
  <2>2. depth \in [Context!Contexts -> Nat]
    BY <1>1
  <2>3. \A c \in StackContexts : depth[c] = Cardinality(Holding(frames, c))
    BY <1>1, <1>7, <2>1
  <2> QED
    BY <1>1, <2>2, <2>3 DEF DepthInv
<1> QED
  BY <1>3, <1>4, <1>5, <1>6, <1>8 DEF ContextsInv

\* Every step keeps the invariant, unless open contexts are deactivated.
LEMMA ContextsStep == ContextsInv /\ ~DeactivateOpen /\ [Next]_vars => ContextsInv'
<1> SUFFICES ASSUME ContextsInv, ~DeactivateOpen, [Next]_vars PROVE ContextsInv'
  OBVIOUS
<1>1. CASE Context!Next
  <2>1. CASE \E c \in Context!Contexts :
               Context!Enter(c) \/ Context!EnterException(c) \/ Context!Deactivate(c)
    BY <2>1, EnterStep, EnterExceptionStep, DeactivateStep
  <2>2. CASE \E f \in Functions_ : Context!Wrap(f) \/ Context!Call(f)
    BY <2>2, WrapStep, CallStep
  <2>3. CASE Context!EnterNull
    BY <2>3, EnterNullStep
  <2>4. CASE Context!ExitWith
    BY <2>4, ExitWithStep
  <2>5. CASE Context!ExitException
    BY <2>5, ExitExceptionStep
  <2>6. CASE Context!ExitNull
    BY <2>6, ExitNullStep
  <2>7. CASE Context!Return
    BY <2>7, ReturnStep
  <2>8. CASE Context!HandleException
    BY <2>8, HandleExceptionStep
  <2>9. CASE Context!Fail \/ Context!Uncaught
    BY <2>9, ContextsStay DEF Context!Fail, Context!Uncaught
  <2> QED
    BY <1>1, <2>1, <2>2, <2>3, <2>4, <2>5, <2>6, <2>7, <2>8, <2>9 DEF Context!Next
<1>2. CASE UNCHANGED wrapping
  BY <1>2, ContextsStay DEF wrapping
<1> QED
  BY <1>1, <1>2 DEF Next, vars

\* The module counts as FiniteSets does.
LEMMA Counts == \A S : Context!Cardinality(S) = Cardinality(S)
BY DEF Context!Cardinality, Cardinality

\* It counts what holds each context.
LEMMA ContextsInvSays == ContextsInv => ContextsAreLeft
<1> SUFFICES ASSUME ContextsInv PROVE Context!ContextsAreLeft
  BY DEF ContextsAreLeft
<1>1. FramesInv /\ DepthInv
  BY DEF ContextsInv
<1>2. ASSUME NEW c \in StackContexts
      PROVE  depth[c] = Context!Cardinality({ i \in DOMAIN frames :
                          \/ frames[i].kind = "with" /\ frames[i].what = c
                          \/ frames[i].kind = "call" /\ c \in frames[i].contexts.stack })
  <2>1. depth[c] = Cardinality(Holding(frames, c))
    BY <1>1 DEF DepthInv
  <2> QED
    BY <2>1, Counts DEF Holding, Holds
<1>3. frames = <<>> => current = Context!Nothing
  BY <1>1 DEF FramesInv, Under
<1>4. ~broken
  BY <1>1 DEF DepthInv
<1> QED
  BY <1>2, <1>3, <1>4 DEF Context!ContextsAreLeft

\* stack_context enters each context once for every block and wrapped call in
\* progress that holds it and leaves it again, whatever was deactivated, called and
\* raised before (stack_context.py:227-351); so no block ends under foreign
\* contexts, when open contexts are not deactivated.
THEOREM ContextsHold == Spec => [](~DeactivateOpen => ContextsAreLeft)
<1>1. Init => ContextsInv
  BY ContextsBegin
<1>2. ContextsInv /\ ~DeactivateOpen /\ [Next]_vars => ContextsInv'
  BY ContextsStep
<1>3. CASE DeactivateOpen
  <2>1. ~DeactivateOpen => ContextsAreLeft
    BY <1>3
  <2> QED
    BY <2>1, PTL
<1>4. CASE ~DeactivateOpen
  <2>1. ContextsInv /\ [Next]_vars => ContextsInv'
    BY <1>2, <1>4
  <2> QED
    BY <1>1, <2>1, ContextsInvSays, PTL DEF Spec
<1> QED
  BY <1>3, <1>4
=============================================================================

-------------------------- MODULE PostOrderProofs --------------------------
(***************************************************************************)
(* The order in which postOrder puts out the nodes of a network that was   *)
(* built.  The flows of Calc are summed along it, each node once.          *)
(*                                                                         *)
(* First what the loop over the pipes puts out is brought into a form that *)
(* can be reasoned about one pipe at a time; then the nodes are given the  *)
(* distance from the source and the part of the tree that hangs under each *)
(* of them; and then, from the lowest nodes up, what rec puts out for a    *)
(* node is an order of its part: every node of it once, a parent behind    *)
(* its children.                                                           *)
(***************************************************************************)
EXTENDS NetworkProofs

-----------------------------------------------------------------------------
(* The loop over the pipes *)

\* What was put out when the first k pipes have been looked at.
LoopOver(out, ps, put, n, V) ==
    /\ out \in [0 .. Len(ps) -> Seq(V)]
    /\ out[0] = << >>
    /\ \A k \in 0 .. Len(ps) - 1 :
          out[k + 1] = IF ps[k + 1].up = n THEN out[k] \o put[ps[k + 1].down] ELSE out[k]
    /\ PutBelow(ps, put, n) = out[Len(ps)]

\* The fold over the pipes goes through them one by one, from the first.
LEMMA LoopSteps ==
    ASSUME NEW ps \in Seq(Pipe), NEW V, NEW put, NEW n,
           \A i \in DOMAIN ps : ps[i].up = n => put[ps[i].down] \in Seq(V)
    PROVE  \E out : LoopOver(out, ps, put, n, V)
  <1> DEFINE D == DOMAIN ps
             Step(i, v) == IF ps[i].up = n THEN v \o put[ps[i].down] ELSE v
             op == [i \in D |-> [v \in Seq(V) |-> Step(i, v)]]
             pick == [s \in SUBSET D |-> Max(s)]
             Equation(f) == f = [s \in SUBSET D |-> IF s = {} THEN << >>
                                                    ELSE Step(Max(s), f[s \ {Max(s)}])]
             iter == CHOOSE f : Equation(f)
             out == [k \in 0 .. Len(ps) |-> iter[1 .. k]]
  <1>1. D = 1 .. Len(ps) /\ Len(ps) \in Nat /\ IsFiniteSet(D)
    <2>1. D = 1 .. Len(ps) /\ Len(ps) \in Nat
      OBVIOUS
    <2>2. QED
      BY <2>1, FS_Interval
  <1>2. \A s \in SUBSET D : s # {} => Max(s) \in s
    BY <1>1, GreatestNumber
  <1>3. \A i \in D, v \in Seq(V) : Step(i, v) \in Seq(V)
    OBVIOUS
  <1>4. PutBelow(ps, put, n) = iter[D]
    BY DEF PutBelow, FoldLeft, MapThenFoldSet
  <1> HIDE DEF Step
  <1>5. PICK fold \in [SUBSET D -> Seq(V)] : FoldsUp(fold, D, << >>, op, pick)
    <2>1. /\ << >> \in Seq(V) /\ op \in [D -> [Seq(V) -> Seq(V)]]
          /\ \A s \in SUBSET D : s # {} => pick[s] \in s
      <3> HIDE DEF D
      <3>1. QED
        BY <1>2, <1>3
    <2> DEFINE W == Seq(V)
               base == << >>
    <2>2. IsFiniteSet(D) /\ base \in W /\ op \in [D -> [W -> W]]
      BY <1>1, <2>1
    <2> HIDE DEF op, pick, D, W, base
    <2>3. \E fold \in [SUBSET D -> W] : FoldsUp(fold, D, base, op, pick)
      BY <2>1, <2>2, FoldExists, Zenon
    <2>4. QED
      BY <2>3 DEF W, base
  <1>6. Equation(fold)
    <2> HIDE DEF D
    <2>1. fold = [s \in SUBSET D |-> IF s = {} THEN << >> ELSE op[pick[s]][fold[s \ {pick[s]}]]]
      BY <1>5 DEF FoldsUp
    <2>2. ASSUME NEW s \in SUBSET D, s # {}
          PROVE  op[pick[s]][fold[s \ {pick[s]}]] = Step(Max(s), fold[s \ {Max(s)}])
      <3>1. pick[s] = Max(s) /\ Max(s) \in D /\ fold[s \ {Max(s)}] \in Seq(V)
        BY <1>2, <2>2
      <3>2. QED
        BY <3>1
    <2> HIDE DEF op, pick
    <2>3. QED
      BY <2>1, <2>2
  <1>7. Equation(iter)
    <2> HIDE DEF Equation
    <2>1. QED
      BY <1>6
  <1> HIDE DEF iter
  <1>8. iter[{}] = << >>
    BY <1>7
  <1>9. ASSUME NEW k \in 0 .. Len(ps) - 1
        PROVE  iter[1 .. (k + 1)] = Step(k + 1, iter[1 .. k])
    <2> DEFINE s == 1 .. (k + 1)
    <2>1. s \in SUBSET D /\ s # {} /\ k \in Nat
      BY <1>1
    <2>2. Max(s) = k + 1 /\ s \ {Max(s)} = 1 .. k
      <3>1. Max(s) = k + 1 /\ s \ {k + 1} = 1 .. k
        BY <2>1, LastOfFirst
      <3> HIDE DEF s
      <3>2. QED
        BY <3>1
    <2> HIDE DEF s
    <2>3. iter[s] = Step(Max(s), iter[s \ {Max(s)}])
      BY <1>7, <2>1
    <2>4. QED
      BY <2>2, <2>3 DEF s
  <1>10. \A k \in 0 .. Len(ps) : iter[1 .. k] \in Seq(V)
    <2> DEFINE U == {k \in Nat : k <= Len(ps) => iter[1 .. k] \in Seq(V)}
    <2>1. 0 \in U
      <3>1. 1 .. 0 = {}
        OBVIOUS
      <3>2. iter[1 .. 0] \in Seq(V)
        <4>1. << >> \in Seq(V)
          OBVIOUS
        <4>2. QED
          BY <1>8, <3>1, <4>1, Zenon
      <3>3. QED
        BY <3>2
    <2>2. ASSUME NEW k \in Nat, k \in U
          PROVE  k + 1 \in U
      <3> SUFFICES ASSUME k + 1 <= Len(ps)
                   PROVE  iter[1 .. (k + 1)] \in Seq(V)
        OBVIOUS
      <3>1. k \in 0 .. Len(ps) - 1 /\ k + 1 \in D /\ iter[1 .. k] \in Seq(V)
        BY <1>1, <2>2
      <3>2. Step(k + 1, iter[1 .. k]) \in Seq(V)
        BY <1>3, <3>1
      <3>3. QED
        BY <1>9, <3>1, <3>2
    <2>3. Nat \subseteq U
      <3> HIDE DEF U
      <3>1. QED
        BY <2>1, <2>2, Induct
    <2>4. QED
      BY <1>1, <2>3
  <1>11. LoopOver(out, ps, put, n, V)
    <2>1. out \in [0 .. Len(ps) -> Seq(V)]
      BY <1>10
    <2>2. out[0] = << >>
      <3>1. 1 .. 0 = {} /\ 0 \in 0 .. Len(ps)
        BY <1>1
      <3>2. QED
        BY <1>8, <3>1
    <2>3. out[Len(ps)] = PutBelow(ps, put, n)
      BY <1>1, <1>4
    <2>4. ASSUME NEW k \in 0 .. Len(ps) - 1
          PROVE  out[k + 1] = IF ps[k + 1].up = n THEN out[k] \o put[ps[k + 1].down] ELSE out[k]
      <3>1. k \in 0 .. Len(ps) /\ k + 1 \in 0 .. Len(ps)
        BY <1>1
      <3>2. out[k + 1] = Step(k + 1, out[k])
        BY <1>9, <3>1
      <3>3. QED
        BY <3>2 DEF Step
    <2> HIDE DEF out
    <2>5. QED
      BY <2>1, <2>2, <2>3, <2>4 DEF LoopOver
  <1>12. QED
    BY <1>11

-----------------------------------------------------------------------------
(* Orders of a part of the nodes *)

\* s has every node of U once, and a node behind all that lie below it.
Orders(ps, s, U) ==
    /\ s \in Seq(U)
    /\ \A x \in U : \E i \in DOMAIN s : s[i] = x
    /\ \A i, j \in DOMAIN s : s[i] = s[j] => i = j
    /\ \A i \in DOMAIN s, p \in DOMAIN ps :
          ps[p].up = s[i] => \E j \in 1 .. i - 1 : s[j] = ps[p].down

\* Two sequences one after the other, index by index.
LEMMA JoinedSequences ==
    ASSUME NEW U, NEW W, NEW s \in Seq(U), NEW t \in Seq(W)
    PROVE  /\ s \o t \in Seq(U \union W)
           /\ Len(s \o t) = Len(s) + Len(t)
           /\ \A i \in DOMAIN s : i \in DOMAIN (s \o t) /\ (s \o t)[i] = s[i]
           /\ \A i \in DOMAIN t : /\ Len(s) + i \in DOMAIN (s \o t)
                                  /\ (s \o t)[Len(s) + i] = t[i]
           /\ \A i \in DOMAIN (s \o t) :
                 i \in DOMAIN s \/ (i - Len(s) \in DOMAIN t /\ i > Len(s))
  <1>1. s \in Seq(U \union W) /\ t \in Seq(U \union W)
    OBVIOUS
  <1>2. QED
    BY <1>1

\* Nothing is put out yet: an order of no nodes.
LEMMA OrderOfNone ==
    ASSUME NEW ps
    PROVE  Orders(ps, << >>, {})
  BY DEF Orders

\* Orders of two parts that share no node make an order of both.
LEMMA OrdersJoin ==
    ASSUME NEW ps, NEW U, NEW W, U \intersect W = {}, NEW s, NEW t,
           Orders(ps, s, U), Orders(ps, t, W)
    PROVE  Orders(ps, s \o t, U \union W)
  <1> DEFINE z == s \o t
             n == Len(s)
  <1>1. s \in Seq(U) /\ t \in Seq(W)
    BY DEF Orders
  <1>2. DOMAIN s = 1 .. n /\ n \in Nat /\ DOMAIN t = 1 .. Len(t) /\ Len(t) \in Nat
    BY <1>1
  <1>3. /\ z \in Seq(U \union W)
        /\ DOMAIN z = 1 .. n + Len(t)
        /\ \A i \in DOMAIN s : i \in DOMAIN z /\ z[i] = s[i] /\ s[i] \in U
        /\ \A i \in DOMAIN t : n + i \in DOMAIN z /\ z[n + i] = t[i] /\ t[i] \in W
        /\ \A i \in DOMAIN z : i \in DOMAIN s \/ (i - n \in DOMAIN t /\ n + (i - n) = i)
    <2>1. /\ z \in Seq(U \union W)
          /\ Len(z) = n + Len(t)
          /\ \A i \in DOMAIN s : i \in DOMAIN z /\ z[i] = s[i]
          /\ \A i \in DOMAIN t : n + i \in DOMAIN z /\ z[n + i] = t[i]
          /\ \A i \in DOMAIN z : i \in DOMAIN s \/ (i - n \in DOMAIN t /\ i > n)
      BY <1>1, JoinedSequences, Zenon
    <2>2. DOMAIN z = 1 .. Len(z)
      BY <2>1
    <2>3. \A i \in DOMAIN s : s[i] \in U
      BY <1>1
    <2>4. \A i \in DOMAIN t : t[i] \in W
      BY <1>1
    <2> HIDE DEF z, n
    <2>5. \A i \in DOMAIN z : n + (i - n) = i
      BY <1>2, <2>1, <2>2
    <2>6. QED
      BY <2>1, <2>2, <2>3, <2>4, <2>5
  <1> HIDE DEF z, n
  <1>4. \A x \in U \union W : \E i \in DOMAIN z : z[i] = x
    <2>1. /\ \A x \in U : \E i \in DOMAIN s : s[i] = x
          /\ \A x \in W : \E i \in DOMAIN t : t[i] = x
      BY DEF Orders
    <2>2. QED
      BY <1>3, <2>1
  <1>5. ASSUME NEW i \in DOMAIN z, NEW j \in DOMAIN z, z[i] = z[j]
        PROVE  i = j
    <2>1. \A a, b \in DOMAIN s : s[a] = s[b] => a = b
      BY DEF Orders
    <2>2. \A a, b \in DOMAIN t : t[a] = t[b] => a = b
      BY DEF Orders
    <2>3. CASE i \in DOMAIN s /\ j \in DOMAIN s
      BY <1>3, <1>5, <2>1, <2>3
    <2>4. CASE i \notin DOMAIN s /\ j \notin DOMAIN s
      <3>1. t[i - n] = t[j - n] /\ i - n \in DOMAIN t /\ j - n \in DOMAIN t
        BY <1>3, <1>5, <2>4
      <3>2. i - n = j - n
        BY <2>2, <3>1
      <3>3. QED
        BY <1>2, <1>3, <3>2
    <2>5. CASE i \in DOMAIN s /\ j \notin DOMAIN s
      <3>1. z[i] \in U /\ z[j] \in W
        BY <1>3, <2>5
      <3>2. QED
        BY <1>5, <3>1
    <2>6. CASE i \notin DOMAIN s /\ j \in DOMAIN s
      <3>1. z[j] \in U /\ z[i] \in W
        BY <1>3, <2>6
      <3>2. QED
        BY <1>5, <3>1
    <2>7. QED
      BY <2>3, <2>4, <2>5, <2>6
  <1>6. ASSUME NEW i \in DOMAIN z, NEW p \in DOMAIN ps, ps[p].up = z[i]
        PROVE  \E j \in 1 .. i - 1 : z[j] = ps[p].down
    <2>1. CASE i \in DOMAIN s
      <3>1. PICK j \in 1 .. i - 1 : s[j] = ps[p].down
        BY <1>3, <1>6, <2>1 DEF Orders
      <3>2. j \in DOMAIN s
        BY <1>2, <2>1
      <3>3. QED
        BY <1>3, <3>1, <3>2
    <2>2. CASE i \notin DOMAIN s
      <3>1. i - n \in DOMAIN t /\ n + (i - n) = i /\ z[i] = t[i - n]
        BY <1>3, <2>2
      <3>2. PICK j \in 1 .. (i - n) - 1 : t[j] = ps[p].down
        BY <1>6, <3>1 DEF Orders
      <3>3. j \in DOMAIN t /\ n + j \in 1 .. i - 1
        BY <1>2, <1>3, <3>1
      <3>4. QED
        BY <1>3, <3>2, <3>3
    <2>3. QED
      BY <2>1, <2>2
  <1>7. QED
    BY <1>3, <1>4, <1>5, <1>6 DEF Orders, z

\* A node behind an order of all that is below it.
LEMMA OrdersAppend ==
    ASSUME NEW ps, NEW U, NEW n, n \notin U, NEW s, Orders(ps, s, U),
           \A p \in DOMAIN ps : ps[p].up = n => ps[p].down \in U
    PROVE  Orders(ps, Append(s, n), U \union {n})
  <1> DEFINE z == Append(s, n)
  <1>1. s \in Seq(U) /\ Len(s) \in Nat /\ DOMAIN s = 1 .. Len(s)
    BY DEF Orders
  <1>2. /\ z \in Seq(U \union {n})
        /\ DOMAIN z = 1 .. Len(s) + 1
        /\ \A i \in DOMAIN s : z[i] = s[i] /\ s[i] \in U
        /\ z[Len(s) + 1] = n
    <2>1. s \in Seq(U \union {n})
      BY <1>1
    <2>2. QED
      BY <1>1, <2>1
  <1> HIDE DEF z
  <1>3. \A x \in U \union {n} : \E i \in DOMAIN z : z[i] = x
    <2> SUFFICES ASSUME NEW x \in U \union {n}
                 PROVE  \E i \in DOMAIN z : z[i] = x
      OBVIOUS
    <2>1. CASE x = n
      <3>1. Len(s) + 1 \in DOMAIN z
        BY <1>1, <1>2
      <3>2. QED
        BY <1>2, <2>1, <3>1
    <2>2. CASE x # n
      <3>1. PICK i \in DOMAIN s : s[i] = x
        BY <2>2 DEF Orders
      <3>2. i \in DOMAIN z
        BY <1>1, <1>2
      <3>3. QED
        BY <1>2, <3>1, <3>2
    <2>3. QED
      BY <2>1, <2>2
  <1>4. ASSUME NEW i \in DOMAIN z, NEW j \in DOMAIN z, z[i] = z[j]
        PROVE  i = j
    <2>1. \A a, b \in DOMAIN s : s[a] = s[b] => a = b
      BY DEF Orders
    <2>2. \A a \in DOMAIN z : a \in DOMAIN s \/ a = Len(s) + 1
      BY <1>1, <1>2
    <2>3. QED
      BY <1>2, <1>4, <2>1, <2>2
  <1>5. ASSUME NEW i \in DOMAIN z, NEW p \in DOMAIN ps, ps[p].up = z[i]
        PROVE  \E j \in 1 .. i - 1 : z[j] = ps[p].down
    <2>1. CASE i \in DOMAIN s
      <3>1. PICK j \in 1 .. i - 1 : s[j] = ps[p].down
        BY <1>2, <1>5, <2>1 DEF Orders
      <3>2. j \in DOMAIN s
        BY <1>1, <2>1
      <3>3. QED
        BY <1>2, <3>1, <3>2
    <2>2. CASE i = Len(s) + 1
      <3>1. ps[p].down \in U
        BY <1>2, <1>5, <2>2
      <3>2. PICK j \in DOMAIN s : s[j] = ps[p].down
        BY <3>1 DEF Orders
      <3>3. j \in 1 .. i - 1
        BY <1>1, <2>2
      <3>4. QED
        BY <1>2, <3>2, <3>3
    <2>3. QED
      BY <1>1, <1>2, <2>1, <2>2
  <1>6. QED
    BY <1>2, <1>3, <1>4, <1>5 DEF Orders, z

-----------------------------------------------------------------------------
(* The parts of a tree *)

\* The nodes S under r as a tree: lev tells how far a node is from r, and part
\* what hangs under it, the node itself with the parts of the nodes below it,
\* which share nothing.
Parts(ps, r, S, lev, part) ==
    /\ lev \in [S -> Nat] /\ lev[r] = 0
    /\ \A x \in S : lev[x] < Cardinality(S)
    /\ part \in [S -> SUBSET S] /\ part[r] = S
    /\ \A p \in DOMAIN ps : ps[p].up \in S =>
          /\ ps[p].down \in S
          /\ lev[ps[p].down] = lev[ps[p].up] + 1
          /\ ps[p].up \notin part[ps[p].down]
    /\ \A n \in S, x \in S :
          x \in part[n] <=> x = n \/ \E p \in DOMAIN ps : ps[p].up = n /\ x \in part[ps[p].down]
    /\ \A p, q \in DOMAIN ps :
          ps[p].up \in S /\ ps[p].up = ps[q].up /\ p # q
          => part[ps[p].down] \intersect part[ps[q].down] = {}

\* One step up a pipe, and the rest of the walk from there.
LEMMA WalkFromBelow ==
    ASSUME NEW ps \in Seq(Pipe), NEW r, Branching(ps, r), NEW p \in DOMAIN ps
    PROVE  /\ ps[p].down \in Ends /\ ps[p].down # r
           /\ StepUp(ps, r, ps[p].down) = ps[p].up
           /\ \A k \in Nat : Walk(ps, r, ps[p].down)[k + 1] = Walk(ps, r, ps[p].up)[k]
  <1> DEFINE c == ps[p].down
             m == ps[p].up
  <1>1. c # r /\ \A q \in DOMAIN ps : ps[q].down = c => q = p
    BY DEF Branching
  <1>2. c \in Ends
    <2>1. ps[p] \in Pipe
      OBVIOUS
    <2>2. QED
      BY <2>1 DEF Pipe, Ends
  <1>3. InDegree(ps, c) # 0
    BY DegreeOfNode
  <1>4. Upstream(ps, c) = m
    BY <1>1 DEF Upstream
  <1> HIDE DEF c, m
  <1>5. StepUp(ps, r, c) = m
    BY <1>1, <1>3, <1>4 DEF StepUp
  <1>6. \A k \in Nat : Walk(ps, r, c)[k + 1] = Walk(ps, r, m)[k]
    BY <1>2, <1>5, WalkShifts
  <1>7. QED
    BY <1>1, <1>2, <1>5, <1>6 DEF c, m

\* How many steps the walk takes from x to r, and what hangs under n: the nodes
\* whose walk comes by there.
Distance(ps, r, S, lev) ==
    /\ lev \in [S -> Nat]
    /\ \A x \in S : /\ Walk(ps, r, x)[lev[x]] = r
                    /\ \A j \in Nat : Walk(ps, r, x)[j] = r => lev[x] <= j

Hanging(ps, r, S, lev) ==
    [n \in S |-> {x \in S : lev[x] >= lev[n] /\ Walk(ps, r, x)[lev[x] - lev[n]] = n}]

\* Where every walk comes to r there are distances.
LEMMA DistancesExist ==
    ASSUME NEW ps \in Seq(Pipe), NEW r, NEW S, \A x \in S : \E k \in Nat : Walk(ps, r, x)[k] = r
    PROVE  \E lev : Distance(ps, r, S, lev)
  <1> DEFINE Least(x, k) == /\ Walk(ps, r, x)[k] = r
                            /\ \A j \in Nat : Walk(ps, r, x)[j] = r => k <= j
             lev == [x \in S |-> CHOOSE k \in Nat : Least(x, k)]
  <1>1. ASSUME NEW x \in S
        PROVE  \E k \in Nat : Least(x, k)
    <2> DEFINE T == {k \in Nat : Walk(ps, r, x)[k] = r}
    <2>1. T \in SUBSET Nat /\ T # {}
      OBVIOUS
    <2>2. PICK k \in T : \A j \in T : k <= j
      <3> HIDE DEF T
      <3>1. QED
        BY <2>1, LeastNumber
    <2>3. QED
      BY <2>2
  <1> HIDE DEF Least
  <1>2. \A x \in S : lev[x] \in Nat /\ Least(x, lev[x])
    BY <1>1
  <1>3. lev \in [S -> Nat]
    BY <1>2
  <1> HIDE DEF lev
  <1>4. Distance(ps, r, S, lev)
    BY <1>2, <1>3 DEF Distance, Least
  <1>5. QED
    BY <1>4

\* A node is one step farther away than the node above it, and only r is at no
\* distance.
LEMMA DistanceGrows ==
    ASSUME NEW ps \in Seq(Pipe), NEW r \in Ends, Branching(ps, r), NEW S \in SUBSET Ends, r \in S,
           NEW lev, Distance(ps, r, S, lev)
    PROVE  /\ \A x \in S : lev[x] = 0 <=> x = r
           /\ \A p \in DOMAIN ps : ps[p].up \in S /\ ps[p].down \in S
                 => lev[ps[p].down] = lev[ps[p].up] + 1
  <1> DEFINE walk(x, k) == Walk(ps, r, x)[k]
  <1>1. \A x \in S : walk(x, 0) = x
    <2> SUFFICES ASSUME NEW x \in S
                 PROVE  walk(x, 0) = x
      OBVIOUS
    <2>1. x \in Ends
      OBVIOUS
    <2>2. QED
      BY <2>1, WalkSteps
  <1>2. \A x \in S : /\ lev[x] \in Nat /\ walk(x, lev[x]) = r
                     /\ \A j \in Nat : walk(x, j) = r => lev[x] <= j
    BY DEF Distance
  <1>3. \A p \in DOMAIN ps : /\ ps[p].down # r
                             /\ \A k \in Nat : walk(ps[p].down, k + 1) = walk(ps[p].up, k)
    <2> SUFFICES ASSUME NEW p \in DOMAIN ps
                 PROVE  /\ ps[p].down # r
                        /\ \A k \in Nat : walk(ps[p].down, k + 1) = walk(ps[p].up, k)
      OBVIOUS
    <2>1. QED
      BY WalkFromBelow
  <1> HIDE DEF walk
  <1>4. \A x \in S : lev[x] = 0 <=> x = r
    <2> SUFFICES ASSUME NEW x \in S
                 PROVE  lev[x] = 0 <=> x = r
      OBVIOUS
    <2>1. CASE x = r
      <3>1. walk(x, 0) = r
        BY <1>1, <2>1
      <3>2. lev[x] <= 0 /\ lev[x] \in Nat
        BY <1>2, <3>1
      <3>3. QED
        BY <2>1, <3>2
    <2>2. CASE x # r
      BY <1>1, <1>2, <2>2
    <2>3. QED
      BY <2>1, <2>2
  <1>5. ASSUME NEW p \in DOMAIN ps, ps[p].up \in S, ps[p].down \in S
        PROVE  lev[ps[p].down] = lev[ps[p].up] + 1
    <2> DEFINE c == ps[p].down
               m == ps[p].up
    <2>1. /\ c # r /\ c \in S /\ m \in S
          /\ \A k \in Nat : walk(c, k + 1) = walk(m, k)
      BY <1>3, <1>5
    <2> HIDE DEF c, m
    <2>2. lev[c] \in Nat /\ lev[c] # 0 /\ lev[m] \in Nat
      BY <1>2, <1>4, <2>1
    <2>3. lev[c] <= lev[m] + 1
      <3>1. lev[m] + 1 \in Nat
        BY <2>2
      <3>2. walk(c, lev[m] + 1) = walk(m, lev[m])
        BY <2>1, <2>2
      <3>3. walk(c, lev[m] + 1) = r
        BY <1>2, <2>1, <3>2
      <3>4. QED
        BY <1>2, <2>1, <3>1, <3>3
    <2>4. lev[m] <= lev[c] - 1
      <3>1. lev[c] - 1 \in Nat /\ (lev[c] - 1) + 1 = lev[c]
        BY <2>2
      <3>2. walk(m, lev[c] - 1) = walk(c, lev[c])
        BY <2>1, <3>1
      <3>3. walk(m, lev[c] - 1) = r
        BY <1>2, <2>1, <3>2
      <3>4. QED
        BY <1>2, <2>1, <3>1, <3>3
    <2>5. QED
      BY <2>2, <2>3, <2>4 DEF c, m
  <1>6. QED
    BY <1>4, <1>5

\* The walk stays in S, and comes one step nearer with every step.
LEMMA WalkComesNearer ==
    ASSUME NEW ps \in Seq(Pipe), NEW r \in Ends, Branching(ps, r), NEW S \in SUBSET Ends, r \in S,
           \A x \in S \ {r} : \E p \in DOMAIN ps : ps[p].down = x /\ ps[p].up \in S,
           NEW lev, Distance(ps, r, S, lev)
    PROVE  \A x \in S : \A k \in Nat : k <= lev[x] =>
              Walk(ps, r, x)[k] \in S /\ lev[Walk(ps, r, x)[k]] = lev[x] - k
  <1> SUFFICES ASSUME NEW x \in S
               PROVE  \A k \in Nat : k <= lev[x] =>
                         Walk(ps, r, x)[k] \in S /\ lev[Walk(ps, r, x)[k]] = lev[x] - k
    OBVIOUS
  <1> DEFINE w == Walk(ps, r, x)
             U == {k \in Nat : k <= lev[x] => w[k] \in S /\ lev[w[k]] = lev[x] - k}
  <1>1. lev \in [S -> Nat]
    BY DEF Distance
  <1>2. w[0] = x /\ \A k \in Nat : w[k + 1] = StepUp(ps, r, w[k])
    <2>1. x \in Ends
      OBVIOUS
    <2>2. QED
      BY <2>1, WalkSteps
  <1> HIDE DEF w
  <1>3. 0 \in U
    <2>1. w[0] = x /\ lev[x] \in Nat
      BY <1>1, <1>2
    <2>2. lev[x] - 0 = lev[x]
      BY <2>1
    <2>3. QED
      BY <2>1, <2>2
  <1>4. ASSUME NEW k \in Nat, k \in U
        PROVE  k + 1 \in U
    <2> SUFFICES ASSUME k + 1 <= lev[x]
                 PROVE  w[k + 1] \in S /\ lev[w[k + 1]] = lev[x] - (k + 1)
      OBVIOUS
    <2>1. w[k] \in S /\ lev[w[k]] = lev[x] - k /\ lev[w[k]] # 0
      BY <1>1, <1>4
    <2>2. w[k] # r
      BY <2>1, DistanceGrows
    <2>3. PICK p \in DOMAIN ps : ps[p].down = w[k] /\ ps[p].up \in S
      BY <2>1, <2>2
    <2>4. StepUp(ps, r, w[k]) = ps[p].up
      BY <2>3, WalkFromBelow
    <2>5. w[k + 1] = ps[p].up
      BY <1>2, <2>4, Zenon
    <2>6. lev[w[k]] = lev[ps[p].up] + 1
      BY <2>1, <2>3, DistanceGrows
    <2>7. QED
      BY <1>1, <2>1, <2>3, <2>5, <2>6
  <1>5. Nat \subseteq U
    <2> HIDE DEF U
    <2>1. QED
      BY <1>3, <1>4, Induct
  <1>6. QED
    BY <1>5 DEF w

\* What hangs under a node is the node with what hangs under those below it, and
\* the parts of two nodes below the same one have nothing in common: a node of
\* both would pass two nodes at the same distance.
LEMMA PartsExist ==
    ASSUME NEW ps \in Seq(Pipe), NEW r \in Ends, Branching(ps, r), NEW S \in SUBSET Ends, r \in S,
           IsFiniteSet(S), Cardinality(S) - 1 \in Nat, S = Within(ps, r)[Cardinality(S) - 1],
           \A p \in DOMAIN ps : ps[p].up \in S => ps[p].down \in S,
           \A x \in S \ {r} : \E p \in DOMAIN ps : ps[p].down = x /\ ps[p].up \in S
    PROVE  \E lev, part : Parts(ps, r, S, lev, part)
  <1> DEFINE walk(x, k) == Walk(ps, r, x)[k]
             N == Cardinality(S)
  <1>1. N \in Nat /\ N - 1 \in Nat /\ \A x \in S : walk(x, N - 1) = r
    <2>1. \A x \in Within(ps, r)[N - 1] : \A j \in Nat : j >= N - 1 => walk(x, j) = r
      BY WalkFromLevel
    <2>2. N \in Nat
      BY FS_CardinalityType
    <2> HIDE DEF walk
    <2>3. QED
      BY <2>1, <2>2
  <1>2. PICK lev : Distance(ps, r, S, lev)
    <2>1. \A x \in S : \E k \in Nat : Walk(ps, r, x)[k] = r
      BY <1>1
    <2>2. QED
      BY <2>1, DistancesExist
  <1> DEFINE part == Hanging(ps, r, S, lev)
  <1>3. /\ lev \in [S -> Nat]
        /\ \A x \in S : \A j \in Nat : walk(x, j) = r => lev[x] <= j
    BY <1>2 DEF Distance
  <1>4. /\ \A x \in S : lev[x] = 0 <=> x = r
        /\ \A p \in DOMAIN ps : ps[p].up \in S /\ ps[p].down \in S
              => lev[ps[p].down] = lev[ps[p].up] + 1
    BY <1>2, DistanceGrows
  <1>5. \A x \in S : walk(x, 0) = x /\ \A k \in Nat : walk(x, k + 1) = StepUp(ps, r, walk(x, k))
    <2> SUFFICES ASSUME NEW x \in S
                 PROVE  walk(x, 0) = x /\ \A k \in Nat : walk(x, k + 1) = StepUp(ps, r, walk(x, k))
      OBVIOUS
    <2>1. x \in Ends
      OBVIOUS
    <2>2. QED
      BY <2>1, WalkSteps
  <1>6. \A p \in DOMAIN ps : /\ ps[p].down # r
                             /\ StepUp(ps, r, ps[p].down) = ps[p].up
    <2> SUFFICES ASSUME NEW p \in DOMAIN ps
                 PROVE  ps[p].down # r /\ StepUp(ps, r, ps[p].down) = ps[p].up
      OBVIOUS
    <2>1. /\ ps[p].down \in Ends /\ ps[p].down # r
          /\ StepUp(ps, r, ps[p].down) = ps[p].up
          /\ \A k \in Nat : Walk(ps, r, ps[p].down)[k + 1] = Walk(ps, r, ps[p].up)[k]
      BY WalkFromBelow
    <2>2. QED
      BY <2>1
  <1>7. \A x \in S : \A k \in Nat : k <= lev[x] => walk(x, k) \in S /\ lev[walk(x, k)] = lev[x] - k
    BY <1>2, WalkComesNearer
  <1>8. /\ part \in [S -> SUBSET S]
        /\ \A n \in S : \A x \in S :
              x \in part[n] <=> lev[x] >= lev[n] /\ walk(x, lev[x] - lev[n]) = n
    BY DEF Hanging
  <1>9. \A x \in S : lev[x] \in Nat
    BY <1>3
  <1> HIDE DEF walk, part, N
  <1>10. lev[r] = 0 /\ \A x \in S : lev[x] < N
    <2>1. lev[r] = 0
      BY <1>4
    <2>2. \A x \in S : lev[x] <= N - 1
      BY <1>1, <1>3
    <2>3. QED
      BY <1>1, <1>9, <2>1, <2>2
  <1>11. part[r] = S
    <2> SUFFICES ASSUME NEW x \in S
                 PROVE  x \in part[r]
      BY <1>8
    <2>1. lev[x] \in Nat /\ lev[x] - 0 = lev[x] /\ lev[x] <= lev[x] /\ lev[x] - lev[x] = 0
      BY <1>9
    <2>2. walk(x, lev[x]) \in S /\ lev[walk(x, lev[x])] = 0
      BY <1>7, <2>1
    <2>3. walk(x, lev[x]) = r
      BY <1>4, <2>2
    <2>4. QED
      BY <1>8, <1>10, <2>1, <2>3
  <1>12. \A p \in DOMAIN ps : ps[p].up \in S =>
            /\ ps[p].down \in S
            /\ lev[ps[p].down] = lev[ps[p].up] + 1
            /\ \A x \in part[ps[p].down] :
                  /\ x \in S /\ lev[x] > lev[ps[p].up]
                  /\ x \in part[ps[p].up]
    <2> SUFFICES ASSUME NEW p \in DOMAIN ps, ps[p].up \in S
                 PROVE  /\ ps[p].down \in S
                        /\ lev[ps[p].down] = lev[ps[p].up] + 1
                        /\ \A x \in part[ps[p].down] :
                              /\ x \in S /\ lev[x] > lev[ps[p].up]
                              /\ x \in part[ps[p].up]
      OBVIOUS
    <2> DEFINE c == ps[p].down
               m == ps[p].up
    <2>1. c \in S /\ m \in S /\ lev[c] = lev[m] + 1 /\ StepUp(ps, r, c) = m
      BY <1>4, <1>6
    <2> HIDE DEF c, m
    <2>2. ASSUME NEW x \in part[c]
          PROVE  x \in S /\ lev[x] > lev[m] /\ x \in part[m]
      <3>1. x \in S /\ lev[x] >= lev[c] /\ walk(x, lev[x] - lev[c]) = c
        BY <1>8, <2>1, <2>2
      <3>2. lev[x] \in Nat /\ lev[m] \in Nat /\ lev[c] \in Nat
        BY <1>9, <2>1, <3>1
      <3>3. /\ lev[x] - lev[c] \in Nat /\ lev[x] > lev[m] /\ lev[x] >= lev[m]
            /\ (lev[x] - lev[c]) + 1 = lev[x] - lev[m]
        BY <2>1, <3>1, <3>2
      <3>4. walk(x, (lev[x] - lev[c]) + 1) = m
        BY <1>5, <2>1, <3>1, <3>3
      <3>5. QED
        BY <1>8, <2>1, <3>1, <3>3, <3>4
    <2>3. QED
      BY <2>1, <2>2 DEF c, m
  <1>13. \A n \in S : n \in part[n]
    <2> SUFFICES ASSUME NEW n \in S
                 PROVE  n \in part[n]
      OBVIOUS
    <2>1. lev[n] \in Nat /\ lev[n] >= lev[n] /\ lev[n] - lev[n] = 0
      BY <1>9
    <2>2. QED
      BY <1>5, <1>8, <2>1
  <1>14. ASSUME NEW n \in S, NEW x \in S, x \in part[n], x # n
         PROVE  \E p \in DOMAIN ps : ps[p].up = n /\ x \in part[ps[p].down]
    <2> DEFINE k == lev[x] - lev[n]
    <2>1. lev[x] \in Nat /\ lev[n] \in Nat /\ lev[x] >= lev[n] /\ walk(x, k) = n
      BY <1>8, <1>9, <1>14
    <2>2. k \in Nat /\ k # 0 /\ k - 1 \in Nat /\ (k - 1) + 1 = k /\ k - 1 <= lev[x]
      <3>1. k # 0
        BY <1>5, <1>14, <2>1
      <3>2. QED
        BY <2>1, <3>1
    <2> DEFINE y == walk(x, k - 1)
    <2>3. y \in S /\ lev[y] = lev[x] - (k - 1)
      BY <1>7, <2>2
    <2>4. lev[y] = lev[n] + 1
      BY <2>1, <2>3
    <2>5. walk(x, k) = StepUp(ps, r, y)
      BY <1>5, <2>2
    <2>6. x \in part[y]
      <3>1. lev[x] >= lev[y] /\ lev[x] - lev[y] = k - 1
        BY <2>1, <2>2, <2>4
      <3> HIDE DEF k
      <3>2. walk(x, lev[x] - lev[y]) = y
        BY <3>1
      <3>3. QED
        BY <1>8, <2>3, <3>1, <3>2
    <2> HIDE DEF y, k
    <2>7. y # r
      BY <1>4, <2>1, <2>3, <2>4
    <2>8. PICK p \in DOMAIN ps : ps[p].down = y /\ ps[p].up \in S
      BY <2>3, <2>7
    <2>9. ps[p].up = n
      BY <1>6, <2>1, <2>5, <2>8
    <2>10. QED
      BY <2>6, <2>8, <2>9
  <1>15. ASSUME NEW p \in DOMAIN ps, NEW q \in DOMAIN ps,
                ps[p].up \in S, ps[p].up = ps[q].up, p # q
         PROVE  part[ps[p].down] \intersect part[ps[q].down] = {}
    <2> SUFFICES ASSUME NEW x, x \in part[ps[p].down], x \in part[ps[q].down]
                 PROVE  FALSE
      OBVIOUS
    <2>1. /\ ps[p].down \in S /\ ps[q].down \in S /\ x \in S
          /\ lev[ps[p].down] = lev[ps[q].down]
      BY <1>12, <1>15
    <2>2. ps[p].down = ps[q].down
      BY <1>8, <2>1
    <2>3. QED
      BY <1>15, <2>2 DEF Branching
  <1>16. \A p \in DOMAIN ps : ps[p].up \in S => ps[p].up \notin part[ps[p].down]
    <2> SUFFICES ASSUME NEW p \in DOMAIN ps, ps[p].up \in S, ps[p].up \in part[ps[p].down]
                 PROVE  FALSE
      OBVIOUS
    <2>1. lev[ps[p].up] > lev[ps[p].up] /\ lev[ps[p].up] \in Nat
      BY <1>9, <1>12
    <2>2. QED
      BY <2>1
  <1>17. \A n \in S, x \in S :
            x \in part[n] <=> x = n \/ \E p \in DOMAIN ps : ps[p].up = n /\ x \in part[ps[p].down]
    BY <1>12, <1>13, <1>14
  <1>18. Parts(ps, r, S, lev, part)
    BY <1>3, <1>8, <1>10, <1>11, <1>12, <1>15, <1>16, <1>17 DEF Parts, N
  <1>19. QED
    BY <1>18

-----------------------------------------------------------------------------
(* What rec puts out *)

\* If what was put out for each node below n is an order of its part, the loop
\* over the pipes makes them one order of all that is below n.
LEMMA LoopOrders ==
    ASSUME NEW ps \in Seq(Pipe), NEW r, NEW S, NEW lev, NEW part, Parts(ps, r, S, lev, part),
           NEW n \in S, NEW put,
           \A p \in DOMAIN ps : ps[p].up = n => Orders(ps, put[ps[p].down], part[ps[p].down])
    PROVE  Orders(ps, PutBelow(ps, put, n), part[n] \ {n})
  <1> DEFINE Gone(k) == {x \in S : \E p \in 1 .. k : ps[p].up = n /\ x \in part[ps[p].down]}
  <1>1. DOMAIN ps = 1 .. Len(ps) /\ Len(ps) \in Nat
    OBVIOUS
  <1>2. \A p \in DOMAIN ps : ps[p].up = n =>
           ps[p].down \in S /\ part[ps[p].down] \in SUBSET S /\ n \notin part[ps[p].down]
    BY DEF Parts
  <1>3. \A p \in DOMAIN ps : ps[p].up = n => put[ps[p].down] \in Seq(S)
    <2> SUFFICES ASSUME NEW p \in DOMAIN ps, ps[p].up = n
                 PROVE  put[ps[p].down] \in Seq(S)
      OBVIOUS
    <2>1. put[ps[p].down] \in Seq(part[ps[p].down]) /\ part[ps[p].down] \in SUBSET S
      BY <1>2 DEF Orders
    <2>2. QED
      BY <2>1
  <1>4. PICK out : LoopOver(out, ps, put, n, S)
    BY <1>3, LoopSteps
  <1> DEFINE U == {k \in Nat : k <= Len(ps) => Orders(ps, out[k], Gone(k))}
  <1>5. 0 \in U
    <2>1. out[0] = << >> /\ Gone(0) = {}
      BY <1>4 DEF LoopOver
    <2>2. Orders(ps, out[0], Gone(0))
      BY <2>1, OrderOfNone
    <2>3. QED
      BY <2>2
  <1>6. ASSUME NEW k \in Nat, k \in U
        PROVE  k + 1 \in U
    <2> SUFFICES ASSUME k + 1 <= Len(ps)
                 PROVE  Orders(ps, out[k + 1], Gone(k + 1))
      OBVIOUS
    <2> DEFINE c == ps[k + 1].down
    <2>1. k \in 0 .. Len(ps) - 1 /\ k + 1 \in DOMAIN ps /\ 1 .. k \subseteq DOMAIN ps
      BY <1>1
    <2>2. Orders(ps, out[k], Gone(k))
      BY <1>1, <1>6
    <2>3. out[k + 1] = IF ps[k + 1].up = n THEN out[k] \o put[c] ELSE out[k]
      BY <1>4, <2>1 DEF LoopOver
    <2>4. \A p : p \in 1 .. (k + 1) <=> p = k + 1 \/ p \in 1 .. k
      OBVIOUS
    <2>5. CASE ps[k + 1].up # n
      <3>1. Gone(k + 1) = Gone(k)
        BY <2>4, <2>5
      <3>2. QED
        BY <2>2, <2>3, <2>5, <3>1
    <2>6. CASE ps[k + 1].up = n
      <3>1. Orders(ps, put[c], part[c]) /\ part[c] \in SUBSET S
        BY <1>2, <2>1, <2>6
      <3>2. Gone(k + 1) = Gone(k) \union part[c]
        <4>1. \A x \in S : x \in Gone(k + 1) <=> x \in Gone(k) \/ x \in part[c]
          BY <2>4, <2>6
        <4>2. QED
          BY <3>1, <4>1
      <3>3. Gone(k) \intersect part[c] = {}
        <4> SUFFICES ASSUME NEW x \in S, x \in part[c],
                            NEW p \in 1 .. k, ps[p].up = n, x \in part[ps[p].down]
                     PROVE  FALSE
          OBVIOUS
        <4>1. p \in DOMAIN ps /\ p # k + 1
          BY <2>1
        <4>2. part[ps[p].down] \intersect part[ps[k + 1].down] = {}
          BY <2>1, <2>6, <4>1 DEF Parts
        <4>3. QED
          BY <4>2
      <3> HIDE DEF Gone, c
      <3>4. Orders(ps, out[k] \o put[c], Gone(k) \union part[c])
        BY <2>2, <3>1, <3>3, OrdersJoin
      <3>5. QED
        BY <2>3, <2>6, <3>2, <3>4
    <2>7. QED
      BY <2>5, <2>6
  <1>7. Nat \subseteq U
    <2> HIDE DEF U
    <2>1. QED
      BY <1>5, <1>6, Induct
  <1>8. Orders(ps, out[Len(ps)], Gone(Len(ps)))
    <2>1. Len(ps) \in U
      BY <1>1, <1>7
    <2> HIDE DEF Gone
    <2>2. QED
      BY <1>1, <2>1
  <1>9. Gone(Len(ps)) = part[n] \ {n}
    <2>1. \A x \in S :
             x \in part[n] <=> x = n \/ \E p \in DOMAIN ps : ps[p].up = n /\ x \in part[ps[p].down]
      BY DEF Parts
    <2>2. part[n] \subseteq S
      BY DEF Parts
    <2>3. QED
      BY <1>1, <1>2, <2>1, <2>2
  <1>10. PutBelow(ps, put, n) = out[Len(ps)]
    BY <1>4 DEF LoopOver
  <1>11. QED
    BY <1>8, <1>9, <1>10

\* The recursion of PostOrder, by the number of levels it may go down.
Rec(net) ==
    CHOOSE rec : rec = [d \in Nat |->
                           [n \in net.nodes |-> IF d = 0 THEN << >>
                                                ELSE Append(PutBelow(net.pipes, rec[d - 1], n), n)]]

\* The recursion of PostOrder has a solution if every pipe leads to a node.
LEMMA RecSteps ==
    ASSUME NEW net, net.pipes \in Seq(Pipe),
           \A p \in DOMAIN net.pipes : net.pipes[p].down \in net.nodes
    PROVE  /\ PostOrder(net) = Rec(net)[Cardinality(net.nodes)][net.first]
           /\ \A d \in Nat, n \in net.nodes :
                 Rec(net)[d + 1][n] = Append(PutBelow(net.pipes, Rec(net)[d], n), n)
  <1> DEFINE X == net.nodes
             T == [X -> Seq(X)]
             Level(g) == [n \in X |-> Append(PutBelow(net.pipes, g, n), n)]
             base == [n \in X |-> << >>]
             step == [d \in Nat |-> [g \in T |-> Level(g)]]
             Equation(rec) ==
                rec = [d \in Nat |->
                          [n \in X |-> IF d = 0 THEN << >>
                                       ELSE Append(PutBelow(net.pipes, rec[d - 1], n), n)]]
  <1>1. \A g \in T : Level(g) \in T
    <2> SUFFICES ASSUME NEW g \in T, NEW n \in X
                 PROVE  Append(PutBelow(net.pipes, g, n), n) \in Seq(X)
      OBVIOUS
    <2>1. \A p \in DOMAIN net.pipes : net.pipes[p].up = n => g[net.pipes[p].down] \in Seq(X)
      OBVIOUS
    <2>2. PICK out : LoopOver(out, net.pipes, g, n, X)
      BY <2>1, LoopSteps
    <2>3. PutBelow(net.pipes, g, n) \in Seq(X)
      BY <2>2 DEF LoopOver
    <2> DEFINE below == PutBelow(net.pipes, g, n)
    <2>4. below \in Seq(X)
      BY <2>3
    <2> HIDE DEF below, X
    <2>5. Append(below, n) \in Seq(X)
      BY <2>4
    <2>6. QED
      BY <2>5 DEF below
  <1>2. PICK h : Follows(h, T, base, step)
    <2>1. base \in T
      OBVIOUS
    <2>2. step \in Steps(T)
      <3> HIDE DEF T, Level
      <3>1. QED
        BY <1>1 DEF Steps
    <2> HIDE DEF T, base, step
    <2>3. QED
      BY <2>1, <2>2, Recursion
  <1>3. /\ h \in [Nat -> T] /\ h[0] = base
        /\ \A d \in Nat : h[d + 1] = Level(h[d])
    <2> HIDE DEF T, Level, base
    <2>1. QED
      BY <1>2 DEF Follows
  <1>4. Equation(h)
    <2>1. h[0] = [n \in X |-> << >>]
      BY <1>3
    <2>2. ASSUME NEW d \in Nat, d # 0
          PROVE  h[d] = [n \in X |-> Append(PutBelow(net.pipes, h[d - 1], n), n)]
      <3>1. d - 1 \in Nat /\ (d - 1) + 1 = d
        BY <2>2
      <3>2. h[(d - 1) + 1] = Level(h[d - 1])
        BY <1>3, <3>1
      <3>3. QED
        BY <3>1, <3>2
    <2>3. h = [d \in Nat |-> h[d]]
      BY <1>3
    <2>4. \A d \in Nat : h[d] = [n \in X |-> IF d = 0 THEN << >>
                                             ELSE Append(PutBelow(net.pipes, h[d - 1], n), n)]
      BY <2>1, <2>2
    <2>5. QED
      BY <2>3, <2>4, Zenon
  <1> DEFINE w == Rec(net)
  <1>5. Equation(w)
    <2>1. w = CHOOSE rec : Equation(rec)
      BY DEF Rec
    <2> HIDE DEF Equation, w
    <2>2. QED
      BY <1>4, <2>1
  <1>6. PostOrder(net) = w[Cardinality(X)][net.first]
    BY DEF PostOrder, Rec
  <1> HIDE DEF w
  <1>7. ASSUME NEW d \in Nat, NEW n \in X
        PROVE  w[d + 1][n] = Append(PutBelow(net.pipes, w[d], n), n)
    <2>1. d + 1 \in Nat /\ d + 1 # 0 /\ (d + 1) - 1 = d
      OBVIOUS
    <2>2. w[d + 1] = [m \in X |-> IF d + 1 = 0 THEN << >>
                                  ELSE Append(PutBelow(net.pipes, w[(d + 1) - 1], m), m)]
      BY <1>5, <2>1
    <2>3. QED
      BY <2>1, <2>2
  <1>8. QED
    BY <1>6, <1>7 DEF w

\* From the lowest nodes up: what rec puts out for a node, given as many levels
\* as the tree has below it, is an order of its part.
LEMMA RecOrders ==
    ASSUME NEW net, net.pipes \in Seq(Pipe), IsFiniteSet(net.nodes),
           \A p \in DOMAIN net.pipes : net.pipes[p].down \in net.nodes,
           NEW S \in SUBSET net.nodes, net.first \in S,
           NEW lev, NEW part, Parts(net.pipes, net.first, S, lev, part)
    PROVE  Orders(net.pipes, PostOrder(net), S)
  <1> DEFINE ps == net.pipes
             rec == Rec(net)
             N == Cardinality(net.nodes)
             U == {d \in Nat : \A n \in S : lev[n] + d >= N => Orders(ps, rec[d][n], part[n])}
  <1>1. /\ PostOrder(net) = rec[N][net.first]
        /\ \A d \in Nat, n \in S : rec[d + 1][n] = Append(PutBelow(ps, rec[d], n), n)
    BY RecSteps
  <1>2. /\ \A n \in S : lev[n] \in Nat /\ lev[n] < N /\ part[n] \in SUBSET S /\ n \in part[n]
        /\ \A p \in DOMAIN ps : ps[p].up \in S => /\ ps[p].down \in S
                                                  /\ lev[ps[p].down] = lev[ps[p].up] + 1
    <2>1. /\ N \in Nat /\ Cardinality(S) \in Nat /\ Cardinality(S) <= N
      BY FS_Subset, FS_CardinalityType
    <2>2. \A n \in S : lev[n] \in Nat /\ lev[n] < Cardinality(S) /\ part[n] \in SUBSET S /\ n \in part[n]
      BY DEF Parts
    <2> HIDE DEF N
    <2>3. \A n \in S : lev[n] < N
      BY <2>1, <2>2
    <2>4. QED
      BY <2>2, <2>3 DEF Parts
  <1>3. N \in Nat
    BY FS_CardinalityType
  <1> HIDE DEF rec, N
  <1>4. 0 \in U
    BY <1>2, <1>3
  <1>5. ASSUME NEW d \in Nat, d \in U
        PROVE  d + 1 \in U
    <2> SUFFICES ASSUME NEW n \in S, lev[n] + (d + 1) >= N
                 PROVE  Orders(ps, rec[d + 1][n], part[n])
      OBVIOUS
    <2>1. ASSUME NEW p \in DOMAIN ps, ps[p].up = n
          PROVE  /\ ps[p].down \in part[n] \ {n}
                 /\ Orders(ps, rec[d][ps[p].down], part[ps[p].down])
      <3>1. ps[p].down \in S /\ lev[ps[p].down] = lev[n] + 1 /\ lev[n] \in Nat
        BY <1>2, <2>1
      <3>2. lev[ps[p].down] + d >= N
        BY <1>3, <3>1
      <3>3. Orders(ps, rec[d][ps[p].down], part[ps[p].down])
        BY <1>5, <3>1, <3>2
      <3>4. ps[p].down # n
        BY <3>1
      <3>5. ps[p].down \in part[n]
        BY <1>2, <2>1, <3>1 DEF Parts
      <3>6. QED
        BY <3>3, <3>4, <3>5
    <2> DEFINE below == PutBelow(ps, rec[d], n)
    <2>2. Orders(ps, below, part[n] \ {n})
      BY <2>1, LoopOrders
    <2> HIDE DEF below
    <2>3. Orders(ps, Append(below, n), (part[n] \ {n}) \union {n})
      BY <2>1, <2>2, OrdersAppend
    <2>4. (part[n] \ {n}) \union {n} = part[n]
      BY <1>2
    <2>5. rec[d + 1][n] = Append(below, n)
      BY <1>1 DEF below
    <2>6. QED
      BY <2>3, <2>4, <2>5
  <1>6. Nat \subseteq U
    <2> HIDE DEF U
    <2>1. QED
      BY <1>4, <1>5, Induct
  <1>7. lev[net.first] + N >= N /\ part[net.first] = S
    BY <1>2, <1>3 DEF Parts
  <1>8. Orders(ps, rec[N][net.first], part[net.first])
    BY <1>3, <1>6, <1>7
  <1>9. QED
    BY <1>1, <1>7, <1>8

-----------------------------------------------------------------------------
(* The order of a network that was built *)

\* The nodes dfs visits, as a tree of a network that was built.
LEMMA BuiltHasParts ==
    ASSUME SourceInv, Built(Reading)
    PROVE  /\ pipes \in Seq(Pipe) /\ Reading.pipes = pipes /\ IsFiniteSet(Reading.nodes)
           /\ \A p \in DOMAIN pipes : pipes[p].down \in Reading.nodes
           /\ Visited(Reading) \in SUBSET Reading.nodes /\ Reading.first \in Visited(Reading)
           /\ Reached(Reading) \subseteq Visited(Reading)
           /\ Branching(pipes, Reading.first)
           /\ \A n \in Visited(Reading) \ {Reading.first} :
                 \E p \in DOMAIN pipes : pipes[p].down = n /\ pipes[p].up \in Visited(Reading)
           /\ \E lev, part : Parts(pipes, Reading.first, Visited(Reading), lev, part)
  <1> DEFINE r == Reading.first
             S == Visited(Reading)
  <1>1. /\ TypeOK /\ r # None
        /\ \A p \in DOMAIN pipes : {pipes[p].up, pipes[p].down} \subseteq Reading.nodes
        /\ Reached(Reading) \subseteq S
    BY ReadingIsTyped DEF SourceInv, Built, AssertTree
  <1>2. /\ pipes \in Seq(Pipe) /\ Reading.pipes = pipes /\ IsFiniteSet(Reading.nodes)
        /\ Reading.nodes \in SUBSET Ids
    BY <1>1, ReadingIsTyped
  <1>3. Branching(pipes, r)
    BY <1>2, BuiltIsBranching
  <1>4. /\ r \in Ends /\ r \in S /\ S \subseteq Reading.nodes /\ IsFiniteSet(S)
        /\ \A k \in Nat : Within(pipes, r)[k] \subseteq S
        /\ S = Within(pipes, r)[Cardinality(S) - 1] /\ Cardinality(S) - 1 \in Nat
        /\ \A p \in DOMAIN pipes : pipes[p].up \in S => pipes[p].down \in S
    BY <1>1, VisitedIsAllLevels
  <1> HIDE DEF r, S
  <1>5. \A n \in S \ {r} : \E p \in DOMAIN pipes : pipes[p].down = n /\ pipes[p].up \in S
    <2>1. \A k \in Nat : \A n \in Within(pipes, r)[k] :
              n = r \/ \E p \in DOMAIN pipes : pipes[p].down = n /\ pipes[p].up \in S
      BY <1>1, <1>4, ReachedHavePipes
    <2>2. QED
      BY <1>4, <2>1
  <1>6. S \in SUBSET Ends
    BY <1>2, <1>4 DEF Ends
  <1>7. \E lev, part : Parts(pipes, r, S, lev, part)
    BY <1>2, <1>3, <1>4, <1>5, <1>6, PartsExist
  <1>8. QED
    BY <1>1, <1>2, <1>3, <1>4, <1>5, <1>7 DEF r, S

\* Of every network that was built, however callers raced to build it and
\* whatever was added while it was read, postOrder puts out each node that must
\* be reached once, and a node behind all that lie below it: Calc sums a flow
\* after the flows it is made of, and counts none twice.
THEOREM EachNodeAfterItsChildrenHolds == Spec => []EachNodeAfterItsChildren
  <1>1. SourceInv => EachNodeAfterItsChildren
    <2> SUFFICES ASSUME SourceInv, Built(Reading)
                 PROVE  LET order == PostOrder(Reading)
                        IN  /\ \A i, j \in DOMAIN order : order[i] = order[j] => i = j
                            /\ Reached(Reading) \subseteq ToSet(order)
                            /\ \A i \in DOMAIN order, p \in DOMAIN pipes :
                                  pipes[p].up = order[i] =>
                                      \E j \in 1 .. i - 1 : order[j] = pipes[p].down
      BY DEF EachNodeAfterItsChildren
    <2> DEFINE order == PostOrder(Reading)
               S == Visited(Reading)
    <2>1. /\ pipes \in Seq(Pipe) /\ Reading.pipes = pipes /\ IsFiniteSet(Reading.nodes)
          /\ \A p \in DOMAIN pipes : pipes[p].down \in Reading.nodes
          /\ S \in SUBSET Reading.nodes /\ Reading.first \in S
          /\ Reached(Reading) \subseteq S
      BY BuiltHasParts
    <2>2. PICK lev, part : Parts(pipes, Reading.first, S, lev, part)
      BY BuiltHasParts
    <2>3. Orders(pipes, order, S)
      BY <2>1, <2>2, RecOrders
    <2> HIDE DEF order, S
    <2>4. Reached(Reading) \subseteq ToSet(order)
      BY <2>1, <2>3 DEF Orders, ToSet
    <2>5. QED
      BY <2>3, <2>4 DEF Orders, order
  <1>2. QED
    BY <1>1, SourceInvHolds, PTL

-----------------------------------------------------------------------------
(* What is handed on to the calculation *)

\* Of any nodes of a tree one is farthest from the root: none of the others is
\* below it.
LEMMA FarthestIsLowest ==
    ASSUME NEW ps \in Seq(Pipe), NEW r, NEW S, IsFiniteSet(S), NEW lev, NEW part,
           Parts(ps, r, S, lev, part), NEW B \in SUBSET S, B # {}
    PROVE  \E n \in B : \A p \in DOMAIN ps : ps[p].up = n => ps[p].down \notin B
  <1> DEFINE L == Cardinality(S)
             T == {L - lev[x] : x \in B}
  <1>1. L \in Nat /\ \A x \in S : lev[x] \in Nat /\ lev[x] < L
    <2>1. L \in Nat
      BY FS_CardinalityType
    <2>2. QED
      BY <2>1 DEF Parts
  <1> HIDE DEF L
  <1>2. T \in SUBSET Nat /\ T # {}
    <2>1. \A x \in B : L - lev[x] \in Nat
      BY <1>1
    <2>2. QED
      BY <2>1
  <1>3. PICK t \in T : \A u \in T : t <= u
    <2> HIDE DEF T
    <2>1. QED
      BY <1>2, LeastNumber
  <1>4. PICK n \in B : t = L - lev[n]
    BY <1>3
  <1>5. \A m \in B : lev[m] <= lev[n]
    <2> SUFFICES ASSUME NEW m \in B
                 PROVE  lev[m] <= lev[n]
      OBVIOUS
    <2>1. L - lev[n] <= L - lev[m] /\ lev[n] \in Nat /\ lev[m] \in Nat
      BY <1>1, <1>3, <1>4
    <2>2. QED
      BY <1>1, <2>1
  <1>6. ASSUME NEW p \in DOMAIN ps, ps[p].up = n, ps[p].down \in B
        PROVE  FALSE
    <2>1. lev[ps[p].down] = lev[n] + 1 /\ lev[n] \in Nat
      BY <1>1, <1>6 DEF Parts
    <2>2. lev[ps[p].down] <= lev[n]
      BY <1>5, <1>6
    <2>3. QED
      BY <2>1, <2>2
  <1>7. QED
    BY <1>6

\* What Calc is given of a network that was built is a tree in the sense of
\* module Figures: its assumption on networks is one that Network guarantees.
THEOREM CalcGetsTreeHolds == Spec => []CalcGetsTree
  <1>1. SourceInv => CalcGetsTree
    <2> DEFINE r == Reading.first
               S == Visited(Reading)
               up == [n \in S \ {r} |-> Upstream(pipes, n)]
    <2> SUFFICES ASSUME SourceInv, Built(Reading)
                 PROVE  IsTree(S, r, up)
      <3>1. SourceInv => Reading.pipes = pipes
        BY DEF Reading
      <3>2. QED
        BY <3>1 DEF CalcGetsTree
    <2>1. /\ pipes \in Seq(Pipe) /\ IsFiniteSet(Reading.nodes)
          /\ S \in SUBSET Reading.nodes /\ r \in S
          /\ Branching(pipes, r)
          /\ \A n \in S \ {r} : \E p \in DOMAIN pipes : pipes[p].down = n /\ pipes[p].up \in S
      BY BuiltHasParts
    <2>2. PICK lev, part : Parts(pipes, r, S, lev, part)
      BY BuiltHasParts
    <2>3. IsFiniteSet(S)
      BY <2>1, FS_Subset
    <2> HIDE DEF r, S
    <2>4. \A n \in S \ {r} : /\ up[n] \in S
                             /\ \E p \in DOMAIN pipes : pipes[p].down = n /\ pipes[p].up = up[n]
      <3> SUFFICES ASSUME NEW n \in S \ {r}
                   PROVE  /\ up[n] \in S
                          /\ \E p \in DOMAIN pipes : pipes[p].down = n /\ pipes[p].up = up[n]
        OBVIOUS
      <3>1. PICK p \in DOMAIN pipes : pipes[p].down = n /\ pipes[p].up \in S
        BY <2>1
      <3>2. \A q \in DOMAIN pipes : pipes[q].down = n => q = p
        BY <2>1, <3>1 DEF Branching
      <3>3. up[n] = pipes[p].up
        BY <3>1, <3>2 DEF Upstream
      <3>4. QED
        BY <3>1, <3>3
    <2>5. up \in [S \ {r} -> S]
      BY <2>4
    <2> HIDE DEF up
    <2>6. ASSUME NEW B \in SUBSET S, B # {}
          PROVE  \E n \in B : \A m \in B \ {r} : up[m] # n
      <3>1. PICK n \in B : \A p \in DOMAIN pipes : pipes[p].up = n => pipes[p].down \notin B
        BY <2>1, <2>2, <2>3, <2>6, FarthestIsLowest
      <3>2. \A m \in B \ {r} : up[m] # n
        BY <2>4, <3>1
      <3>3. QED
        BY <3>2
    <2>7. QED
      BY <2>1, <2>3, <2>5, <2>6 DEF IsTree
  <1>2. QED
    BY <1>1, SourceInvHolds, PTL

\* However callers raced, and whatever was added while the rows were read, what
\* BuildNetwork accepts is a tree: of the rows, as Calc takes it, and for the
\* walk up from an emitter.
THEOREM BuiltIsTreeHolds == Spec => []BuiltIsTree
  <1>1. TreeBelowSource /\ CalcGetsTree /\ WalkEndsAtSource => BuiltIsTree
    BY DEF BuiltIsTree
  <1>2. QED
    BY <1>1, TreeBelowSourceHolds, CalcGetsTreeHolds, WalkEndsAtSourceHolds, PTL

=============================================================================

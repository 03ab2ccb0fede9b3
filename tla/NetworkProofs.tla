--------------------------- MODULE NetworkProofs ---------------------------
(* What holds of Network for every set of nodes and every number of pipes. *)
EXTENDS Network, Induction

-----------------------------------------------------------------------------
(* Type correctness *)

LEMMA TypeInit == Init => TypeOK
  BY DEF Init, TypeOK, Call, Idle, Listed

LEMMA TypeStep == TypeOK /\ [Next]_vars => TypeOK'
  <1> SUFFICES ASSUME TypeOK, [Next]_vars
               PROVE  TypeOK'
    OBVIOUS
  <1> USE DEF TypeOK
  <1>1. ASSUME NEW n \in Ids, CreateNode(n)
        PROVE  TypeOK'
    BY <1>1 DEF CreateNode
  <1>2. ASSUME NEW c \in Clients, NEW pipe \in Pipe, ListPipes(c, pipe)
        PROVE  TypeOK'
    <2>1. [phase |-> "insert", pipe |-> pipe] \in Call
      BY DEF Call
    <2>2. QED
      BY <1>2, <2>1 DEF ListPipes
  <1>3. ASSUME NEW c \in Clients, InsertPipe(c)
        PROVE  TypeOK'
    <2>1. req[c].pipe \in Pipe
      BY <1>3 DEF InsertPipe, Call, Idle
    <2>2. Idle \in Call
      BY DEF Call
    <2>3. QED
      BY <1>3, <2>1, <2>2 DEF InsertPipe
  <1>4. CASE ListNodes
    BY <1>4 DEF ListNodes, Listed
  <1>5. CASE ListPipesToBuild
    BY <1>5 DEF ListPipesToBuild, Listed
  <1>6. CASE UNCHANGED vars
    BY <1>6 DEF vars
  <1>7. QED
    BY <1>1, <1>2, <1>3, <1>4, <1>5, <1>6 DEF Next

\* Every variable always holds a value of its type, whoever edits the network.
THEOREM TypeCorrectness == Spec => []TypeOK
  BY TypeInit, TypeStep, PTL DEF Spec

-----------------------------------------------------------------------------
(* As many upstream pipes as racing callers *)

\* The pipes that lead to n, and the callers that are about to add one.
Above(n)     == {i \in DOMAIN pipes : pipes[i].down = n}
Claimants(n) == {c \in Clients : req[c].phase = "insert" /\ req[c].pipe.down = n}

\* Every upstream pipe of a node stands for a caller who found the node without
\* one, and who may have been a claimant together with all those still there.
ClaimsBounded ==
    \A n \in Ids \union Foreign :
        /\ IsFiniteSet(Above(n))
        /\ Cardinality(Above(n)) + Cardinality(Claimants(n)) <= Cardinality(Clients)

ParentInv == TypeOK /\ ClaimsBounded

LEMMA ClaimantsFinite ==
    ASSUME IsFiniteSet(Clients)
    PROVE  /\ Cardinality(Clients) \in Nat
           /\ \A n : /\ IsFiniteSet(Claimants(n))
                     /\ Cardinality(Claimants(n)) \in Nat
                     /\ Cardinality(Claimants(n)) <= Cardinality(Clients)
  <1>1. \A n : Claimants(n) \subseteq Clients
    BY DEF Claimants
  <1>2. QED
    BY <1>1, FS_Subset, FS_CardinalityType

LEMMA ClaimantsFiniteAfter ==
    ASSUME IsFiniteSet(Clients)
    PROVE  \A n : /\ IsFiniteSet(Claimants(n)')
                  /\ Cardinality(Claimants(n)') \in Nat
                  /\ Cardinality(Claimants(n)') <= Cardinality(Clients)
  <1>1. \A n : Claimants(n)' \subseteq Clients
    BY DEF Claimants
  <1>2. QED
    BY <1>1, FS_Subset, FS_CardinalityType

LEMMA ParentInit ==
    ASSUME IsFiniteSet(Clients)
    PROVE  Init => ParentInv
  <1> SUFFICES ASSUME Init
               PROVE  ParentInv
    OBVIOUS
  <1>1. \A n : Above(n) = {} /\ Claimants(n) = {}
    BY DEF Init, Above, Claimants, Idle
  <1>2. ClaimsBounded
    BY <1>1, FS_EmptySet, ClaimantsFinite DEF ClaimsBounded
  <1>3. QED
    BY <1>2, TypeInit DEF ParentInv

\* A claim is made only where there is no pipe yet; inserting the pipe trades
\* the claim for it, or drops the claim.
LEMMA ParentStep ==
    ASSUME IsFiniteSet(Clients)
    PROVE  ParentInv /\ [Next]_vars => ParentInv'
  <1> SUFFICES ASSUME ParentInv, [Next]_vars,
                      NEW n \in Ids \union Foreign
               PROVE  /\ IsFiniteSet(Above(n)')
                      /\ Cardinality(Above(n)') + Cardinality(Claimants(n)')
                            <= Cardinality(Clients)
    BY TypeStep DEF ParentInv, ClaimsBounded
  <1>1. /\ TypeOK
        /\ IsFiniteSet(Above(n))
        /\ Cardinality(Above(n)) \in Nat
        /\ Cardinality(Above(n)) + Cardinality(Claimants(n)) <= Cardinality(Clients)
    BY FS_CardinalityType DEF ParentInv, ClaimsBounded
  <1>2. ASSUME pipes' = pipes, req' = req
        PROVE  Above(n)' = Above(n) /\ Claimants(n)' = Claimants(n)
    BY <1>2 DEF Above, Claimants
  <1>3. CASE \E m \in Ids : CreateNode(m)
    BY <1>1, <1>2, <1>3 DEF CreateNode
  <1>4. ASSUME NEW c \in Clients, NEW pipe \in Pipe, ListPipes(c, pipe)
        PROVE  /\ IsFiniteSet(Above(n)')
               /\ Cardinality(Above(n)') + Cardinality(Claimants(n)')
                     <= Cardinality(Clients)
    <2>1. Above(n)' = Above(n)
      BY <1>4 DEF ListPipes, Above
    <2>2. CASE pipe.down = n
      <3>1. Above(n) = {}
        BY <1>4, <2>2 DEF ListPipes, Above
      <3>2. QED
        BY <1>1, <2>1, <3>1, FS_EmptySet, ClaimantsFinite, ClaimantsFiniteAfter
    <2>3. CASE pipe.down # n
      <3>1. Claimants(n)' = Claimants(n)
        BY <1>1, <1>4, <2>3 DEF ListPipes, Claimants, TypeOK, Idle
      <3>2. QED
        BY <1>1, <2>1, <3>1
    <2>4. QED
      BY <2>2, <2>3
  <1>5. ASSUME NEW c \in Clients, InsertPipe(c)
        PROVE  /\ IsFiniteSet(Above(n)')
               /\ Cardinality(Above(n)') + Cardinality(Claimants(n)')
                     <= Cardinality(Clients)
    <2> DEFINE new == req[c].pipe
    <2>1. pipes \in Seq(Pipe) /\ new \in Pipe
      BY <1>1, <1>5 DEF InsertPipe, TypeOK, Call, Idle
    <2>2. Claimants(n)' = Claimants(n) \ {c}
      BY <1>1, <1>5 DEF InsertPipe, Claimants, TypeOK, Idle
    <2>3. Above(n)' \subseteq Above(n) \union {Len(pipes) + 1}
      <3>1. CASE pipes' = Append(pipes, new)
        BY <2>1, <3>1 DEF Above
      <3>2. CASE pipes' = pipes
        BY <3>2 DEF Above
      <3>3. QED
        BY <1>5, <3>1, <3>2 DEF InsertPipe
    <2>4. CASE new.down = n
      <3>1. c \in Claimants(n)
        BY <1>5, <2>4 DEF InsertPipe, Claimants
      <3>2. Cardinality(Claimants(n)') = Cardinality(Claimants(n)) - 1
        BY <2>2, <3>1, FS_RemoveElement, ClaimantsFinite
      <3>3. /\ IsFiniteSet(Above(n) \union {Len(pipes) + 1})
            /\ Cardinality(Above(n) \union {Len(pipes) + 1}) \in
                  {Cardinality(Above(n)), Cardinality(Above(n)) + 1}
        BY <1>1, FS_AddElement, Zenon
      <3>4. /\ IsFiniteSet(Above(n)')
            /\ Cardinality(Above(n)') <= Cardinality(Above(n) \union {Len(pipes) + 1})
        BY <2>3, <3>3, FS_Subset
      <3>5. /\ Cardinality(Above(n)') \in Nat
            /\ Cardinality(Above(n) \union {Len(pipes) + 1}) \in Nat
        BY <3>3, <3>4, FS_CardinalityType
      <3>6. QED
        BY <1>1, <3>2, <3>3, <3>4, <3>5, ClaimantsFinite
    <2>5. CASE new.down # n
      <3>1. Above(n)' = Above(n)
        <4>1. CASE pipes' = Append(pipes, new)
          BY <2>1, <2>5, <4>1 DEF Above
        <4>2. CASE pipes' = pipes
          BY <4>2 DEF Above
        <4>3. QED
          BY <1>5, <4>1, <4>2 DEF InsertPipe
      <3>2. Claimants(n)' = Claimants(n)
        BY <2>2, <2>5 DEF Claimants
      <3>3. QED
        BY <1>1, <3>1, <3>2
    <2>6. QED
      BY <2>4, <2>5
  <1>6. CASE ListNodes \/ ListPipesToBuild
    BY <1>1, <1>2, <1>6 DEF ListNodes, ListPipesToBuild
  <1>7. CASE UNCHANGED vars
    BY <1>1, <1>2, <1>7 DEF vars
  <1>8. QED
    BY <1>3, <1>4, <1>5, <1>6, <1>7 DEF Next

\* However many callers race, CreatePipe gives a node no more upstream pipes
\* than there are callers, in whatever order nodes and pipes are created.
THEOREM ParentsOnlyByRacingHolds ==
    ASSUME IsFiniteSet(Clients)
    PROVE  Spec => []ParentsOnlyByRacing
  <1>1. Init => ParentInv
    BY ParentInit
  <1>2. ParentInv /\ [Next]_vars => ParentInv'
    BY ParentStep
  <1>3. ParentInv => ParentsOnlyByRacing
    <2> SUFFICES ASSUME ParentInv, NEW n \in Ids \union Foreign
                 PROVE  InDegree(pipes, n) <= Cardinality(Clients)
      BY DEF ParentsOnlyByRacing
    <2>1. InDegree(pipes, n) = Cardinality(Above(n))
      BY DEF InDegree, Above
    <2>2. Cardinality(Above(n)) \in Nat
      BY FS_CardinalityType DEF ParentInv, ClaimsBounded
    <2>3. QED
      BY <2>1, <2>2, ClaimantsFinite DEF ParentInv, ClaimsBounded
  <1>4. QED
    BY <1>1, <1>2, <1>3, PTL DEF Spec

\* No two pipes lead to one node.
SingleParent ==
    \A i, j \in DOMAIN pipes : pipes[i].down = pipes[j].down => i = j

\* A lone caller is kept to what CreatePipe promises: one upstream pipe for
\* each node.
THEOREM SingleParentHolds ==
    ASSUME NEW c, Clients = {c}
    PROVE  Spec => []SingleParent
  <1>1. IsFiniteSet(Clients) /\ Cardinality(Clients) = 1
    BY FS_Singleton
  <1>2. Init => ParentInv
    BY <1>1, ParentInit
  <1>3. ParentInv /\ [Next]_vars => ParentInv'
    BY <1>1, ParentStep
  <1>4. ParentInv => SingleParent
    <2> SUFFICES ASSUME ParentInv,
                        NEW i \in DOMAIN pipes, NEW j \in DOMAIN pipes,
                        pipes[i].down = pipes[j].down
                 PROVE  i = j
      BY DEF SingleParent
    <2> DEFINE n == pipes[i].down
    <2>1. n \in Ids \union Foreign
      <3>1. pipes \in Seq(Pipe)
        BY DEF ParentInv, TypeOK
      <3>2. pipes[i] \in Pipe
        BY <3>1
      <3>3. QED
        BY <3>2 DEF Pipe
    <2>2. /\ IsFiniteSet(Above(n))
          /\ Cardinality(Above(n)) \in Nat
          /\ Cardinality(Above(n)) <= 1
      BY <1>1, <2>1, ClaimantsFinite, FS_CardinalityType DEF ParentInv, ClaimsBounded
    <2>3. i \in Above(n) /\ j \in Above(n)
      BY DEF Above
    <2>4. Cardinality(Above(n)) = 0 \/ Cardinality(Above(n)) = 1
      BY <2>2
    <2>5. QED
      BY <2>2, <2>3, <2>4, FS_EmptySet, FS_Singleton
  <1>5. QED
    BY <1>2, <1>3, <1>4, PTL DEF Spec

-----------------------------------------------------------------------------
(* What dfs reaches *)

\* The levels by which Visited is defined, and one step from level to level.
Within(ps, r) ==
    CHOOSE g : g = [k \in Nat |-> IF k = 0 THEN {r}
                                  ELSE g[k - 1] \union UNION {Below(ps, n) : n \in g[k - 1]}]

Grow(ps, X) == X \union UNION {Below(ps, n) : n \in X}

\* The ends of pipes.
Ends == Ids \union Foreign

\* A step from level to level stays among the ends of pipes.
LEMMA GrowIsNodes ==
    ASSUME NEW ps \in Seq(Pipe), NEW X \in SUBSET Ends
    PROVE  Grow(ps, X) \in SUBSET Ends
  <1>1. \A i \in DOMAIN ps : ps[i] \in Pipe
    OBVIOUS
  <1>2. \A i \in DOMAIN ps : ps[i].down \in Ends
    BY <1>1 DEF Pipe, Ends
  <1>3. QED
    BY <1>2 DEF Grow, Below

\* The levels of Visited are what the recursion says: its definition has a solution.
LEMMA WithinSteps ==
    ASSUME NEW ps \in Seq(Pipe), NEW r \in Ends
    PROVE  /\ Within(ps, r) \in [Nat -> SUBSET Ends]
           /\ Within(ps, r)[0] = {r}
           /\ \A k \in Nat : Within(ps, r)[k + 1] = Grow(ps, Within(ps, r)[k])
  <1> DEFINE T == SUBSET Ends
             step == [k \in Nat |-> [X \in T |-> Grow(ps, X)]]
             Equation(g) ==
                g = [k \in Nat |-> IF k = 0 THEN {r}
                                   ELSE g[k - 1] \union UNION {Below(ps, n) : n \in g[k - 1]}]
  <1>1. PICK h : Follows(h, T, {r}, step)
    <2>1. {r} \in T
      OBVIOUS
    <2>2. step \in Steps(T)
      <3> HIDE DEF T
      <3>1. \A X \in T : Grow(ps, X) \in T
        BY GrowIsNodes DEF T
      <3>2. QED
        BY <3>1 DEF Steps
    <2> HIDE DEF T, step
    <2>3. QED
      BY <2>1, <2>2, Recursion
  <1>2. /\ h \in [Nat -> T] /\ h[0] = {r}
        /\ \A k \in Nat : h[k + 1] = Grow(ps, h[k])
    BY <1>1 DEF Follows
  <1>3. Equation(h)
    <2> SUFFICES ASSUME NEW k \in Nat, k # 0
                 PROVE  h[k] = Grow(ps, h[k - 1])
      BY <1>2 DEF Grow
    <2>1. k - 1 \in Nat /\ (k - 1) + 1 = k
      OBVIOUS
    <2>2. QED
      BY <1>2, <2>1
  <1> DEFINE w == Within(ps, r)
  <1>4. Equation(w)
    <2>1. w = CHOOSE g : Equation(g)
      BY DEF Within
    <2> HIDE DEF Equation, w
    <2>2. QED
      BY <1>3, <2>1
  <1>5. w[0] = {r} /\ \A k \in Nat : w[k + 1] = Grow(ps, w[k])
    <2> HIDE DEF w
    <2>1. w[0] = {r}
      BY <1>4
    <2>2. \A k \in Nat : w[k + 1] = Grow(ps, w[k])
      <3> SUFFICES ASSUME NEW k \in Nat
                   PROVE  w[k + 1] = Grow(ps, w[k])
        OBVIOUS
      <3>1. k + 1 \in Nat /\ k + 1 # 0 /\ (k + 1) - 1 = k
        OBVIOUS
      <3>2. QED
        BY <1>4, <3>1 DEF Grow
    <2>3. QED
      BY <2>1, <2>2
  <1>6. \A k \in Nat : w[k] \in T
    <2> DEFINE U == {k \in Nat : w[k] \in T}
    <2> HIDE DEF w
    <2>1. 0 \in U
      BY <1>5
    <2>2. \A k \in Nat : k \in U => k + 1 \in U
      <3> SUFFICES ASSUME NEW k \in Nat, w[k] \in T
                   PROVE  w[k + 1] \in T
        OBVIOUS
      <3>1. Grow(ps, w[k]) \in T
        BY GrowIsNodes
      <3>2. QED
        BY <1>5, <3>1
    <2>3. Nat \subseteq U
      <3> HIDE DEF U
      <3>1. QED
        BY <2>1, <2>2, Induct
    <2>4. QED
      BY <2>3
  <1>7. w \in [Nat -> T]
    <2> HIDE DEF w
    <2>1. w = [k \in Nat |-> w[k]]
      BY <1>4
    <2>2. QED
      BY <1>6, <2>1
  <1>8. QED
    BY <1>5, <1>7

\* The levels grow to the end within as many steps as there are nodes; the last of
\* these steps adds nothing any more.
LEMMA WithinSaturates ==
    ASSUME NEW ps \in Seq(Pipe), NEW r \in Ends, NEW X, IsFiniteSet(X),
           \A k \in Nat : Within(ps, r)[k] \subseteq X
    PROVE  /\ \A k \in Nat : Within(ps, r)[k] \subseteq Within(ps, r)[Cardinality(X)]
           /\ Cardinality(X) - 1 \in Nat
           /\ \A k \in Nat : Within(ps, r)[k] \subseteq Within(ps, r)[Cardinality(X) - 1]
  <1> DEFINE w == Within(ps, r)
             N == Cardinality(X)
             size(k) == Cardinality(w[k])
             Fixed(k) == Grow(ps, w[k]) = w[k]
  <1>1. /\ w[0] = {r}
        /\ \A k \in Nat : w[k + 1] = Grow(ps, w[k]) /\ w[k] \subseteq w[k + 1]
    <2>1. w[0] = {r} /\ \A k \in Nat : w[k + 1] = Grow(ps, w[k])
      BY WithinSteps
    <2>2. \A k \in Nat : w[k] \subseteq Grow(ps, w[k])
      BY DEF Grow
    <2> HIDE DEF w
    <2>3. QED
      BY <2>1, <2>2
  <1>2. /\ N \in Nat
        /\ \A k \in Nat : w[k] \subseteq X /\ IsFiniteSet(w[k]) /\ size(k) \in Nat /\ size(k) <= N
    BY FS_CardinalityType, FS_Subset
  <1> HIDE DEF w, N
  <1>3. \A k \in Nat : Fixed(k) \/ size(k) >= k + 1
    <2> DEFINE U == {k \in Nat : Fixed(k) \/ size(k) >= k + 1}
    <2>1. 0 \in U
      <3>1. size(0) = 1
        BY <1>1, FS_Singleton
      <3>2. QED
        BY <3>1
    <2>2. ASSUME NEW k \in Nat, k \in U
          PROVE  k + 1 \in U
      <3>1. k + 1 \in Nat
        OBVIOUS
      <3>2. CASE Fixed(k)
        <4>1. w[k + 1] = w[k]
          BY <1>1, <3>2
        <4>2. Fixed(k + 1)
          BY <3>2, <4>1
        <4>3. QED
          BY <3>1, <4>2
      <3>3. CASE ~Fixed(k)
        <4>1. size(k) >= k + 1
          BY <2>2, <3>3
        <4>2. w[k] \subseteq w[k + 1] /\ w[k] # w[k + 1]
          BY <1>1, <3>3
        <4>3. IsFiniteSet(w[k + 1]) /\ size(k) \in Nat /\ size(k + 1) \in Nat
          BY <1>2, <3>1
        <4>4. size(k) <= size(k + 1) /\ size(k) # size(k + 1)
          BY <4>2, <4>3, FS_Subset
        <4>5. size(k + 1) >= (k + 1) + 1
          BY <4>1, <4>3, <4>4
        <4>6. QED
          BY <3>1, <4>5
      <3>4. QED
        BY <3>2, <3>3
    <2>3. Nat \subseteq U
      <3> HIDE DEF U
      <3>1. QED
        BY <2>1, <2>2, Induct
    <2>4. QED
      BY <2>3
  <1>4. N - 1 \in Nat /\ Fixed(N - 1)
    <2>1. N - 1 \in Nat
      <3>1. w[0] \subseteq X
        BY <1>2
      <3>2. r \in X
        BY <1>1, <3>1
      <3>3. N # 0
        BY <3>2, FS_EmptySet DEF N
      <3>4. QED
        BY <1>2, <3>3
    <2>2. CASE size(N - 1) >= (N - 1) + 1
      <3>1. size(N - 1) = N
        BY <1>2, <2>1, <2>2
      <3>2. w[N - 1] = X
        BY <1>2, <2>1, <3>1, FS_Subset DEF N
      <3>3. (N - 1) + 1 \in Nat
        BY <2>1
      <3>4. w[(N - 1) + 1] \subseteq X /\ w[N - 1] \subseteq w[(N - 1) + 1]
        BY <1>1, <1>2, <2>1, <3>3
      <3>5. w[(N - 1) + 1] = Grow(ps, w[N - 1])
        BY <1>1, <2>1
      <3>6. QED
        BY <2>1, <3>2, <3>4, <3>5
    <2>3. CASE Fixed(N - 1)
      BY <2>1, <2>3
    <2>4. QED
      BY <1>3, <2>1, <2>2, <2>3
  <1>5. r \in w[N - 1]
    <2> DEFINE U == {k \in Nat : r \in w[k]}
    <2>1. 0 \in U
      BY <1>1
    <2>2. ASSUME NEW k \in Nat, k \in U
          PROVE  k + 1 \in U
      <3>1. w[k] \subseteq w[k + 1]
        BY <1>1, Zenon
      <3>2. QED
        BY <2>2, <3>1
    <2>3. Nat \subseteq U
      <3> HIDE DEF U
      <3>1. QED
        BY <2>1, <2>2, Induct
    <2>4. QED
      BY <1>4, <2>3
  <1>6. \A k \in Nat : w[k] \subseteq w[N - 1]
    <2> DEFINE U == {k \in Nat : w[k] \subseteq w[N - 1]}
    <2>1. 0 \in U
      BY <1>1, <1>5
    <2>2. ASSUME NEW k \in Nat, k \in U
          PROVE  k + 1 \in U
      <3>1. Grow(ps, w[k]) \subseteq Grow(ps, w[N - 1])
        BY <2>2 DEF Grow
      <3>2. w[k + 1] = Grow(ps, w[k])
        BY <1>1
      <3>3. w[k + 1] \subseteq w[N - 1]
        BY <1>4, <3>1, <3>2
      <3>4. QED
        BY <3>3
    <2>3. Nat \subseteq U
      <3> HIDE DEF U
      <3>1. QED
        BY <2>1, <2>2, Induct
    <2>4. QED
      BY <2>3
  <1>7. w[N - 1] \subseteq w[N]
    <2>1. w[(N - 1) + 1] = w[N - 1]
      BY <1>1, <1>4
    <2>2. (N - 1) + 1 = N
      BY <1>2
    <2>3. QED
      BY <2>1, <2>2
  <1>8. \A k \in Nat : w[k] \subseteq w[N]
    BY <1>6, <1>7
  <1>9. QED
    BY <1>4, <1>6, <1>8 DEF w, N

-----------------------------------------------------------------------------
(* The walk from a node up to the source *)

\* The node above x, where the walk does not stop at x.
StepUp(ps, r, x) == IF x = r \/ InDegree(ps, x) = 0 THEN x ELSE Upstream(ps, x)

\* The nodes the walk of WalkEnd passes.
Walk(ps, r, n) ==
    CHOOSE at : at = [k \in Nat |-> IF k = 0 THEN n
                                    ELSE IF at[k - 1] = r \/ InDegree(ps, at[k - 1]) = 0 THEN at[k - 1]
                                    ELSE Upstream(ps, at[k - 1])]

\* A node has an upstream pipe exactly if its degree is not 0, and only one if
\* the degree is 1.
LEMMA DegreeOfNode ==
    ASSUME NEW ps \in Seq(Pipe), NEW n
    PROVE  /\ InDegree(ps, n) \in Nat
           /\ InDegree(ps, n) = 0 <=> \A i \in DOMAIN ps : ps[i].down # n
           /\ InDegree(ps, n) <= 1 <=>
                 \A i, j \in DOMAIN ps : ps[i].down = n /\ ps[j].down = n => i = j
  <1> DEFINE A == {i \in DOMAIN ps : ps[i].down = n}
  <1>1. IsFiniteSet(A)
    <2>1. DOMAIN ps = 1 .. Len(ps) /\ Len(ps) \in Nat
      OBVIOUS
    <2>2. IsFiniteSet(1 .. Len(ps))
      BY <2>1, FS_Interval
    <2>3. QED
      BY <2>1, <2>2, FS_Subset
  <1>2. InDegree(ps, n) = Cardinality(A)
    BY DEF InDegree
  <1>3. Cardinality(A) \in Nat /\ (Cardinality(A) = 0 <=> A = {})
    BY <1>1, FS_CardinalityType, FS_EmptySet
  <1>4. Cardinality(A) <= 1 => \A i, j \in A : i = j
    <2>1. Cardinality(A) = 1 => \E x : A = {x}
      BY <1>1, FS_Singleton
    <2>2. Cardinality(A) <= 1 => Cardinality(A) = 0 \/ Cardinality(A) = 1
      BY <1>3
    <2> HIDE DEF A
    <2>3. QED
      BY <1>3, <2>1, <2>2
  <1>5. (\A i, j \in A : i = j) => Cardinality(A) <= 1
    <2>1. CASE A = {}
      BY <1>3, <2>1
    <2>2. CASE A # {}
      <3> SUFFICES ASSUME \A i, j \in A : i = j
                   PROVE  Cardinality(A) <= 1
        OBVIOUS
      <3>1. PICK x \in A : TRUE
        BY <2>2
      <3> HIDE DEF A
      <3>2. A = {x}
        BY <3>1
      <3>3. Cardinality(A) = 1
        BY <3>2, FS_Singleton
      <3>4. QED
        BY <3>3
    <2>3. QED
      BY <2>1, <2>2
  <1>6. QED
    BY <1>2, <1>3, <1>4, <1>5

\* The node above is one that some pipe leads from.
LEMMA UpIsNode ==
    ASSUME NEW ps \in Seq(Pipe), NEW r, NEW x \in Ends
    PROVE  StepUp(ps, r, x) \in Ends
  <1>1. CASE InDegree(ps, x) = 0
    BY <1>1 DEF StepUp
  <1>2. CASE InDegree(ps, x) # 0
    <2>1. \E i \in DOMAIN ps : ps[i].down = x
      BY <1>2, DegreeOfNode
    <2>2. PICK i \in DOMAIN ps : Upstream(ps, x) = ps[i].up
      BY <2>1 DEF Upstream
    <2>3. ps[i] \in Pipe
      OBVIOUS
    <2>4. QED
      BY <1>2, <2>2, <2>3 DEF StepUp, Pipe, Ends
  <1>3. QED
    BY <1>1, <1>2

\* The walk of WalkEnd goes up one pipe at a time: its recursion has a solution.
LEMMA WalkSteps ==
    ASSUME NEW ps \in Seq(Pipe), NEW r, NEW n \in Ends
    PROVE  /\ Walk(ps, r, n) \in [Nat -> Ends]
           /\ Walk(ps, r, n)[0] = n
           /\ \A k \in Nat : Walk(ps, r, n)[k + 1] = StepUp(ps, r, Walk(ps, r, n)[k])
  <1> DEFINE step == [k \in Nat |-> [x \in Ends |-> StepUp(ps, r, x)]]
             Equation(at) ==
                at = [k \in Nat |-> IF k = 0 THEN n
                                    ELSE IF at[k - 1] = r \/ InDegree(ps, at[k - 1]) = 0 THEN at[k - 1]
                                    ELSE Upstream(ps, at[k - 1])]
  <1>1. PICK h : Follows(h, Ends, n, step)
    <2>1. step \in Steps(Ends)
      BY UpIsNode DEF Steps
    <2> HIDE DEF step
    <2>2. QED
      BY <2>1, Recursion
  <1>2. /\ h \in [Nat -> Ends] /\ h[0] = n
        /\ \A k \in Nat : h[k + 1] = StepUp(ps, r, h[k])
    BY <1>1 DEF Follows
  <1>3. Equation(h)
    <2> SUFFICES ASSUME NEW k \in Nat, k # 0
                 PROVE  h[k] = StepUp(ps, r, h[k - 1])
      BY <1>2 DEF StepUp
    <2>1. k - 1 \in Nat /\ (k - 1) + 1 = k
      OBVIOUS
    <2>2. QED
      BY <1>2, <2>1
  <1> DEFINE w == Walk(ps, r, n)
  <1>4. Equation(w)
    <2>1. w = CHOOSE at : Equation(at)
      BY DEF Walk
    <2> HIDE DEF Equation, w
    <2>2. QED
      BY <1>3, <2>1
  <1> HIDE DEF w
  <1>5. w[0] = n
    BY <1>4
  <1>6. \A k \in Nat : w[k + 1] = StepUp(ps, r, w[k])
    <2> SUFFICES ASSUME NEW k \in Nat
                 PROVE  w[k + 1] = StepUp(ps, r, w[k])
      OBVIOUS
    <2>1. k + 1 \in Nat /\ k + 1 # 0 /\ (k + 1) - 1 = k
      OBVIOUS
    <2>2. QED
      BY <1>4, <2>1 DEF StepUp
  <1>7. \A k \in Nat : w[k] \in Ends
    <2> DEFINE U == {k \in Nat : w[k] \in Ends}
    <2>1. 0 \in U
      BY <1>5
    <2>2. \A k \in Nat : k \in U => k + 1 \in U
      <3> SUFFICES ASSUME NEW k \in Nat, w[k] \in Ends
                   PROVE  w[k + 1] \in Ends
        OBVIOUS
      <3>1. StepUp(ps, r, w[k]) \in Ends
        BY UpIsNode
      <3>2. QED
        BY <1>6, <3>1
    <2>3. Nat \subseteq U
      <3> HIDE DEF U
      <3>1. QED
        BY <2>1, <2>2, Induct
    <2>4. QED
      BY <2>3
  <1>8. w = [k \in Nat |-> w[k]]
    BY <1>4
  <1>9. QED
    BY <1>5, <1>6, <1>7, <1>8 DEF w

\* A walk that starts one node higher is the same walk, one step ahead.
LEMMA WalkShifts ==
    ASSUME NEW ps \in Seq(Pipe), NEW r, NEW n \in Ends, NEW k \in Nat
    PROVE  Walk(ps, r, n)[k + 1] = Walk(ps, r, StepUp(ps, r, n))[k]
  <1> DEFINE m == StepUp(ps, r, n)
             w == Walk(ps, r, n)
             v == Walk(ps, r, m)
             U == {j \in Nat : w[j + 1] = v[j]}
  <1>1. m \in Ends
    BY UpIsNode
  <1>2. w[0] = n /\ \A j \in Nat : w[j + 1] = StepUp(ps, r, w[j])
    BY WalkSteps
  <1>3. v[0] = m /\ \A j \in Nat : v[j + 1] = StepUp(ps, r, v[j])
    <2> HIDE DEF m
    <2>1. QED
      BY <1>1, WalkSteps
  <1>4. w[0 + 1] = StepUp(ps, r, w[0])
    BY <1>2, Zenon
  <1> HIDE DEF w, v
  <1>5. 0 \in U
    BY <1>2, <1>3, <1>4
  <1>6. ASSUME NEW j \in Nat, j \in U
        PROVE  j + 1 \in U
    <2>1. j + 1 \in Nat
      OBVIOUS
    <2>2. w[(j + 1) + 1] = StepUp(ps, r, w[j + 1]) /\ v[j + 1] = StepUp(ps, r, v[j])
      BY <1>2, <1>3, <2>1, Zenon
    <2>3. w[j + 1] = v[j]
      BY <1>6
    <2>4. QED
      BY <2>1, <2>2, <2>3
  <1>7. Nat \subseteq U
    <2> HIDE DEF U
    <2>1. QED
      BY <1>5, <1>6, Induct
  <1>8. QED
    BY <1>7 DEF w, v

\* What assertTree asks of the degrees: no pipe leads to the source, and no two
\* to one node.
Branching(ps, r) ==
    /\ \A i \in DOMAIN ps : ps[i].down # r
    /\ \A i, j \in DOMAIN ps : ps[i].down = ps[j].down => i = j

\* From a node that is reached in k steps the walk is at the source after k.
LEMMA WalkFromLevel ==
    ASSUME NEW ps \in Seq(Pipe), NEW r \in Ends, Branching(ps, r)
    PROVE  \A k \in Nat : \A n \in Within(ps, r)[k] :
              n \in Ends /\ \A j \in Nat : j >= k => Walk(ps, r, n)[j] = r
  <1> DEFINE level(k) == Within(ps, r)[k]
             walk(n, j) == Walk(ps, r, n)[j]
             U == {k \in Nat : \A n \in level(k) : \A j \in Nat : j >= k => walk(n, j) = r}
  <1>1. /\ level(0) = {r}
        /\ \A k \in Nat : level(k + 1) = Grow(ps, level(k)) /\ level(k) \in SUBSET Ends
    BY WithinSteps, Zenon
  <1>2. \A n \in Ends : /\ walk(n, 0) = n
                        /\ \A j \in Nat : /\ walk(n, j + 1) = StepUp(ps, r, walk(n, j))
                                          /\ walk(n, j + 1) = walk(StepUp(ps, r, n), j)
    <2> SUFFICES ASSUME NEW n \in Ends
                 PROVE  /\ walk(n, 0) = n
                        /\ \A j \in Nat : /\ walk(n, j + 1) = StepUp(ps, r, walk(n, j))
                                          /\ walk(n, j + 1) = walk(StepUp(ps, r, n), j)
      OBVIOUS
    <2>1. walk(n, 0) = n
      BY WalkSteps
    <2>2. ASSUME NEW j \in Nat
          PROVE  walk(n, j + 1) = StepUp(ps, r, walk(n, j))
      BY WalkSteps
    <2>3. ASSUME NEW j \in Nat
          PROVE  walk(n, j + 1) = walk(StepUp(ps, r, n), j)
      BY WalkShifts
    <2>4. QED
      BY <2>1, <2>2, <2>3
  <1> HIDE DEF level, walk
  <1>3. StepUp(ps, r, r) = r
    BY DEF StepUp
  <1>4. 0 \in U
    <2> DEFINE T == {j \in Nat : walk(r, j) = r}
    <2>1. 0 \in T
      BY <1>2
    <2>2. \A j \in Nat : j \in T => j + 1 \in T
      <3> SUFFICES ASSUME NEW j \in Nat, walk(r, j) = r
                   PROVE  walk(r, j + 1) = r
        OBVIOUS
      <3>1. walk(r, j + 1) = StepUp(ps, r, walk(r, j))
        BY <1>2
      <3>2. QED
        BY <1>3, <3>1
    <2>3. Nat \subseteq T
      <3> HIDE DEF T
      <3>1. QED
        BY <2>1, <2>2, Induct
    <2>4. \A j \in Nat : walk(r, j) = r
      BY <2>3
    <2>5. QED
      BY <1>1, <2>4
  <1>5. ASSUME NEW k \in Nat, k \in U
        PROVE  k + 1 \in U
    <2> SUFFICES ASSUME NEW n \in level(k + 1), NEW j \in Nat, j >= k + 1
                 PROVE  walk(n, j) = r
      OBVIOUS
    <2>1. n \in Grow(ps, level(k)) /\ level(k) \in SUBSET Ends
      BY <1>1
    <2>2. CASE n \in level(k)
      <3>1. j >= k
        OBVIOUS
      <3>2. QED
        BY <1>5, <2>2, <3>1
    <2>3. CASE n \notin level(k)
      <3>1. PICK m \in level(k) : n \in Below(ps, m)
        BY <2>1, <2>3 DEF Grow
      <3>2. PICK i \in DOMAIN ps : ps[i].up = m /\ ps[i].down = n
        BY <3>1 DEF Below
      <3>3. StepUp(ps, r, n) = m
        <4>1. n # r /\ InDegree(ps, n) # 0
          BY <3>2, DegreeOfNode DEF Branching
        <4>2. \A a \in DOMAIN ps : ps[a].down = n => a = i
          BY <3>2 DEF Branching
        <4>3. Upstream(ps, n) = m
          BY <3>2, <4>2 DEF Upstream
        <4>4. QED
          BY <4>1, <4>3 DEF StepUp
      <3>4. n \in Ends
        <4>1. ps[i] \in Pipe
          OBVIOUS
        <4>2. QED
          BY <3>2, <4>1 DEF Pipe, Ends
      <3>5. j - 1 \in Nat /\ j - 1 >= k /\ (j - 1) + 1 = j
        OBVIOUS
      <3>6. walk(n, (j - 1) + 1) = walk(StepUp(ps, r, n), j - 1)
        BY <1>2, <3>4, <3>5
      <3>7. walk(m, j - 1) = r
        BY <1>5, <3>5
      <3>8. QED
        BY <3>3, <3>5, <3>6, <3>7
    <2>4. QED
      BY <2>2, <2>3
  <1>6. Nat \subseteq U
    <2> HIDE DEF U
    <2>1. QED
      BY <1>4, <1>5, Induct
  <1>7. \A k \in Nat : \A n \in level(k) :
            n \in Ends /\ \A j \in Nat : j >= k => walk(n, j) = r
    BY <1>1, <1>6
  <1>8. QED
    BY <1>7 DEF level, walk

\* What BuildNetwork has made sure of when it returns a network.
LEMMA BuiltIsBranching ==
    ASSUME NEW net, net.pipes \in Seq(Pipe), Built(net)
    PROVE  Branching(net.pipes, net.first)
  <1>1. /\ \A i \in DOMAIN net.pipes : net.pipes[i].down \in net.nodes
        /\ \A n \in net.nodes \ {net.first} : InDegree(net.pipes, n) <= 1
        /\ InDegree(net.pipes, net.first) = 0
    BY DEF Built, AssertTree
  <1>2. \A i \in DOMAIN net.pipes : net.pipes[i].down # net.first
    BY <1>1, DegreeOfNode
  <1>3. ASSUME NEW i \in DOMAIN net.pipes, NEW j \in DOMAIN net.pipes,
               net.pipes[i].down = net.pipes[j].down
        PROVE  i = j
    <2>1. net.pipes[i].down \in net.nodes \ {net.first}
      BY <1>1, <1>2
    <2>2. InDegree(net.pipes, net.pipes[i].down) <= 1
      BY <1>1, <2>1
    <2>3. QED
      BY <1>3, <2>2, DegreeOfNode
  <1>4. QED
    BY <1>2, <1>3 DEF Branching

\* What a calculation has read are nodes and pipes of the system.
LEMMA ReadingIsTyped ==
    ASSUME TypeOK
    PROVE  /\ Reading.nodes \in SUBSET Ids /\ IsFiniteSet(Reading.nodes)
           /\ Reading.first \in Sources \union {None}
           /\ Reading.pipes = pipes /\ pipes \in Seq(Pipe)
           /\ Reading.first # None => Reading.first \in Ends
  <1>1. /\ Reading.nodes \in SUBSET Ids
        /\ Reading.first \in Sources \union {None}
        /\ Reading.pipes = pipes /\ pipes \in Seq(Pipe)
    BY DEF Reading, TypeOK, Listed, Idle
  <1>2. IsFiniteSet(Reading.nodes)
    BY <1>1, IdsAssumption, FS_Subset
  <1>3. Sources \subseteq Ends
    BY DEF Ends, Ids
  <1>4. QED
    BY <1>1, <1>2, <1>3

\* From every emitter of a network that was built, however callers raced to
\* build it and whatever was added while it was read, the walk up ends at the
\* source: the loop of computeSourceRequiredPressure ends, without its break.
THEOREM WalkEndsAtSourceHolds == Spec => []WalkEndsAtSource
  <1>1. TypeOK => WalkEndsAtSource
    <2> SUFFICES ASSUME TypeOK, Built(Reading), NEW n \in Emitters \intersect Reading.nodes
                 PROVE  WalkEnd(Reading, n) = Reading.first
      BY DEF WalkEndsAtSource
    <2> DEFINE net == Reading
               N == Cardinality(net.nodes)
    <2>1. /\ net.pipes \in Seq(Pipe) /\ IsFiniteSet(net.nodes) /\ net.first \in Ends
          /\ N \in Nat
      BY ReadingIsTyped, FS_CardinalityType DEF Built
    <2>2. n \in Visited(net)
      BY DEF Built, AssertTree, Reached
    <2>3. Visited(net) = Within(net.pipes, net.first)[N]
      BY DEF Visited, Within
    <2>4. WalkEnd(net, n) = Walk(net.pipes, net.first, n)[N]
      BY DEF WalkEnd, Walk
    <2> HIDE DEF net, N
    <2>5. Branching(net.pipes, net.first)
      BY <2>1, BuiltIsBranching DEF net
    <2>6. Walk(net.pipes, net.first, n)[N] = net.first
      <3>1. N >= N
        BY <2>1
      <3>2. n \in Within(net.pipes, net.first)[N]
        BY <2>2, <2>3
      <3>3. QED
        BY <2>1, <2>5, <3>1, <3>2, WalkFromLevel
    <2>7. QED
      BY <2>4, <2>6 DEF net
  <1>2. QED
    BY <1>1, TypeCorrectness, PTL

-----------------------------------------------------------------------------
(* What BuildNetwork accepts is a tree, and every tree is accepted *)

\* The paths of TreeUnder, and one step from length to length.
PathsIn(S) ==
    CHOOSE P : P = [k \in Nat |-> IF k = 0 THEN {<< n, n >> : n \in S}
                                  ELSE P[k - 1] \union
                                       {path \in S \X S : \E e \in EdgesAmong(S) :
                                           e[1] = path[1] /\ << e[2], path[2] >> \in P[k - 1]}]

Longer(S, X) ==
    X \union {path \in S \X S : \E e \in EdgesAmong(S) :
                 e[1] = path[1] /\ << e[2], path[2] >> \in X}

\* The paths of TreeUnder are what the recursion says.
LEMMA PathsSteps ==
    ASSUME NEW S
    PROVE  /\ \A k \in Nat : PathsIn(S)[k] \in SUBSET (S \X S)
           /\ PathsIn(S)[0] = {<< n, n >> : n \in S}
           /\ \A k \in Nat : PathsIn(S)[k + 1] = Longer(S, PathsIn(S)[k])
  <1> DEFINE T == SUBSET (S \X S)
             base == {<< n, n >> : n \in S}
             step == [k \in Nat |-> [X \in T |-> Longer(S, X)]]
             Equation(P) ==
                P = [k \in Nat |-> IF k = 0 THEN {<< n, n >> : n \in S}
                                   ELSE P[k - 1] \union
                                        {path \in S \X S : \E e \in EdgesAmong(S) :
                                            e[1] = path[1] /\ << e[2], path[2] >> \in P[k - 1]}]
  <1>1. base \in T /\ \A X \in T : Longer(S, X) \in T
    BY DEF Longer
  <1>2. PICK h : Follows(h, T, base, step)
    <2>1. step \in Steps(T)
      <3> HIDE DEF T
      <3>1. QED
        BY <1>1 DEF Steps
    <2> HIDE DEF T, step, base
    <2>2. QED
      BY <1>1, <2>1, Recursion
  <1>3. /\ h \in [Nat -> T] /\ h[0] = base
        /\ \A k \in Nat : h[k + 1] = Longer(S, h[k])
    <2> HIDE DEF T, base
    <2>1. QED
      BY <1>2 DEF Follows
  <1>4. Equation(h)
    <2>1. \A k \in Nat : k # 0 => h[k] = Longer(S, h[k - 1])
      <3> SUFFICES ASSUME NEW k \in Nat, k # 0
                   PROVE  h[k] = Longer(S, h[k - 1])
        OBVIOUS
      <3>1. k - 1 \in Nat /\ (k - 1) + 1 = k
        OBVIOUS
      <3>2. QED
        BY <1>3, <3>1
    <2>2. h = [k \in Nat |-> h[k]]
      BY <1>3
    <2>3. h[0] = {<< n, n >> : n \in S}
      BY <1>3
    <2> HIDE DEF T, base
    <2>4. h = [k \in Nat |-> IF k = 0 THEN {<< n, n >> : n \in S} ELSE Longer(S, h[k - 1])]
      BY <2>1, <2>2, <2>3
    <2>5. QED
      BY <2>4 DEF Longer
  <1> DEFINE w == PathsIn(S)
  <1>5. Equation(w)
    <2>1. w = CHOOSE P : Equation(P)
      BY DEF PathsIn
    <2> HIDE DEF Equation, w
    <2>2. QED
      BY <1>4, <2>1
  <1> HIDE DEF w
  <1>6. w = [k \in Nat |-> IF k = 0 THEN base ELSE Longer(S, w[k - 1])]
    BY <1>5 DEF Longer
  <1> HIDE DEF T, base, Equation, step
  <1>7. w[0] = base
    BY <1>6
  <1>8. \A k \in Nat : w[k + 1] = Longer(S, w[k])
    <2> SUFFICES ASSUME NEW k \in Nat
                 PROVE  w[k + 1] = Longer(S, w[k])
      OBVIOUS
    <2>1. k + 1 \in Nat /\ k + 1 # 0 /\ (k + 1) - 1 = k
      OBVIOUS
    <2>2. QED
      BY <1>6, <2>1
  <1>9. \A k \in Nat : w[k] \in T
    <2> DEFINE U == {k \in Nat : w[k] \in T}
    <2>1. 0 \in U
      BY <1>1, <1>7
    <2>2. \A k \in Nat : k \in U => k + 1 \in U
      BY <1>1, <1>8
    <2>3. Nat \subseteq U
      <3> HIDE DEF U
      <3>1. QED
        BY <2>1, <2>2, Induct
    <2>4. QED
      BY <2>3
  <1>10. QED
    BY <1>7, <1>8, <1>9 DEF w, T, base

\* The edges of S are what the pipes between its nodes are.
LEMMA EdgesArePipes ==
    ASSUME TypeOK, NEW S
    PROVE  \A a, b : << a, b >> \in EdgesAmong(S) <=>
              a \in S /\ b \in S /\ \E i \in DOMAIN pipes : pipes[i].up = a /\ pipes[i].down = b
  BY DEF EdgesAmong, ToSet

\* A path of some length is one of any greater length.
LEMMA PathsGrow ==
    ASSUME NEW S
    PROVE  /\ \A n \in S : << n, n >> \in PathsIn(S)[0]
           /\ \A k \in Nat : PathsIn(S)[k] \subseteq PathsIn(S)[k + 1]
           /\ \A k \in Nat : \A a, b, c \in S :
                 << a, b >> \in EdgesAmong(S) /\ << b, c >> \in PathsIn(S)[k] =>
                     << a, c >> \in PathsIn(S)[k + 1]
           /\ \A k \in Nat : \A a, b : << a, b >> \in PathsIn(S)[k + 1] =>
                 \/ << a, b >> \in PathsIn(S)[k]
                 \/ \E c \in S : << a, c >> \in EdgesAmong(S) /\ << c, b >> \in PathsIn(S)[k]
  <1> DEFINE w == PathsIn(S)
  <1>1. /\ \A k \in Nat : w[k] \in SUBSET (S \X S)
        /\ w[0] = {<< n, n >> : n \in S}
        /\ \A k \in Nat : w[k + 1] = Longer(S, w[k])
    BY PathsSteps
  <1> HIDE DEF w
  <1>2. \A n \in S : << n, n >> \in w[0]
    BY <1>1
  <1>3. ASSUME NEW k \in Nat
        PROVE  /\ w[k] \subseteq w[k + 1]
               /\ \A a, b, c \in S :
                     << a, b >> \in EdgesAmong(S) /\ << b, c >> \in w[k] => << a, c >> \in w[k + 1]
               /\ \A a, b : << a, b >> \in w[k + 1] =>
                     \/ << a, b >> \in w[k]
                     \/ \E c \in S : << a, c >> \in EdgesAmong(S) /\ << c, b >> \in w[k]
    <2>1. w[k + 1] = Longer(S, w[k]) /\ w[k] \in SUBSET (S \X S)
      BY <1>1
    <2>2. w[k] \subseteq w[k + 1]
      BY <2>1 DEF Longer
    <2>3. ASSUME NEW a \in S, NEW b \in S, NEW c \in S,
                 << a, b >> \in EdgesAmong(S), << b, c >> \in w[k]
          PROVE  << a, c >> \in w[k + 1]
      <3>1. << a, c >> \in S \X S /\ << a, c >>[1] = a /\ << a, c >>[2] = c
        OBVIOUS
      <3>2. << a, b >>[1] = a /\ << a, b >>[2] = b
        OBVIOUS
      <3>3. QED
        BY <2>1, <2>3, <3>1, <3>2 DEF Longer
    <2>4. ASSUME NEW a, NEW b, << a, b >> \in w[k + 1], << a, b >> \notin w[k]
          PROVE  \E c \in S : << a, c >> \in EdgesAmong(S) /\ << c, b >> \in w[k]
      <3>1. PICK e \in EdgesAmong(S) : e[1] = a /\ << e[2], b >> \in w[k]
        BY <2>1, <2>4 DEF Longer
      <3>2. e = << e[1], e[2] >> /\ e[2] \in S
        BY <3>1 DEF EdgesAmong
      <3>3. QED
        BY <3>1, <3>2
    <2>5. QED
      BY <2>2, <2>3, <2>4
  <1>4. QED
    BY <1>2, <1>3 DEF w

\* A path goes on along an edge at its end.
LEMMA PathsGoOn ==
    ASSUME NEW S
    PROVE  \A k \in Nat : \A a, b, c \in S :
              << a, b >> \in PathsIn(S)[k] /\ << b, c >> \in EdgesAmong(S) =>
                  << a, c >> \in PathsIn(S)[k + 1]
  <1> DEFINE w == PathsIn(S)
             E == EdgesAmong(S)
             U == {k \in Nat : \A a, b, c \in S :
                      << a, b >> \in w[k] /\ << b, c >> \in E => << a, c >> \in w[k + 1]}
  <1>1. /\ \A n \in S : << n, n >> \in w[0]
        /\ \A k \in Nat : w[k] \subseteq w[k + 1]
        /\ \A k \in Nat : \A a, b, c \in S :
              << a, b >> \in E /\ << b, c >> \in w[k] => << a, c >> \in w[k + 1]
        /\ \A k \in Nat : \A a, b : << a, b >> \in w[k + 1] =>
              \/ << a, b >> \in w[k]
              \/ \E c \in S : << a, c >> \in E /\ << c, b >> \in w[k]
    BY PathsGrow
  <1>2. w[0] = {<< n, n >> : n \in S}
    BY PathsSteps
  <1> HIDE DEF w, E
  <1>3. 0 \in U
    <2> SUFFICES ASSUME NEW a \in S, NEW b \in S, NEW c \in S, << a, b >> \in w[0], << b, c >> \in E
                 PROVE  << a, c >> \in w[0 + 1]
      OBVIOUS
    <2>1. a = b
      BY <1>2
    <2>2. << c, c >> \in w[0]
      BY <1>1
    <2>3. QED
      BY <1>1, <2>1, <2>2
  <1>4. ASSUME NEW k \in Nat, k \in U
        PROVE  k + 1 \in U
    <2> SUFFICES ASSUME NEW a \in S, NEW b \in S, NEW c \in S,
                        << a, b >> \in w[k + 1], << b, c >> \in E
                 PROVE  << a, c >> \in w[(k + 1) + 1]
      OBVIOUS
    <2>1. k + 1 \in Nat
      OBVIOUS
    <2>2. CASE << a, b >> \in w[k]
      <3>1. << a, c >> \in w[k + 1]
        BY <1>4, <2>2
      <3>2. w[k + 1] \subseteq w[(k + 1) + 1]
        BY <1>1, <2>1, Zenon
      <3>3. QED
        BY <3>1, <3>2
    <2>3. CASE << a, b >> \notin w[k]
      <3>1. PICK x \in S : << a, x >> \in E /\ << x, b >> \in w[k]
        BY <1>1, <2>3, Zenon
      <3>2. << x, c >> \in w[k + 1]
        BY <1>4, <3>1
      <3>3. QED
        BY <1>1, <2>1, <3>1, <3>2, Zenon
    <2>4. QED
      BY <2>2, <2>3
  <1>5. Nat \subseteq U
    <2> HIDE DEF U
    <2>1. QED
      BY <1>3, <1>4, Induct
  <1>6. QED
    BY <1>5 DEF w, E

\* What dfs reaches in k steps has a path of that length from the source.
LEMMA LevelsArePaths ==
    ASSUME TypeOK, NEW r \in Ends, NEW S, \A k \in Nat : Within(pipes, r)[k] \subseteq S
    PROVE  \A k \in Nat : \A n \in Within(pipes, r)[k] : << r, n >> \in PathsIn(S)[k]
  <1> DEFINE w == Within(pipes, r)
             P == PathsIn(S)
             U == {k \in Nat : \A n \in w[k] : << r, n >> \in P[k]}
  <1>0. pipes \in Seq(Pipe)
    BY DEF TypeOK
  <1>1. w[0] = {r} /\ \A k \in Nat : w[k + 1] = Grow(pipes, w[k])
    BY <1>0, WithinSteps
  <1>2. r \in S
    BY <1>1
  <1>3. /\ \A n \in S : << n, n >> \in P[0]
        /\ \A k \in Nat : P[k] \subseteq P[k + 1]
    BY PathsGrow
  <1>4. \A k \in Nat : \A b, c \in S :
            << r, b >> \in P[k] /\ << b, c >> \in EdgesAmong(S) => << r, c >> \in P[k + 1]
    BY <1>2, PathsGoOn
  <1>5. \A k \in Nat : w[k] \subseteq S
    OBVIOUS
  <1> HIDE DEF w, P
  <1>6. 0 \in U
    BY <1>1, <1>2, <1>3
  <1>7. ASSUME NEW k \in Nat, k \in U
        PROVE  k + 1 \in U
    <2> SUFFICES ASSUME NEW n \in w[k + 1]
                 PROVE  << r, n >> \in P[k + 1]
      OBVIOUS
    <2>1. n \in Grow(pipes, w[k])
      BY <1>1
    <2>2. CASE n \in w[k]
      <3>1. << r, n >> \in P[k]
        BY <1>7, <2>2
      <3>2. QED
        BY <1>3, <3>1
    <2>3. CASE n \notin w[k]
      <3>1. PICK m \in w[k] : n \in Below(pipes, m)
        BY <2>1, <2>3 DEF Grow
      <3>2. m \in S /\ n \in S
        <4>1. k + 1 \in Nat
          OBVIOUS
        <4>2. QED
          BY <1>5, <4>1
      <3>3. << m, n >> \in EdgesAmong(S)
        BY <3>1, <3>2, EdgesArePipes DEF Below
      <3>4. << r, m >> \in P[k]
        BY <1>7
      <3>5. QED
        BY <1>4, <3>2, <3>3, <3>4
    <2>4. QED
      BY <2>2, <2>3
  <1>8. Nat \subseteq U
    <2> HIDE DEF U
    <2>1. QED
      BY <1>6, <1>7, Induct
  <1>9. QED
    BY <1>8 DEF w, P

\* And what has a path of length k from the source is reached in k steps.
LEMMA PathsAreLevels ==
    ASSUME TypeOK, NEW r \in Ends, NEW S
    PROVE  \A k \in Nat : \A n : << r, n >> \in PathsIn(S)[k] => n \in Within(pipes, r)[k]
  <1> DEFINE w == Within(pipes, r)
             P == PathsIn(S)
             U == {k \in Nat : \A j \in Nat : \A b \in S : \A a \in w[j] :
                      << a, b >> \in P[k] => b \in w[j + k]}
  <1>0. pipes \in Seq(Pipe)
    BY DEF TypeOK
  <1>1. w[0] = {r} /\ \A k \in Nat : w[k + 1] = Grow(pipes, w[k])
    BY <1>0, WithinSteps
  <1>2. /\ \A k \in Nat : P[k] \in SUBSET (S \X S)
        /\ P[0] = {<< n, n >> : n \in S}
    BY PathsSteps
  <1>3. \A k \in Nat : \A a, b : << a, b >> \in P[k + 1] =>
            \/ << a, b >> \in P[k]
            \/ \E c \in S : << a, c >> \in EdgesAmong(S) /\ << c, b >> \in P[k]
    BY PathsGrow
  <1>4. \A k \in Nat : w[k] \subseteq w[k + 1]
    <2> HIDE DEF w
    <2>1. \A k \in Nat : w[k] \subseteq Grow(pipes, w[k])
      BY DEF Grow
    <2>2. QED
      BY <1>1, <2>1
  <1> HIDE DEF w, P
  <1>5. 0 \in U
    BY <1>2
  <1>6. ASSUME NEW k \in Nat, k \in U
        PROVE  k + 1 \in U
    <2> SUFFICES ASSUME NEW j \in Nat, NEW b \in S, NEW a \in w[j], << a, b >> \in P[k + 1]
                 PROVE  b \in w[j + (k + 1)]
      OBVIOUS
    <2>1. /\ j + (k + 1) = (j + k) + 1 /\ j + (k + 1) = (j + 1) + k
          /\ j + k \in Nat /\ j + 1 \in Nat
      OBVIOUS
    <2>2. CASE << a, b >> \in P[k]
      <3>1. b \in w[j + k]
        BY <1>6, <2>2
      <3>2. w[j + k] \subseteq w[(j + k) + 1]
        BY <1>4, <2>1, Zenon
      <3>3. QED
        BY <2>1, <3>1, <3>2
    <2>3. CASE << a, b >> \notin P[k]
      <3>1. PICK c \in S : << a, c >> \in EdgesAmong(S) /\ << c, b >> \in P[k]
        BY <1>3, <2>3, Zenon
      <3>2. c \in Below(pipes, a)
        BY <3>1, EdgesArePipes DEF Below
      <3>3. c \in Grow(pipes, w[j])
        BY <3>2 DEF Grow
      <3>4. c \in w[j + 1]
        BY <1>1, <3>3
      <3>5. b \in w[(j + 1) + k]
        BY <1>6, <2>1, <3>1, <3>4
      <3>6. QED
        BY <2>1, <3>5
    <2>4. QED
      BY <2>2, <2>3
  <1>7. Nat \subseteq U
    <2> HIDE DEF U
    <2>1. QED
      BY <1>5, <1>6, Induct
  <1>8. ASSUME NEW k \in Nat, NEW n, << r, n >> \in P[k]
        PROVE  n \in w[k]
    <2>1. n \in S /\ r \in w[0] /\ 0 + k = k /\ 0 \in Nat
      BY <1>1, <1>2, <1>8
    <2>2. n \in w[0 + k]
      BY <1>7, <1>8, <2>1
    <2>3. QED
      BY <2>1, <2>2
  <1>9. QED
    BY <1>8 DEF w, P

\* What is reached and is not the source has a pipe from something reached.
LEMMA ReachedHavePipes ==
    ASSUME TypeOK, NEW r \in Ends, NEW S, \A k \in Nat : Within(pipes, r)[k] \subseteq S
    PROVE  \A k \in Nat : \A n \in Within(pipes, r)[k] :
              n = r \/ \E i \in DOMAIN pipes : pipes[i].down = n /\ pipes[i].up \in S
  <1> DEFINE w == Within(pipes, r)
             U == {k \in Nat : \A n \in w[k] :
                      n = r \/ \E i \in DOMAIN pipes : pipes[i].down = n /\ pipes[i].up \in S}
  <1>1. w[0] = {r} /\ \A k \in Nat : w[k + 1] = Grow(pipes, w[k])
    <2>1. pipes \in Seq(Pipe)
      BY DEF TypeOK
    <2>2. QED
      BY <2>1, WithinSteps
  <1>2. \A k \in Nat : w[k] \subseteq S
    OBVIOUS
  <1> HIDE DEF w
  <1>3. 0 \in U
    BY <1>1
  <1>4. ASSUME NEW k \in Nat, k \in U
        PROVE  k + 1 \in U
    <2> SUFFICES ASSUME NEW n \in w[k + 1]
                 PROVE  n = r \/ \E i \in DOMAIN pipes : pipes[i].down = n /\ pipes[i].up \in S
      OBVIOUS
    <2>1. n \in Grow(pipes, w[k])
      BY <1>1
    <2>2. CASE n \in w[k]
      BY <1>4, <2>2
    <2>3. CASE n \notin w[k]
      <3>1. PICK m \in w[k] : n \in Below(pipes, m)
        BY <2>1, <2>3 DEF Grow
      <3>2. QED
        BY <1>2, <3>1 DEF Below
    <2>4. QED
      BY <2>2, <2>3
  <1>5. Nat \subseteq U
    <2> HIDE DEF U
    <2>1. QED
      BY <1>3, <1>4, Induct
  <1>6. QED
    BY <1>5 DEF w

\* A set of nodes below the source that is closed along the pipes has one pipe
\* less than nodes, and as many edges: each node but the source has its own.
LEMMA OnePipeEach ==
    ASSUME TypeOK, NEW r, Branching(pipes, r), NEW S, IsFiniteSet(S), r \in S,
           \A i \in DOMAIN pipes : pipes[i].up \in S => pipes[i].down \in S,
           \A n \in S \ {r} : \E i \in DOMAIN pipes : pipes[i].down = n /\ pipes[i].up \in S
    PROVE  /\ Cardinality({i \in DOMAIN pipes : pipes[i].up \in S}) = Cardinality(S) - 1
           /\ Cardinality(EdgesAmong(S)) = Cardinality(S) - 1
  <1> DEFINE A == {i \in DOMAIN pipes : pipes[i].up \in S}
             B == S \ {r}
             into(n) == CHOOSE i \in DOMAIN pipes : pipes[i].down = n /\ pipes[i].up \in S
             g == [n \in B |-> into(n)]
             h == [n \in B |-> << pipes[into(n)].up, n >>]
  <1>1. \A n \in B : into(n) \in A /\ pipes[into(n)].down = n
    OBVIOUS
  <1>2. \A i \in A : pipes[i].down \in B
    BY DEF Branching
  <1>3. \A i, j \in DOMAIN pipes : pipes[i].down = pipes[j].down => i = j
    BY DEF Branching
  <1>4. IsFiniteSet(B) /\ Cardinality(B) = Cardinality(S) - 1
    BY FS_RemoveElement
  <1>5. Cardinality(A) = Cardinality(B)
    <2> HIDE DEF into, B
    <2>1. g \in Injection(B, A)
      BY <1>1 DEF Injection, IsInjective
    <2>2. g \in Surjection(B, A)
      <3>1. g \in [B -> A]
        BY <1>1
      <3>2. \A i \in A : g[pipes[i].down] = i
        BY <1>1, <1>2, <1>3
      <3>3. \A i \in A : \E n \in B : g[n] = i
        BY <1>2, <3>2
      <3>4. QED
        BY <3>1, <3>3 DEF Surjection
    <2>3. g \in Bijection(B, A)
      BY <2>1, <2>2 DEF Bijection
    <2>4. ExistsBijection(B, A)
      BY <2>3 DEF ExistsBijection
    <2>5. QED
      BY <1>4, <2>4, FS_Bijection
  <1>6. Cardinality(EdgesAmong(S)) = Cardinality(B)
    <2> DEFINE E == EdgesAmong(S)
    <2>1. \A n \in B : h[n] \in E
      BY <1>1, EdgesArePipes
    <2>2. \A e \in E : \E i \in A : e = << pipes[i].up, pipes[i].down >>
      <3> SUFFICES ASSUME NEW e \in E
                   PROVE  \E i \in A : e = << pipes[i].up, pipes[i].down >>
        OBVIOUS
      <3>1. PICK a, b : e = << a, b >>
        BY DEF EdgesAmong
      <3>2. PICK i \in DOMAIN pipes : pipes[i].up = a /\ pipes[i].down = b /\ a \in S
        BY <3>1, EdgesArePipes
      <3>3. QED
        BY <3>1, <3>2
    <2>3. \A i \in A : into(pipes[i].down) = i
      BY <1>1, <1>2, <1>3
    <2> HIDE DEF E, into, B
    <2>4. h \in Injection(B, E)
      <3>1. h \in [B -> E]
        BY <2>1
      <3>2. \A n, m \in B : h[n] = h[m] => n = m
        OBVIOUS
      <3>3. QED
        BY <3>1, <3>2 DEF Injection, IsInjective
    <2>5. h \in Surjection(B, E)
      <3>1. h \in [B -> E]
        BY <2>1
      <3>2. \A e \in E : \E n \in B : h[n] = e
        <4> SUFFICES ASSUME NEW e \in E
                     PROVE  \E n \in B : h[n] = e
          OBVIOUS
        <4>1. PICK i \in A : e = << pipes[i].up, pipes[i].down >>
          BY <2>2
        <4>2. pipes[i].down \in B /\ into(pipes[i].down) = i
          BY <1>2, <2>3
        <4>3. h[pipes[i].down] = e
          BY <4>1, <4>2
        <4>4. QED
          BY <4>2, <4>3
      <3>3. QED
        BY <3>1, <3>2 DEF Surjection
    <2>6. ExistsBijection(B, E)
      BY <2>4, <2>5 DEF ExistsBijection, Bijection
    <2>7. QED
      BY <1>4, <2>6, FS_Bijection DEF E
  <1>7. QED
    BY <1>4, <1>5, <1>6

\* The source is one of the nodes that are listed with it.
SourceInv == /\ TypeOK
             /\ first # None => first \in nodes
             /\ listed # Idle /\ listed.first # None => listed.first \in listed.nodes

\* Nodes are only added, and the source is one that was: also in what was listed.
LEMMA SourceInvHolds == Spec => []SourceInv
  <1>1. Init => SourceInv
    BY TypeInit DEF Init, SourceInv
  <1>2. SourceInv /\ [Next]_vars => SourceInv'
    <2> SUFFICES ASSUME SourceInv, [Next]_vars
                 PROVE  SourceInv'
      OBVIOUS
    <2>1. TypeOK'
      BY TypeStep DEF SourceInv
    <2>2. CASE \E n \in Ids : CreateNode(n)
      BY <2>1, <2>2 DEF CreateNode, SourceInv
    <2>3. CASE \E c \in Clients : (\E pipe \in Pipe : ListPipes(c, pipe)) \/ InsertPipe(c)
      BY <2>1, <2>3 DEF ListPipes, InsertPipe, SourceInv
    <2>4. CASE ListNodes
      BY <2>1, <2>4 DEF ListNodes, SourceInv, Idle
    <2>5. CASE ListPipesToBuild
      BY <2>1, <2>5 DEF ListPipesToBuild, SourceInv
    <2>6. CASE UNCHANGED vars
      BY <2>1, <2>6 DEF vars, SourceInv
    <2>7. QED
      BY <2>2, <2>3, <2>4, <2>5, <2>6 DEF Next
  <1>3. QED
    BY <1>1, <1>2, PTL DEF Spec

\* What dfs visits, as the levels it is made of: all of them, however many.
LEMMA VisitedIsAllLevels ==
    ASSUME SourceInv, Reading.first # None,
           \A i \in DOMAIN pipes : {pipes[i].up, pipes[i].down} \subseteq Reading.nodes
    PROVE  LET r == Reading.first
               S == Visited(Reading)
           IN  /\ r \in Ends /\ r \in S /\ S \subseteq Reading.nodes /\ IsFiniteSet(S)
               /\ \A k \in Nat : Within(pipes, r)[k] \subseteq S
               /\ S = Within(pipes, r)[Cardinality(S)] /\ Cardinality(S) \in Nat
               /\ S = Within(pipes, r)[Cardinality(S) - 1] /\ Cardinality(S) - 1 \in Nat
               /\ \A i \in DOMAIN pipes : pipes[i].up \in S => pipes[i].down \in S
  <1> DEFINE r == Reading.first
             X == Reading.nodes
             S == Visited(Reading)
             w == Within(pipes, r)
  <1>1. /\ pipes \in Seq(Pipe) /\ r \in Ends /\ r \in X /\ IsFiniteSet(X)
        /\ Reading.pipes = pipes
    BY ReadingIsTyped DEF SourceInv, Reading, Idle
  <1>2. S = w[Cardinality(X)] /\ Cardinality(X) \in Nat
    <2>1. S = w[Cardinality(X)]
      BY <1>1 DEF Visited, Within
    <2>2. QED
      BY <1>1, <2>1, FS_CardinalityType
  <1>3. \A i \in DOMAIN pipes : pipes[i].down \in X
    OBVIOUS
  <1> HIDE DEF r, X, S
  <1>4. w[0] = {r} /\ \A k \in Nat : w[k + 1] = Grow(pipes, w[k])
    BY <1>1, WithinSteps
  <1>5. \A k \in Nat : w[k] \subseteq X
    <2> DEFINE U == {k \in Nat : w[k] \subseteq X}
    <2> HIDE DEF w
    <2>1. 0 \in U
      BY <1>1, <1>4
    <2>2. ASSUME NEW k \in Nat, k \in U
          PROVE  k + 1 \in U
      <3>1. Grow(pipes, w[k]) \subseteq X
        BY <1>3, <2>2 DEF Grow, Below
      <3>2. QED
        BY <1>4, <3>1
    <2>3. Nat \subseteq U
      <3> HIDE DEF U
      <3>1. QED
        BY <2>1, <2>2, Induct
    <2>4. QED
      BY <2>3
  <1>6. \A k \in Nat : w[k] \subseteq S
    BY <1>1, <1>2, <1>5, WithinSaturates
  <1>7. r \in S /\ S \subseteq X /\ IsFiniteSet(S) /\ Cardinality(S) \in Nat
    <2> HIDE DEF w
    <2>1. r \in S /\ S \subseteq X
      BY <1>2, <1>4, <1>5, <1>6
    <2>2. QED
      BY <1>1, <2>1, FS_Subset, FS_CardinalityType
  <1>8. /\ S = w[Cardinality(S)]
        /\ S = w[Cardinality(S) - 1] /\ Cardinality(S) - 1 \in Nat
    <2>1. /\ Cardinality(S) - 1 \in Nat
          /\ \A k \in Nat : /\ w[k] \subseteq w[Cardinality(S)]
                            /\ w[k] \subseteq w[Cardinality(S) - 1]
      BY <1>1, <1>6, <1>7, WithinSaturates
    <2> HIDE DEF w
    <2>2. QED
      BY <1>2, <1>6, <1>7, <2>1
  <1>9. ASSUME NEW i \in DOMAIN pipes, pipes[i].up \in S
        PROVE  pipes[i].down \in S
    <2> DEFINE N == Cardinality(X)
    <2>1. pipes[i].down \in Grow(pipes, w[N])
      BY <1>2, <1>9 DEF Grow, Below
    <2>2. N \in Nat /\ N + 1 \in Nat
      BY <1>2
    <2> HIDE DEF w, N
    <2>3. w[N + 1] = Grow(pipes, w[N]) /\ w[N + 1] \subseteq S
      BY <1>4, <1>6, <2>2
    <2>4. QED
      BY <2>1, <2>3
  <1>10. QED
    BY <1>1, <1>6, <1>7, <1>8, <1>9 DEF r, X, S

\* Whatever BuildNetwork accepts, however callers raced to build it and whatever
\* was added while it was read, is a tree below its source that holds every
\* emitter and every junction that was listed; and no pipe touches a node that
\* was added too late to be listed.
THEOREM TreeBelowSourceHolds == Spec => []TreeBelowSource
  <1>1. SourceInv => TreeBelowSource
    <2> SUFFICES ASSUME SourceInv, Built(Reading)
                 PROVE  /\ \E S \in SUBSET Reading.nodes :
                              /\ Reached(Reading) \subseteq S
                              /\ TreeUnder(Reading.first, S)
                              /\ \A i \in DOMAIN pipes : pipes[i].up \in S => pipes[i].down \in S
                              /\ Cardinality({i \in DOMAIN pipes : pipes[i].up \in S})
                                    = Cardinality(S) - 1
                        /\ \A n \in nodes \ Reading.nodes, i \in DOMAIN pipes :
                              n \notin {pipes[i].up, pipes[i].down}
      BY DEF TreeBelowSource
    <2> DEFINE r == Reading.first
               S == Visited(Reading)
    <2>1. /\ TypeOK /\ r # None /\ pipes \in Seq(Pipe)
          /\ \A i \in DOMAIN pipes : {pipes[i].up, pipes[i].down} \subseteq Reading.nodes
          /\ Reached(Reading) \subseteq S
      BY ReadingIsTyped DEF SourceInv, Built, AssertTree
    <2>2. Branching(pipes, r)
      BY <2>1, BuiltIsBranching, ReadingIsTyped
    <2>3. /\ r \in Ends /\ r \in S /\ S \subseteq Reading.nodes /\ IsFiniteSet(S)
          /\ \A k \in Nat : Within(pipes, r)[k] \subseteq S
          /\ S = Within(pipes, r)[Cardinality(S)] /\ Cardinality(S) \in Nat
          /\ \A i \in DOMAIN pipes : pipes[i].up \in S => pipes[i].down \in S
      BY <2>1, VisitedIsAllLevels
    <2> HIDE DEF r, S
    <2>4. \A n \in S : << r, n >> \in PathsIn(S)[Cardinality(S)]
      BY <2>1, <2>3, LevelsArePaths
    <2>5. \A n \in S \ {r} : \E i \in DOMAIN pipes : pipes[i].down = n /\ pipes[i].up \in S
      <3>1. \A k \in Nat : \A n \in Within(pipes, r)[k] :
                n = r \/ \E i \in DOMAIN pipes : pipes[i].down = n /\ pipes[i].up \in S
        BY <2>1, <2>3, ReachedHavePipes
      <3>2. QED
        BY <2>3, <3>1
    <2>6. /\ Cardinality({i \in DOMAIN pipes : pipes[i].up \in S}) = Cardinality(S) - 1
          /\ Cardinality(EdgesAmong(S)) = Cardinality(S) - 1
      BY <2>1, <2>2, <2>3, <2>5, OnePipeEach
    <2>7. TreeUnder(r, S)
      BY <2>4, <2>6 DEF TreeUnder, PathsIn
    <2>8. \A n \in nodes \ Reading.nodes, i \in DOMAIN pipes :
              n \notin {pipes[i].up, pipes[i].down}
      BY <2>1
    <2>9. QED
      BY <2>1, <2>3, <2>6, <2>7, <2>8 DEF r, S
  <1>2. QED
    BY <1>1, SourceInvHolds, PTL

\* A network that is a tree under its first source is never refused: with a pipe
\* for every node but the source, and every node reached, each has its own.
THEOREM TreesAreBuiltHolds == Spec => []TreesAreBuilt
  <1>1. SourceInv => TreesAreBuilt
    <2> SUFFICES ASSUME SourceInv, Reading.first # None,
                        \A i \in DOMAIN pipes : {pipes[i].up, pipes[i].down} \subseteq Reading.nodes,
                        TreeUnder(Reading.first, Reading.nodes),
                        Len(pipes) = Cardinality(Reading.nodes) - 1
                 PROVE  Built(Reading)
      BY DEF TreesAreBuilt
    <2> DEFINE r == Reading.first
               S == Reading.nodes
               into(n) == CHOOSE i \in DOMAIN pipes : pipes[i].down = n
               B == S \ {r}
               g == [n \in B |-> into(n)]
    <2>1. /\ TypeOK /\ pipes \in Seq(Pipe) /\ Reading.pipes = pipes
          /\ r \in Ends /\ r \in S /\ IsFiniteSet(S)
      BY ReadingIsTyped DEF SourceInv, Reading, Idle
    <2>2. \A n \in S : << r, n >> \in PathsIn(S)[Cardinality(S)]
      BY DEF TreeUnder, PathsIn
    <2>3. /\ \A k \in Nat : Within(pipes, r)[k] \subseteq Visited(Reading)
          /\ Visited(Reading) \subseteq S
      BY VisitedIsAllLevels
    <2>4. Cardinality(S) \in Nat /\ IsFiniteSet(B) /\ Cardinality(B) = Cardinality(S) - 1
      BY <2>1, FS_CardinalityType, FS_RemoveElement
    <2> HIDE DEF r, S
    <2>5. \A n \in S : n \in Within(pipes, r)[Cardinality(S)]
      BY <2>1, <2>2, <2>4, PathsAreLevels
    <2>6. S \subseteq Visited(Reading)
      BY <2>3, <2>4, <2>5
    <2>7. \A n \in B : \E i \in DOMAIN pipes : pipes[i].down = n
      <3>1. \A k \in Nat : Within(pipes, r)[k] \subseteq S
        BY <2>3
      <3>2. \A k \in Nat : \A n \in Within(pipes, r)[k] :
                n = r \/ \E i \in DOMAIN pipes : pipes[i].down = n /\ pipes[i].up \in S
        BY <2>1, <3>1, ReachedHavePipes
      <3>3. QED
        BY <2>4, <2>5, <3>2
    <2>8. \A n \in B : into(n) \in DOMAIN pipes /\ pipes[into(n)].down = n
      BY <2>7
    <2>9. IsFiniteSet(DOMAIN pipes) /\ Cardinality(DOMAIN pipes) = Cardinality(B)
      <3>1. DOMAIN pipes = 1 .. Len(pipes) /\ Len(pipes) \in Nat
        BY <2>1
      <3>2. IsFiniteSet(1 .. Len(pipes)) /\ Cardinality(1 .. Len(pipes)) = Len(pipes)
        BY <3>1, FS_Interval
      <3>3. Len(pipes) = Cardinality(S) - 1
        BY DEF S
      <3>4. QED
        BY <2>4, <3>1, <3>2, <3>3
    <2>10. g \in Surjection(B, DOMAIN pipes)
      <3> HIDE DEF into, B
      <3>1. g \in Injection(B, DOMAIN pipes)
        BY <2>8 DEF Injection, IsInjective
      <3> HIDE DEF g
      <3>2. QED
        BY <2>9, <3>1, FS_Injection
    <2>11. \A i \in DOMAIN pipes : pipes[i].down \in B /\ into(pipes[i].down) = i
      <3> SUFFICES ASSUME NEW i \in DOMAIN pipes
                   PROVE  pipes[i].down \in B /\ into(pipes[i].down) = i
        OBVIOUS
      <3> HIDE DEF into, B
      <3>1. PICK n \in B : g[n] = i
        BY <2>10 DEF Surjection
      <3>2. into(n) = i
        BY <3>1
      <3>3. QED
        BY <2>8, <3>2
    <2>12. Branching(pipes, r)
      <3>1. \A i \in DOMAIN pipes : pipes[i].down # r
        BY <2>11
      <3>2. \A i, j \in DOMAIN pipes : pipes[i].down = pipes[j].down => i = j
        <4> HIDE DEF into, B
        <4>1. QED
          BY <2>11
      <3>3. QED
        BY <3>1, <3>2 DEF Branching
    <2>13. AssertTree(Reading)
      <3>1. InDegree(pipes, r) = 0
        BY <2>1, <2>12, DegreeOfNode DEF Branching
      <3>2. \A n \in S \ {r} : InDegree(pipes, n) <= 1
        BY <2>1, <2>12, DegreeOfNode DEF Branching
      <3>3. Reached(Reading) \subseteq Visited(Reading)
        BY <2>6 DEF Reached, S
      <3>4. QED
        BY <2>1, <3>1, <3>2, <3>3 DEF AssertTree, r, S
    <2>14. QED
      BY <2>1, <2>13 DEF Built
  <1>2. QED
    BY <1>1, SourceInvHolds, PTL

=============================================================================

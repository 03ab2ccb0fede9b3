------------------------------ MODULE Network ------------------------------
(***************************************************************************)
(* The piping network of one system: how callers build it up, one node and *)
(* one pipe at a time, and what BuildNetwork makes of it.                  *)
(*                                                                         *)
(* CreatePipe lists the pipes, looks for a second parent, and inserts:     *)
(* two database calls without a lock between them.  Nothing deletes a node *)
(* or a pipe.  The tree itself is looked at only by BuildNetwork, a pure   *)
(* function, whose traversals (dfs, postOrder, the walk from a node up to  *)
(* the source) Calc relies on; postOrder and the walk have no guard of     *)
(* their own against a cycle.                                              *)
(*                                                                         *)
(* A calculation lists the nodes first and the pipes in a second query,    *)
(* and either may have grown in between: it builds the network from what   *)
(* it has read.                                                            *)
(*                                                                         *)
(* A node is its id, and the set that holds the id gives its type.  The    *)
(* life-cycle check of the edits is the business of module DerivedData.    *)
(***************************************************************************)
EXTENDS Integers, FiniteSets, FiniteSetsExt, Sequences, SequencesExt, RootedTree

CONSTANTS Clients,     \* the goroutines that serve requests
          Sources,     \* ids of nodes of type source or base
          Emitters,    \* ids of nodes of type sprinkler or standpipe
          Junctions,   \* ids of nodes of type junction
          Drains,      \* ids of nodes of type drain
          Foreign,     \* ids of nodes that belong to other systems
          None,        \* no node
          MaxPipes     \* bound: pipes in the system

\* The ids of the nodes the system may come to have.
Ids == Sources \union Emitters \union Junctions \union Drains

ASSUME IdsAssumption ==
    /\ None \notin Ids \union Foreign
    /\ Foreign \intersect Ids = {}
    /\ IsFiniteSet(Ids)
ASSUME BoundsAssumption == MaxPipes \in Nat

VARIABLES
    nodes,   \* the rows of nodes
    first,   \* of the sources, the one that is listed first by seq
    pipes,   \* the rows of pipe_segments, as inserted
    req,     \* the CreatePipe call each client has in flight
    listed   \* the nodes that a calculation has listed and the first source of
             \* them, if it has still to list the pipes

vars == << nodes, first, pipes, req, listed >>

Pipe == [up : Ids \union Foreign, down : Ids \union Foreign]

Idle == [phase |-> "idle"]
Call == {Idle} \union [phase : {"insert"}, pipe : Pipe]

Init ==
    /\ nodes = {}
    /\ first = None
    /\ pipes = << >>
    /\ req = [c \in Clients |-> Idle]
    /\ listed = Idle

----------------------------------------------------------------------------
(* Editing *)

\* Mutant: whatever node is listed first is taken for the source.
CreateNodeAsFirst(n) ==
    /\ n \in Ids \ nodes
    /\ nodes' = nodes \union {n}
    /\ first' \in IF first = None THEN {n} ELSE {first, n}
    /\ UNCHANGED << pipes, req, listed >>

\* The caller chooses the seq of the node, and with it which source is first.
CreateNode(n) ==
    /\ n \in Ids \ nodes
    /\ nodes' = nodes \union {n}
    /\ first' \in IF n \notin Sources THEN {first}
                  ELSE IF first = None THEN {n} ELSE {first, n}
    /\ UNCHANGED << pipes, req, listed >>

Inserting == {c \in Clients : req[c] # Idle}

\* Mutant: only a second pipe between the same two nodes is refused.
ListPipesForDuplicate(c, pipe) ==
    /\ req[c] = Idle
    /\ Len(pipes) + Cardinality(Inserting) < MaxPipes
    /\ \A i \in DOMAIN pipes : pipes[i] # pipe
    /\ req' = [req EXCEPT ![c] = [phase |-> "insert", pipe |-> pipe]]
    /\ UNCHANGED << nodes, first, pipes, listed >>

\* The pipes are listed: a node that has an upstream pipe gets no second one.
\* (The check for a duplicate that follows can find nothing more.)
ListPipes(c, pipe) ==
    /\ req[c] = Idle
    /\ Len(pipes) + Cardinality(Inserting) < MaxPipes
    /\ \A i \in DOMAIN pipes : pipes[i].down # pipe.down
    /\ req' = [req EXCEPT ![c] = [phase |-> "insert", pipe |-> pipe]]
    /\ UNCHANGED << nodes, first, pipes, listed >>

\* The foreign keys ask for two nodes that exist, in whatever system.
InsertPipe(c) ==
    /\ req[c].phase = "insert"
    /\ pipes' = IF {req[c].pipe.up, req[c].pipe.down} \subseteq nodes \union Foreign
                THEN Append(pipes, req[c].pipe) ELSE pipes
    /\ req' = [req EXCEPT ![c] = Idle]
    /\ UNCHANGED << nodes, first, listed >>

----------------------------------------------------------------------------
(* buildNetwork *)

\* The first of its two queries.
ListNodes ==
    /\ listed = Idle
    /\ listed' = [phase |-> "pipes", nodes |-> nodes, first |-> first]
    /\ UNCHANGED << nodes, first, pipes, req >>

\* The second one, with which BuildNetwork is called.
ListPipesToBuild ==
    /\ listed # Idle
    /\ listed' = Idle
    /\ UNCHANGED << nodes, first, pipes, req >>

----------------------------------------------------------------------------
Next ==
    \/ \E n \in Ids : CreateNode(n)
    \/ ListNodes
    \/ ListPipesToBuild
    \/ \E c \in Clients : \/ \E pipe \in Pipe : ListPipes(c, pipe)
                          \/ InsertPipe(c)

Spec == Init /\ [][Next]_vars

----------------------------------------------------------------------------
(* BuildNetwork, over the rows net that were read: nodes, first and pipes *)

\* What a calculation is given that lists the pipes now.
Reading ==
    [nodes |-> IF listed = Idle THEN nodes ELSE listed.nodes,
     first |-> IF listed = Idle THEN first ELSE listed.first,
     pipes |-> pipes]

InDegree(ps, n) == Cardinality({i \in DOMAIN ps : ps[i].down = n})

\* The nodes below n; dfs visits them in any order.
Below(ps, n) == {ps[i].down : i \in {j \in DOMAIN ps : ps[j].up = n}}

\* Mutant: a node is reached only from the source itself.
VisitedOneDeep(net) == {net.first} \union Below(net.pipes, net.first)

\* The nodes dfs has visited when it ends.
Visited(net) ==
    LET within[k \in Nat] ==
            IF k = 0 THEN {net.first}
            ELSE within[k - 1] \union UNION {Below(net.pipes, n) : n \in within[k - 1]}
    IN  within[Cardinality(net.nodes)]

\* What must be reached from the source; a drain need not.
Reached(net) == (Emitters \union Junctions) \intersect net.nodes

\* Mutant: the degrees are not looked at.
AssertConnected(net) == Reached(net) \subseteq Visited(net)

AssertTree(net) ==
    /\ \A n \in net.nodes \ {net.first} : InDegree(net.pipes, n) <= 1
    /\ InDegree(net.pipes, net.first) = 0
    /\ Reached(net) \subseteq Visited(net)

\* Whether BuildNetwork, called with the first source there is, returns a network.
Built(net) ==
    /\ net.first # None
    /\ \A i \in DOMAIN net.pipes : {net.pipes[i].up, net.pipes[i].down} \subseteq net.nodes
    /\ AssertTree(net)

(***************************************************************************)
(* The traversals of a network that was built.  Each is cut off after as   *)
(* many levels as there are nodes, which is where it would go on for ever. *)
(***************************************************************************)

\* What is put out for the nodes below n, one after the other in the order of the
\* pipes, if put is what is put out for each.
PutBelow(ps, put, n) ==
    FoldLeft(LAMBDA out, p : IF p.up = n THEN out \o put[p.down] ELSE out, << >>, ps)

\* Mutant: a node is put out before what lies below it.
PreOrder(net) ==
    LET rec[d \in Nat] ==
            [n \in net.nodes |-> IF d = 0 THEN << >>
                                 ELSE << n >> \o PutBelow(net.pipes, rec[d - 1], n)]
    IN  rec[Cardinality(net.nodes)][net.first]

PostOrder(net) ==
    LET rec[d \in Nat] ==
            [n \in net.nodes |-> IF d = 0 THEN << >>
                                 ELSE Append(PutBelow(net.pipes, rec[d - 1], n), n)]
    IN  rec[Cardinality(net.nodes)][net.first]

\* The node above n; upstreamPipe finds some pipe that leads to n.
Upstream(ps, n) == LET i == CHOOSE i \in DOMAIN ps : ps[i].down = n IN ps[i].up

\* Where the walk of computeSourceRequiredPressure ends that starts at n: at
\* the source, or at a node that has no upstream pipe.
WalkEnd(net, n) ==
    LET at[k \in Nat] ==
            IF k = 0 THEN n
            ELSE IF at[k - 1] = net.first \/ InDegree(net.pipes, at[k - 1]) = 0 THEN at[k - 1]
            ELSE Upstream(net.pipes, at[k - 1])
    IN  at[Cardinality(net.nodes)]

----------------------------------------------------------------------------
(* Properties *)

Listed == {Idle} \union [phase : {"pipes"}, nodes : SUBSET Ids, first : Sources \union {None}]

\* Every variable holds a value of its type; what is taken for the source of
\* the network is a source.
TypeOK ==
    /\ nodes \subseteq Ids
    /\ first \in Sources \union {None}
    /\ pipes \in Seq(Pipe)
    /\ req \in [Clients -> Call]
    /\ listed \in Listed

\* Only a race gives a node a second upstream pipe: it gets no more of them
\* than there are callers who found it without one, so a lone caller keeps to
\* the one that CreatePipe promises.
ParentsOnlyByRacing ==
    \A n \in Ids \union Foreign : InDegree(pipes, n) <= Cardinality(Clients)

\* The pipes as a graph from which duplicates have gone.
EdgesAmong(S) == {<< p.up, p.down >> : p \in {q \in ToSet(pipes) : q.up \in S /\ q.down \in S}}

\* The nodes S hang together under r, and have as few pipes as that needs.
TreeUnder(r, S) ==
    LET Paths[k \in Nat] ==
            IF k = 0 THEN {<< n, n >> : n \in S}
            ELSE Paths[k - 1] \union
                 {path \in S \X S : \E e \in EdgesAmong(S) :
                     e[1] = path[1] /\ << e[2], path[2] >> \in Paths[k - 1]}
    IN  /\ \A n \in S : << r, n >> \in Paths[Cardinality(S)]
        /\ Cardinality(EdgesAmong(S)) = Cardinality(S) - 1

\* What BuildNetwork accepts, however the rows got there and whatever was added
\* while they were read, is a tree below its source with every emitter and every
\* junction that was listed in it.  A node created after the nodes were listed
\* is left out, but then no pipe touches it yet when the pipes are read: what is
\* calculated is the network of that moment but for nodes without a pipe.
TreeBelowSource ==
    LET net == Reading IN
    Built(net) =>
        /\ \E S \in SUBSET net.nodes :
              /\ Reached(net) \subseteq S
              /\ TreeUnder(net.first, S)
              /\ \A i \in DOMAIN pipes : pipes[i].up \in S => pipes[i].down \in S
              /\ Cardinality({i \in DOMAIN pipes : pipes[i].up \in S}) = Cardinality(S) - 1
        /\ \A n \in nodes \ net.nodes, i \in DOMAIN pipes :
              n \notin {pipes[i].up, pipes[i].down}

\* A network that is a tree under its first source is never refused.
TreesAreBuilt ==
    LET net == Reading IN
    /\ net.first # None
    /\ \A i \in DOMAIN pipes : {pipes[i].up, pipes[i].down} \subseteq net.nodes
    /\ TreeUnder(net.first, net.nodes)
    /\ Len(pipes) = Cardinality(net.nodes) - 1
    => Built(net)

\* The flows are summed over each node once, after all that lies below it: the
\* order ends, has no node twice, and has a parent behind its children.
EachNodeAfterItsChildren ==
    LET net == Reading IN
    Built(net) =>
        LET order == PostOrder(net)
        IN  /\ \A i, j \in DOMAIN order : order[i] = order[j] => i = j
            /\ Reached(net) \subseteq ToSet(order)
            /\ \A i \in DOMAIN order, p \in DOMAIN pipes :
                  pipes[p].up = order[i] => \E j \in 1 .. i - 1 : order[j] = pipes[p].down

\* From every emitter the walk up ends at the source: the break that Calc
\* calls its safety is never taken, and the loop ends.
WalkEndsAtSource ==
    LET net == Reading IN
    Built(net) => \A n \in Emitters \intersect net.nodes : WalkEnd(net, n) = net.first

\* What Calc works on, the nodes below the source and of each the node above it,
\* is what module Figures takes a network to be.
CalcGetsTree ==
    LET net == Reading IN
    Built(net) => IsTree(Visited(net), net.first,
                         [n \in Visited(net) \ {net.first} |-> Upstream(net.pipes, n)])

\* Whatever BuildNetwork accepts is a tree in every way the code relies on: of
\* the rows, as Calc takes it, and for the walk up from an emitter.
BuiltIsTree == TreeBelowSource /\ CalcGetsTree /\ WalkEndsAtSource
=============================================================================

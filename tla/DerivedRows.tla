---------------------------- MODULE DerivedRows ----------------------------
(***************************************************************************)
(* What the server promises of the derived rows of one system, whatever    *)
(* races, is cut short, crashes and recovers.                              *)
(*                                                                         *)
(* Four inputs are edited at any time, each edit a version one higher.     *)
(* The hydraulic result and the supply comparison are replaced together,   *)
(* from versions that existed, and never by those of an older version.     *)
(* The compliance checks are taken away and come back as those of one run, *)
(* which judged the result and the comparison that are stored then, and    *)
(* inputs not older than theirs.                                           *)
(***************************************************************************)
EXTENDS Naturals

CONSTANT None              \* stands for rows that are not there

VARIABLES input,           \* the current version of each input
          result,          \* the versions the hydraulic result was computed from
          comparison,      \* the versions the supply comparison was computed from
          verdict          \* what the checks were given, None unless all are there

vars == << input, result, comparison, verdict >>

Inputs == {"remote", "network", "supply", "pump"}

\* A supply edited while it is read is read without its points: not whole.
Comparison == [remote : Nat, network : Nat, supply : Nat, pump : Nat, whole : BOOLEAN]

Init ==
    /\ input \in [Inputs -> Nat]
    /\ result = None
    /\ comparison = None
    /\ verdict = None

Edit ==
    /\ \E i \in Inputs : input' = [input EXCEPT ![i] = @ + 1]
    /\ UNCHANGED << result, comparison, verdict >>

\* A supply that is still the current one has been read whole.
Store ==
    /\ comparison' \in Comparison
    /\ result' = [remote |-> comparison'.remote, network |-> comparison'.network]
    /\ \A i \in Inputs :
          /\ comparison'[i] <= input[i]
          /\ comparison # None => comparison[i] <= comparison'[i]
    /\ comparison'.supply = input.supply => comparison'.whole
    /\ UNCHANGED << input, verdict >>

Withdraw ==
    /\ verdict' = None
    /\ UNCHANGED << input, result, comparison >>

\* The rules that count nodes and pipes were given them as listed, the others
\* the network that was built from a later reading.
Judge ==
    /\ verdict = None
    /\ verdict' # None
    /\ verdict'.result = result
    /\ verdict'.comparison = comparison
    /\ verdict'.listed <= verdict'.network
    /\ \A i \in Inputs \ {"remote"} : verdict'[i] <= input[i]
    /\ verdict'.supply = input.supply => verdict'.whole
    /\ comparison # None =>
          /\ comparison.network <= verdict'.listed
          /\ \A i \in {"supply", "pump"} : comparison[i] <= verdict'[i]
    /\ UNCHANGED << input, result, comparison >>

Next == Edit \/ Store \/ Withdraw \/ Judge

Spec == Init /\ [][Next]_vars
=============================================================================

---------------------------- MODULE SelectTarget ----------------------------
(***************************************************************************)
(* select_target (balancer.rs): which entry of a list of targets a request *)
(* is sent to.  A target is a record of the two fields the choice looks    *)
(* at; the result is an index into the list, or None.                      *)
(*                                                                         *)
(* The loops of the code are written as recursive functions.               *)
(***************************************************************************)
EXTENDS Integers, Sequences, FiniteSetsExt

CONSTANT Modulus           \* 2^32: weights are summed, and seeds cut, as u32

ASSUME ModulusIsPositive == Modulus \in Nat \ {0}

\* The arms of the code's enum.
BalancingStrategy == {"round-robin", "least-connections", "hash"}

UpstreamTarget == [weight: Nat, active_connections: Nat]

None == 0

\* The u32 sum of the weights, wrapping as an optimised build does.
TotalWeight(targets) ==
    LET sum[n \in 0..Len(targets)] ==
            IF n = 0 THEN 0 ELSE (sum[n - 1] + targets[n].weight) % Modulus
    IN  sum[Len(targets)]

\* Mutant: <= where the cursor is compared with the weight.
PickWeightedOffByOne(targets, seed) ==
    LET total == TotalWeight(targets)
        cursor[i \in DOMAIN targets] ==
            IF i = 1 THEN (seed % Modulus) % total
                     ELSE cursor[i - 1] - targets[i - 1].weight
        hits == {i \in DOMAIN targets :
                    targets[i].weight # 0 /\ cursor[i] <= targets[i].weight}
    IN  IF total = 0 \/ hits = {} THEN None ELSE Min(hits)

\* pick_weighted_target: cursor[i] is the cursor when the loop reaches target
\* i, and the loop returns at the first target that contains it.
PickWeighted(targets, seed) ==
    LET total == TotalWeight(targets)
        cursor[i \in DOMAIN targets] ==
            IF i = 1 THEN (seed % Modulus) % total
                     ELSE cursor[i - 1] - targets[i - 1].weight
        hits == {i \in DOMAIN targets :
                    targets[i].weight # 0 /\ cursor[i] < targets[i].weight}
    IN  IF total = 0 \/ hits = {} THEN None ELSE Min(hits)

\* The key least-connections minimises: an integer division.
LoadOf(t) == t.active_connections \div t.weight

\* The least-connections arm: min_by_key keeps the first minimum.
PickLeast(targets) ==
    LET usable == {i \in DOMAIN targets : targets[i].weight > 0}
        least  == {i \in usable :
                     \A j \in usable : LoadOf(targets[i]) <= LoadOf(targets[j])}
    IN  IF usable = {} THEN None ELSE Min(least)

\* select_target; the hash strategy is given the hash of its request key.
SelectTarget(strategy, targets, hash, request_count) ==
    CASE strategy = "round-robin"       -> PickWeighted(targets, request_count)
      [] strategy = "least-connections" -> PickLeast(targets)
      [] strategy = "hash"              -> PickWeighted(targets, hash)
=============================================================================

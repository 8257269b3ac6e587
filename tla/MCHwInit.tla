------------------------------ MODULE MCHwInit ------------------------------
(* Platforms for HwInit: every combination of two devices with up to two    *)
(* queues, and rows of three and four devices that reach the limits.       *)
EXTENDS HwInit

MCQueues == {[fails |-> f, priority |-> 1] : f \in Failures} \cup {[fails |-> "none", priority |-> 2]}

UpTo(S, n) == UNION {[1 .. k -> S] : k \in 0 .. n}

Dsa(node, wqs) == [dsa |-> TRUE, supported |-> TRUE, enabled |-> TRUE, numa |-> node, wqs |-> wqs]

\* Devices that fail a check have a queue that would do.
Unfit == {[Dsa(1, <<[fails |-> "none", priority |-> 1]>>) EXCEPT !.dsa = a, !.supported = b, !.enabled = c] :
             a, b, c \in BOOLEAN} \ {Dsa(1, <<[fails |-> "none", priority |-> 1]>>)}

Pairs == {<<>>} \cup [1 .. 1 -> Unfit \cup {Dsa(1, w) : w \in UpTo(MCQueues, 1)}]
           \cup {<<a, b>> : a \in Unfit \cup {Dsa(1, w) : w \in UpTo(MCQueues, 2)},
                        b \in {Dsa(2, <<q>>) : q \in MCQueues} \cup Unfit}

\* Three queues in every order of priority, one of them unusable at times.
Simple == {[fails |-> "none", priority |-> p] : p \in 1 .. 3} \cup {[fails |-> "group", priority |-> 1]}
Rows == {<<Dsa(2, a)>> : a \in UpTo(Simple, MaxQueues + 1)}
          \cup UpTo({Dsa(0, <<>>), Dsa(2, <<[fails |-> "none", priority |-> 1]>>)} \cup
                    {[Dsa(1, <<>>) EXCEPT !.dsa = FALSE]}, MaxDevices + 1)

MCEnvironments ==
    {[library |-> "fit", context |-> TRUE, devices |-> d] : d \in Pairs \cup Rows}
      \cup {[library |-> l, context |-> FALSE, devices |-> <<>>] : l \in {"absent", "incompatible", "fit"}}
=============================================================================

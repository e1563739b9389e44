----------------------------- MODULE MCPlatform -----------------------------
(***************************************************************************)
(* Platform for TLC, with the error graphs on which the classification     *)
(* that its exit codes rest on is compared with its references.            *)
(***************************************************************************)
EXTENDS Platform, Classification

\* Causes of node n: none, one, or two of the nodes below it, nil among them.
Causes(n) == BoundedSeq(0..(n - 1), 2)

\* Errors with up to four nodes; node 1 is a leaf and the last is the root.
Shapes4 ==
    {<<<<>>, two, three, four>> :
        two \in Causes(2), three \in Causes(3), four \in Causes(4) \ {<<>>}}

Shapes3 == {<<<<>>, two, three>> : two \in Causes(2), three \in Causes(3)}

\* A list of two causes is a join, and so may be an error without a cause.
Joins(shape) ==
    LET two == {n \in DOMAIN shape : Len(shape[n]) = 2}
    IN  {two, two \cup {n \in DOMAIN shape : shape[n] = <<>>}}

\* All nodes can be compared, or all but one.
Keys(shape) == {DOMAIN shape} \cup {DOMAIN shape \ {n} : n \in DOMAIN shape}

WalkExact ==
    \A shape \in Shapes4 : \A match \in SUBSET DOMAIN shape, keyed \in Keys(shape) :
        LET g == [causes |-> shape, match |-> match, keyed |-> keyed]
        IN  Walk(g, <<4>>, {}) = FirstMatch(g, 4)

OnlyExact ==
    \A shape \in Shapes3 : \A join \in Joins(shape), keyed \in Keys(shape) :
    \A kind \in [DOMAIN shape -> {"plain", "match", "failed", "cause"}] :
        LET Of(k) == {n \in DOMAIN shape : kind[n] = k}
            g == [causes |-> shape, join |-> join, keyed |-> keyed, match |-> Of("match"),
                  failed |-> Of("failed"), cause |-> Of("cause")]
        IN  Only(g, 3, FALSE, {}).only = AllCanceled(g, 3)

\* Remembering what was visited changes no verdict that the exit code rests on:
\* walkClassification finds the match that a walk over every path finds first,
\* and cancellationOnly accepts an error exactly if every path through it ends
\* in cancellation.
ClassificationExact == step = "exited" => WalkExact /\ OnlyExact

=============================================================================

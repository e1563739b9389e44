--------------------------- MODULE Classification ---------------------------
(***************************************************************************)
(* How errors are classified: the walk over an error and its causes that   *)
(* classificationIs and classificationAs share, and cancellationOnly, that *)
(* tells the result of a canceled task from a failure.  Both visit a       *)
(* shared cause once; the references visit every path.                     *)
(*                                                                         *)
(* An error graph g gives each node its causes (g.causes, 0 is nil), what  *)
(* Unwrap returns (g.join: a list), the nodes that match (g.match) and the *)
(* nodes that have a key (g.keyed).  For cancellationOnly a node of        *)
(* g.failed reports a failed operation, one of g.cause is the context's    *)
(* cause and one of g.match matches the context.                           *)
(***************************************************************************)
EXTENDS Naturals, SequencesExt

-----------------------------------------------------------------------------
(* walkClassification.                                                     *)

\* The causes are pushed in reverse, so that the first one is visited first.
Push(pending, causes) == pending \o Reverse(causes)

RECURSIVE Walk(_, _, _)

\* The first match, or 0; the nodes with a key are visited once.
Walk(g, pending, seen) ==
    IF pending = <<>> THEN 0
    ELSE LET current == Last(pending)
             rest == Front(pending)
         IN  IF current = 0 \/ current \in seen THEN Walk(g, rest, seen)
             ELSE IF current \in g.match THEN current
             ELSE Walk(g, Push(rest, g.causes[current]), seen \cup ({current} \cap g.keyed))

RECURSIVE Preorder(_, _)

\* All visits of a depth-first walk that revisits shared causes.
Preorder(g, n) ==
    IF n = 0 THEN <<>>
    ELSE <<n>> \o FlattenSeq([i \in DOMAIN g.causes[n] |-> Preorder(g, g.causes[n][i])])

FirstMatch(g, n) ==
    LET visits == SelectSeq(Preorder(g, n), LAMBDA v : v \in g.match)
    IN  IF visits = <<>> THEN 0 ELSE Head(visits)

-----------------------------------------------------------------------------
(* cancellationOnly.                                                       *)

\* Mutant: a match above a list of causes counts for each of them.
MatchedBelow(g, n, matched) == matched

\* A match vouches for the one cause below it, never for joined siblings.
Carried(g, n, matched) == matched /\ n \notin g.join

RECURSIVE Only(_, _, _, _)
RECURSIVE OnlyAll(_, _, _, _)

\* The verdict on node n, and what is known after it: verdicts by node and
\* match, a node that is under way counting as FALSE.
Only(g, n, matched, known) ==
    LET visit == <<n, matched>>
        match == matched \/ n \in g.match
        causes == SelectSeq(g.causes[n], LAMBDA c : c # 0)
        decided == n \in g.failed \cup g.cause \/ causes = <<>>
        below == IF decided
                 THEN [only |-> IF n \in g.failed \cup g.cause THEN n \notin g.failed
                                ELSE match /\ n \notin g.join,
                       known |-> known]
                 ELSE OnlyAll(g, causes, Carried(g, n, match), known \cup {<<visit, FALSE>>})
    IN  IF n \in g.keyed /\ \E k \in known : k[1] = visit
        THEN [only |-> (CHOOSE k \in known : k[1] = visit)[2], known |-> known]
        ELSE [only |-> below.only,
              known |-> {k \in below.known : k[1] # visit}
                            \cup (IF n \in g.keyed THEN {<<visit, below.only>>} ELSE {})]

\* The causes of a node from left to right, up to the first that is no cancellation.
OnlyAll(g, causes, matched, known) ==
    IF causes = <<>> THEN [only |-> TRUE, known |-> known]
    ELSE LET first == Only(g, Head(causes), matched, known)
         IN  IF first.only THEN OnlyAll(g, Tail(causes), matched, first.known) ELSE first

RECURSIVE Visits(_, _)

\* All pairs of a node and the match that has been carried to it.
Visits(g, from) ==
    LET next == from \cup
            { <<c, v[1] \notin g.join /\ (v[2] \/ v[1] \in g.match)>> :
                <<v, c>> \in { p \in from \X DOMAIN g.causes :
                                  /\ p[1][1] \notin g.failed \cup g.cause
                                  /\ p[2] \in ToSet(g.causes[p[1][1]]) } }
    IN  IF next = from THEN from ELSE Visits(g, next)

\* Every way down ends at the cause or under a match.
AllCanceled(g, n) ==
    \A v \in Visits(g, {<<n, FALSE>>}) :
        /\ v[1] \notin g.failed
        /\ \/ v[1] \in g.cause
           \/ ToSet(g.causes[v[1]]) \ {0} # {}
           \/ (v[2] \/ v[1] \in g.match) /\ v[1] \notin g.join

=============================================================================

----------------------------- MODULE MCVerdict ------------------------------
(* Instance of Verdict for TLC: one result without a usable fence, one that *)
(* names a path; in docs/reviews/ a verdict and a hand-written stand-in.    *)
EXTENDS Verdict, TLC

\* Where the home is known, and where it is not.
MCPortable == [home \in BOOLEAN |-> [r \in Results |-> IF home /\ r = "/home/op/x" THEN "~/x" ELSE r]]
MCOutcome  == ("plain" :> Nil) @@ ("/home/op/x" :> "done") @@ ("~/x" :> "done")

Doc(v, b) == [verdict |-> v, body |-> b, eol |-> "LF"]

MCOld ==
    {[claim |-> IntegrityLine(Doc("REJECT", "plain")), doc |-> Doc("REJECT", "plain")],
     [claim |-> Nil, doc |-> Doc(Nil, "plain")]}
=============================================================================

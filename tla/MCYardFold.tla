----------------------------- MODULE MCYardFold -----------------------------
(***************************************************************************)
(* Instance of YardFold, Detect, Index and Render for TLC: a dispatch d1   *)
(* with records of every kind, one of no kind, ties, zones and budgets; a  *)
(* dispatch d2, one of its records in another case, one with an empty      *)
(* outcome, one an intent, others damaged; a record without a subject; two *)
(* trains, one with three manifests of which two name the same instant in  *)
(* different zones.                                                        *)
(***************************************************************************)
EXTENDS Render, TLC

Rec(s, k, t, z, o, b) ==
    [subject |-> s, kind |-> k, at |-> t, zone |-> z, outcome |-> o, budget |-> b, members |-> Nil, extra |-> FALSE]

Manifest(s, t, z, ms) == [Rec(s, "intent", t, z, Nil, Nil) EXCEPT !.members = ms]

Member(s, role) == [subject |-> s, role |-> role]

MCTrains == {"train:t1", "train:t2"}

\* In the order of their paths.
Listed ==
    <<Rec("", "dispatched", 0, 0, Nil, Nil),
      Rec("d1", "dispatched", 0, 0, Nil, Nil),
      Rec("d1", "dispatched", 1, 0, Nil, 2),
      Rec("d1", "presumed-lost", 2, 0, Nil, Nil),
      Rec("d1", "returned", 1, 0, "done", Nil),
      Rec("d1", "returned", 1, 2, "odd", Nil),
      Rec("d1", "returned", 2, 0, "error", Nil),
      Rec("d1", "ruling", 0, 0, Nil, Nil),
      Rec("d1", "", 0, 0, Nil, Nil),
      Rec("d2", "dispatched", 0, 0, "done", 0),
      Rec("d2", "Returned", 0, 0, "Done", Nil),
      Rec("d2", "returned", 1, 0, "", Nil),
      Rec("d2", "intent", 0, 0, Nil, Nil),
      Manifest("train:t1", 0, 0, <<Member("d2", "car"), Member("", "car"), Member("d2", "gate")>>),
      Manifest("train:t1", 1, 0, <<Member("d1", "gate"), Member("d2", "car")>>),
      Manifest("train:t1", 1, 2, <<Member("d1", "car")>>),
      [Manifest("train:t2", 0, 0, <<Member("d1", "gate"), Member("d3", "car")>>) EXCEPT !.extra = TRUE],
      Rec("train:t2", "intent", 1, 0, Nil, Nil)>>

MCTorn     == {Rec(Nil, Nil, 0, 0, Nil, Nil)}
MCBadAt    == {Rec("d2", "dispatched", 0, Nil, Nil, Nil)}
MCBadShape == {Rec("d2", "returned", 0, 0, Nil, Nil), Rec(Nil, "dispatched", 0, 0, Nil, Nil)}

MCPool == ToSet(Listed)

MCNamings ==
    LET all == Listed \o SetToSeq(MCTorn \cup MCBadAt \cup MCBadShape)
    IN  {all, Reverse(all)}

Words == {"dispatched", "returned", "presumed-lost", "intent", "ruling"}

Row(id, register) == [id |-> id, register |-> register]

MCDefs ==
    [positions |-> <<Row("live", "nominal"), Row("dark", "nominal"), Row("bagged", "nominal")>>,
     liveness  |-> <<Row("returned", "nominal"), Row("dispatched", "in-progress"),
                     Row("overdue", "needs-attention"), Row("presumed-lost", "needs-attention")>>,
     outcomes  |-> <<Row("done", "nominal"), Row("error", "needs-attention"), Row("error", "nominal")>>]

\* A shop in order; one that recognises an outcome it has not defined; one whose outcomes
\* are empty and whose defaults and definitions cannot be read; one whose
\* kinds cannot be read, whose defaults lack their key, with a bad row in its definitions.
MCShops ==
    {[kinds |-> Words, outcomes |-> {"done", "error"}, defaults |-> 1, defs |-> MCDefs],
     [kinds |-> Words, outcomes |-> {"done", "error", "odd"}, defaults |-> 1, defs |-> MCDefs],
     [kinds |-> Words, outcomes |-> {}, defaults |-> Unreadable, defs |-> Unreadable],
     [kinds |-> Unreadable, outcomes |-> {"done", "error"}, defaults |-> Keyless,
      defs |-> [MCDefs EXCEPT !.liveness[3].register = Nil]]}

MCLower ==
    [w \in Words \cup {""} \cup {r.subject : r \in MCPool} \cup {"done", "odd", "error"} |-> w]
    @@ ("Returned" :> "returned") @@ ("Done" :> "done")
=============================================================================

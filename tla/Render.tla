------------------------------- MODULE Render -------------------------------
(***************************************************************************)
(* How the lanes become colours: boarddefs.go loads the definition of each *)
(* word (its register), poll.go judges the age of the data, and the page   *)
(* (compose.js, lanes.js, vocab.js, render.js) gives every lane the most   *)
(* severe register of its position, its freshness and what it is able to   *)
(* draw, and every state and outcome the register of its definition.  A    *)
(* condition of the board is always needs-attention.  The definitions are  *)
(* read at every poll; here they do not change.                            *)
(*                                                                         *)
(* Labels, texts and roles, which have no colour on the page, are left     *)
(* out.  A row of the definitions is [id, register]; the register of a row *)
(* that lacks its id or label, or names another register, is Nil.          *)
(***************************************************************************)
EXTENDS Index

CONSTANT Staleness  \* the age, in instants, at which the data are stale

REGISTER_ORDER == <<"nominal", "in-progress", "needs-attention">>

\* A vocabulary the file lacks is an empty list; a manifest names finitely many members.
ASSUME RenderAssumption ==
    /\ Staleness \in Nat
    /\ Nil \notin ToSet(REGISTER_ORDER)
    /\ \A r \in Pool : r.members # Nil => IsFiniteSet(DOMAIN r.members)
    /\ \A s \in Shops : s.defs # Unreadable =>
           /\ {"positions", "liveness", "outcomes"} \subseteq DOMAIN s.defs
           /\ \A v \in DOMAIN s.defs :
                  /\ Len(s.defs[v]) \in Nat /\ DOMAIN s.defs[v] = 1..Len(s.defs[v])
                  /\ \A k \in DOMAIN s.defs[v] : s.defs[v][k].register \in ToSet(REGISTER_ORDER) \cup {Nil}

-----------------------------------------------------------------------------
(* boarddefs.go, laneregistry.go and poll.go.                              *)

\* What cannot be read goes out as null, not as empty lists: there are no lists.
LoadVocabularies ==
    IF shop.defs = Unreadable
    THEN [defs |-> <<>>, conditions |-> {<<"board-defs-unreadable", Unreadable>>}]
    ELSE [defs       |-> [v \in DOMAIN shop.defs |->
                             [k \in {j \in DOMAIN shop.defs[v] : shop.defs[v][j].register # Nil} |-> shop.defs[v][k]]],
          conditions |-> {<<"board-def-invalid-row", row>> :
                              row \in {r \in UNION {ToSet(shop.defs[v]) : v \in DOMAIN shop.defs} : r.register = Nil}}]

laneRegistry ==
    [dispatches |-> "live", gates |-> "live", trains |-> "live", freight |-> "dark", fuel |-> "bagged"]

\* The data are as old as the newest record; no records, nothing to be old.
computeLiveFreshness ==
    IF Kept = {} \/ \E r \in Kept : now - r.at <= Staleness
    THEN "fresh" ELSE "stale"

\* Before the first poll a live lane has no payload.
LaneOf(id, polled) ==
    LET live == laneRegistry[id] = "live"
    IN  [position  |-> laneRegistry[id],
         data      |-> live /\ polled,
         freshness |-> CASE ~live -> "not-applicable" [] live /\ ~polled -> "never-polled"
                         [] OTHER -> computeLiveFreshness]

-----------------------------------------------------------------------------
(* vocab.js, compose.js, lanes.js and render.js.                           *)

rank(register) == CHOOSE i \in DOMAIN REGISTER_ORDER : REGISTER_ORDER[i] = register

mostSevereRegister(registers) == CHOOSE r \in registers : \A q \in registers : rank(q) <= rank(r)

\* A slip in describeVocab: a word without a definition is calm.
describeVocabCalm(id, defs) ==
    IF \E row \in ToSet(defs) : row.id = id THEN (CHOOSE row \in ToSet(defs) : row.id = id).register ELSE "nominal"

\* The register of a word: of the first row with its id.
describeVocab(id, defs) ==
    LET found == {k \in DOMAIN defs : defs[k].id = id}
    IN  IF found = {} THEN "needs-attention" ELSE defs[CHOOSE k \in found : \A j \in found : k <= j].register

freshnessRegister(kind) ==
    CASE kind \in {"not-applicable", "fresh"} -> "nominal" [] kind = "never-polled" -> "in-progress" [] OTHER -> "needs-attention"

\* Freight and fuel have nothing to draw and can always draw it.
hasRendererFor(id, lane) == id \in {"freight", "fuel"} \/ lane.data

composeRegister(id, lane, defs) ==
    mostSevereRegister({describeVocab(lane.position, defs.positions), freshnessRegister(lane.freshness),
                        IF hasRendererFor(id, lane) THEN "nominal" ELSE "needs-attention"})

\* The colours in the lanes' bodies.  The dispatches lane colours states only.  An empty
\* outcome is left out of a car on the wire (types.go:17), so it has no colour there; a
\* gate keeps it, and looks it up.
buildLaneBodies(board, defs) ==
    LET cars     == UNION {ToSet(board.trains[t].cars) : t \in DOMAIN board.trains}
        states   == {board.dispatches[s].entry.state : s \in DOMAIN board.dispatches} \cup {c.state : c \in cars}
        outcomes == ({c.outcome : c \in cars} \ {Nil, ""}) \cup {g.outcome : g \in board.gates}
    IN  {describeVocab(w, defs.liveness) : w \in states} \cup {describeVocab(w, defs.outcomes) : w \in outcomes}

\* The schema refuses a payload whose definitions are null, and the page keeps
\* what it shows.
Discarded == Nil

buildBoardViewModel(board, polled) ==
    LET vocab == LoadVocabularies
    IN  IF DOMAIN vocab.defs = {} THEN Discarded
        ELSE [conditions |-> vocab.conditions \cup IF polled THEN board.conditions ELSE StartConditions,
              lanes      |-> {composeRegister(id, LaneOf(id, polled), vocab.defs) : id \in DOMAIN laneRegistry},
              bodies     |-> IF polled THEN buildLaneBodies(board, vocab.defs) ELSE {}]

-----------------------------------------------------------------------------
(* Properties.                                                             *)

Calm(view) == view.conditions = {} /\ "needs-attention" \notin view.lanes \cup view.bodies

\* A word that is shown has a definition, and the first of them is not hot.
Defined(words, v) ==
    \A w \in words : \E k \in DOMAIN shop.defs[v] :
        /\ shop.defs[v][k].id = w
        /\ shop.defs[v][k].register \in {"nominal", "in-progress"}
        /\ \A j \in 1..(k - 1) : shop.defs[v][j].id # w

\* Nothing is wrong, said of the files, the clock and the shop's data alone but for the
\* winning manifests and states.  A car that returned an empty outcome is well, for that
\* word is drawn nowhere; a gate that did is not.
Well(board) ==
    LET cars       == UNION {ToSet(board.trains[t].cars) : t \in DOMAIN board.trains}
        Member(t)  == [i \in DOMAIN board.trains[t].cars \cup DOMAIN board.trains[t].declaredNotObserved |->
                           IF i \in DOMAIN board.trains[t].cars THEN board.trains[t].cars[i].subject
                           ELSE board.trains[t].declaredNotObserved[i].subject]
        claims     == UNION {{t} \X DOMAIN Member(t) : t \in DOMAIN board.trains}
    IN  /\ {Unreadable, {}} \cap {shop.kinds, shop.outcomes} = {} /\ shop.defaults # Unreadable
        /\ \A f \in store : /\ Survives(f) /\ ~f.extra
                            /\ f.kind \in shop.kinds \cup {""} /\ f.outcome \in shop.outcomes \cup {Nil, ""}
        /\ \A v \in DOMAIN shop.defs : \A row \in ToSet(shop.defs[v]) : row.register # Nil
        /\ \A f, g \in store : f.kind = "intent" /\ g.kind \in DispatchKinds => f.subject # g.subject \/ f.subject = ""
        /\ \A t \in Trains : InStore(t, "intent") # {} => t \in DOMAIN board.trains
        /\ \A c, d \in claims : c # d => Member(c[1])[c[2]] # Member(d[1])[d[2]]
        /\ store = {} \/ \E f \in store : now <= f.at + Staleness
        /\ Defined({laneRegistry[id] : id \in DOMAIN laneRegistry}, "positions")
        /\ Defined({board.dispatches[s].entry.state : s \in DOMAIN board.dispatches}, "liveness")
        /\ Defined({c.outcome : c \in {x \in cars : x.outcome # Nil /\ (x.role = "gate" \/ x.outcome # "")}}, "outcomes")

\* The page is calm exactly when all is well (Laws 1 and 2; compose.js:3-8): whatever is
\* wrong with a file, a word, the shop's data or the age of the data shows as
\* needs-attention somewhere, whichever of the loaders, the fold, the assembly and the
\* page notices it; nothing shows so on a board where nothing is wrong; and before
\* the first poll no board is calm.  Not said of a shop whose definitions cannot be
\* read, for its payloads are never shown.
CalmIffWell ==
    shop.defs # Unreadable =>
        /\ \A board \in {Board} : Calm(buildBoardViewModel(board, TRUE)) <=> Well(board)
        /\ ~Calm(buildBoardViewModel(Nil, FALSE))
=============================================================================

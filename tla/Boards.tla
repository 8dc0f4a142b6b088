------------------------------- MODULE Boards -------------------------------
(***************************************************************************)
(* The generated boards and what keeps them equal to their generators.     *)
(* One behaviour follows one generator and the two boards it writes, the   *)
(* demo's and production's.  The golden-signals board of the demo has, on  *)
(* top, a second script that appends row P to it in place.  Developers     *)
(* edit the generator, run the scripts in any order, or edit a board by    *)
(* hand; the CI job runs every script again and is red when a file         *)
(* changes; what is green may be merged.  A board is the set of its        *)
(* panels: of their order in the file, at whose end generators and         *)
(* post-processor append, only the numbering is kept.                      *)
(***************************************************************************)
EXTENDS BoardLayouts, FiniteSetsExt, Functions

CONSTANTS
  BASE_ID,   \* first id of row P
  MaxGrown,  \* bound: panels the generator has grown by
  MaxPanels  \* bound: panels of a board that is extended by hand

ASSUME BoundsAreNatural == BASE_ID \in Nat /\ MaxGrown \in Nat /\ MaxPanels \in Nat

\* the ids of row P are clear of those of the generator as it is
ASSUME BaseIdIsClear == BASE_ID > Len(GoldenSignals("demo"))

VARIABLES
  script,      \* the generator followed
  grown,       \* in the working tree: panels added at its end
  demo,        \* in the working tree: the demo's board
  production,  \* in the working tree: production's board
  main         \* the last three as they were merged

boardsVars == <<script, grown, demo, production, main>>

-----------------------------------------------------------------------------
(* What a generator writes.                                                *)

Scripts == {"golden-signals", "slo-board", "overview", "full-overview"}

Layout(deployment) ==
  CASE script = "golden-signals" -> GoldenSignals(deployment)
    [] script = "slo-board"      -> SLOBoard(deployment)
    [] script = "overview"       -> Overview
    [] script = "full-overview"  -> FullOverview

Ids(panels) == {p.id : p \in panels}

Bottom(panels) == Max({0} \cup {p.y + p.h : p \in panels})

(* nid() counts the panels.                                                *)
Numbered(layout) == {[layout[i] EXCEPT !.id = i] : i \in DOMAIN layout}

(* What later editions of a script append.                                 *)
Appended(y0, n) == [i \in 1..n |-> Panel(0, y0 + 8 * (i - 1), 24, 8, A)]

Generated(deployment, n) ==
  LET layout == Layout(deployment)
  IN [uid |-> <<script, deployment>>,
      panels |-> Numbered(layout \o Appended(Bottom(Numbered(layout)), n))]

(* The deployment a run for an output path takes itself to be for.  The    *)
(* SLO board goes by the name of its variant, the others by "demo/" in     *)
(* OUT, and as the path of a run without arguments is absolute it holds    *)
(* that as well when the directory of the checkout is called               *)
(* something-demo.                                                         *)
TakenFor(deployment, checkoutNamedDemo) ==
  IF checkoutNamedDemo /\ script # "slo-board" THEN "demo" ELSE deployment

-----------------------------------------------------------------------------
(* What add_poll_outcome_panels.py does to a board.                        *)

Kept(board) == {p \in board.panels : ~p.owned}

RowP(y0) ==
  LET layout == <<Row(y0), Panel(0, y0 + 1, 12, 8, ABC), Panel(12, y0 + 1, 12, 8, AB),
                  Panel(0, y0 + 9, 12, 8, AB), Text(12, y0 + 9, 12, 8)>>
  IN {[layout[i] EXCEPT !.id = BASE_ID + i - 1, !.owned = TRUE] : i \in 1..5}

Clash(board) == Ids(Kept(board)) \cap (BASE_ID..BASE_ID + 4) # {}

(* With a bug: the panels of the last run are left in place.               *)
WithAnotherRowP(board) == [board EXCEPT !.panels = @ \cup RowP(Bottom(@))]

WithRowP(board) == [board EXCEPT !.panels = Kept(board) \cup RowP(Bottom(Kept(board)))]

-----------------------------------------------------------------------------
(* The CI job: every generator, the golden-signals one once more for the   *)
(* demo, the post-processor, in this order, on a checkout of its own; any  *)
(* exit and any difference is red.                                         *)

CheckedOutByCI == FALSE  \* its directory has the repository's name

(* With a bug: the generator runs after the post-processor.                *)
RegeneratedInOtherOrder == Generated(TakenFor("demo", CheckedOutByCI), grown)

RegeneratedDemo ==
  LET board == Generated(TakenFor("demo", CheckedOutByCI), grown)
  IN IF script = "golden-signals" THEN WithRowP(board) ELSE board

RegeneratedProduction == Generated(TakenFor("production", CheckedOutByCI), grown)

Green ==
  /\ script = "golden-signals" => ~Clash(Generated("demo", grown))
  /\ demo = RegeneratedDemo
  /\ production = RegeneratedProduction

-----------------------------------------------------------------------------
Tree(g, d, p) == [grown |-> g, demo |-> d, production |-> p]

BoardsInit ==
  /\ script \in Scripts
  /\ grown = 0
  /\ production = Generated("production", 0)
  /\ demo = IF script = "golden-signals" THEN WithRowP(Generated("demo", 0))
            ELSE Generated("demo", 0)
  /\ main = Tree(grown, demo, production)

EditGenerator ==
  /\ grown' \in 0..MaxGrown
  /\ grown' # grown
  /\ UNCHANGED <<script, demo, production, main>>

RunForProduction ==
  /\ \E checkoutNamedDemo \in BOOLEAN :
       production' = Generated(TakenFor("production", checkoutNamedDemo), grown)
  /\ UNCHANGED <<script, grown, demo, main>>

RunForDemo ==
  /\ demo' = Generated("demo", grown)
  /\ UNCHANGED <<script, grown, production, main>>

(* The script exits on a clash, and the file stays as it is.               *)
AddPollOutcomePanels ==
  /\ script = "golden-signals"
  /\ ~Clash(demo)
  /\ demo' = WithRowP(demo)
  /\ UNCHANGED <<script, grown, production, main>>

(* A board saved from Grafana's editor: a new panel gets an id that is     *)
(* free and goes below the others.                                         *)
AddByHand(board) ==
  LET panel == [Panel(0, Bottom(board.panels), 24, 8, A)
                  EXCEPT !.id = Max(Ids(board.panels)) + 1]
  IN [board EXCEPT !.panels = @ \cup {panel}]

(* A row copied by hand comes without its marker.                          *)
LoseMarker(board) ==
  [board EXCEPT !.panels = {[p EXCEPT !.owned = FALSE] : p \in @}]

EditDemoByHand ==
  /\ \/ Cardinality(demo.panels) < MaxPanels /\ demo' = AddByHand(demo)
     \/ demo' = LoseMarker(demo) /\ demo' # demo
  /\ UNCHANGED <<script, grown, production, main>>

EditProductionByHand ==
  /\ Cardinality(production.panels) < MaxPanels
  /\ production' = AddByHand(production)
  /\ UNCHANGED <<script, grown, demo, main>>

Merge ==
  /\ Green
  /\ main' = Tree(grown, demo, production)
  /\ UNCHANGED <<script, grown, demo, production>>

Discard ==
  /\ grown' = main.grown
  /\ demo' = main.demo
  /\ production' = main.production
  /\ UNCHANGED <<script, main>>

BoardsNext ==
  \/ EditGenerator
  \/ RunForProduction
  \/ RunForDemo
  \/ AddPollOutcomePanels
  \/ EditDemoByHand
  \/ EditProductionByHand
  \/ Merge
  \/ Discard

BoardsSpec == BoardsInit /\ [][BoardsNext]_boardsVars

-----------------------------------------------------------------------------
Overlap(p, q) ==
  /\ p.x < q.x + q.w /\ q.x < p.x + p.w
  /\ p.y < q.y + q.h /\ q.y < p.y + p.h

(* Grafana can show a board: ids name one panel each (links and alert      *)
(* annotations hold them), no panel lies on another, and the queries of a  *)
(* panel have different refIds.                                            *)
Readable(board) ==
  \A p \in board.panels :
    /\ IsInjective(p.refs)
    /\ \A q \in board.panels : p # q => p.id # q.id /\ ~Overlap(p, q)

(* Whatever the order of edits, generator runs and runs of the             *)
(* post-processor, however often, and however far the generator has grown, *)
(* both boards stay readable: add_poll_outcome_panels.py drops what it     *)
(* marked, places row P below what remains, and stops on a clash of ids.   *)
BoardsReadable == Readable(demo) /\ Readable(production)

Owned(board) == {p \in board.panels : p.owned}

ReadsOnly(board, deployment) == \A p \in board.panels : p.of \in {"both", deployment}

(* What the repository says of a merged tree, whatever was run or edited   *)
(* on the way to it: the golden-signals board of the demo has row P once,  *)
(* below everything of its generator, and no other board has it; no board  *)
(* queries what only the other deployment has; the two can be imported     *)
(* into one Grafana; and both are of the same edition of the script.       *)
MergedTreeIsWhole ==
  /\ Cardinality(Owned(main.demo)) = IF script = "golden-signals" THEN 5 ELSE 0
  /\ \A p \in Owned(main.demo) : p.y >= Bottom(Kept(main.demo))
  /\ Owned(main.production) = {}
  /\ ReadsOnly(main.demo, "demo") /\ ReadsOnly(main.production, "production")
  /\ main.demo.uid # main.production.uid
  /\ Bottom(Kept(main.demo)) = Bottom(main.production.panels)
=============================================================================

------------------------------- MODULE MCStream -------------------------------
(***************************************************************************)
(* A session between two desktop apps for TLC.  Whatever a part does alone   *)
(* it also does beside the others: a behaviour picks the part that moves,    *)
(* and the others stay as they began.                                       *)
(***************************************************************************)
EXTENDS Session, TLC

CONSTANTS
    left, right,    \* the monitors that are captured
    p, q            \* the peers a client may meet

TwoMonitors == {left, right}
MCSettings == [rate : {30}, audio : BOOLEAN]
SameMonitorsAndPeers == Permutations(TwoMonitors) \cup Permutations({p, q})

\* A second monitor to the left of the main one, to its right, or of another width.
TwoDisplays == {"main", "second"}
Beside(edge, width) ==
    [s \in TwoDisplays |-> IF s = "main" THEN [left |-> 0, width |-> 6]
                           ELSE [left |-> edge, width |-> width]]
ThreeLayouts == {Beside(0 - 4, 4), Beside(6, 4), Beside(0 - 3, 3)}

\* The other end takes a huge content for invalid.
OwnCopies == [e \in TwoEnds |-> IF e = "viewer" THEN {"note", "huge"} ELSE {"rich", "empty"}]

VARIABLE part       \* the part that moves

partVars == <<part, sessionVars>>
Parts == {"capture", "client", "pointer", "clipboard"}

\* A part that does not move begins in one of its initial states.
PartInit ==
    /\ part \in Parts
    /\ conditions \in {{"inTurn"}, {}, {"capture", "unplug"}}
    /\ surroundings \in {Client!FaultKinds, {"drop", "break", "refuse"}}
    /\ part # "capture" => conditions = {} /\ current = left
    /\ part # "client" => surroundings = Client!FaultKinds
    /\ part # "pointer" =>
        /\ layout = Beside(6, 4) /\ sourcesById = {}
        /\ activeSourceId = "main" /\ videoWidth = 6
    /\ part # "clipboard" => board = [e \in TwoEnds |-> "empty"]
    /\ SessionInit
    /\ part # "capture" => settings.audio
    /\ part # "client" => c.role = "host"
    /\ part # "clipboard" => alone

\* Fewer handlers where they overlap and fail, fewer copies where one user makes them.
WithinBounds ==
    /\ conditions = {} => Len(call) + Len(toHost) <= 3
    /\ "unplug" \in conditions => Len(call) + Len(toHost) <= 2
    /\ alone => copied <= 4

PartNext ==
    /\ \/ part = "capture" /\ CaptureMoves
       \/ part = "client" /\ ClientMoves
       \/ part = "pointer" /\ PointerMoves
       \/ part = "clipboard" /\ ClipboardMoves
    /\ WithinBounds'
    /\ UNCHANGED part

PartSpec == PartInit /\ [][PartNext]_partVars
===============================================================================

---------------------------- MODULE PointerMapping -----------------------------
(***************************************************************************)
(* Where the host's pointer goes when a viewer moves its own over the video:  *)
(* from the video to the stream's pixels, through the check of the message,   *)
(* to the display of the monitor that the viewer sees as active.  One axis is *)
(* modelled; the other has the same operations.                              *)
(***************************************************************************)
EXTENDS Integers, Sequences

CONSTANTS
    Sources,        \* the monitors
    Layouts,        \* how they can be arranged: left edge and width of each
    VideoWidths,    \* widths of the stream in pixels
    Reach,          \* how far the viewer's mouse moves outside the video, or at once
    None,
    MaxChanges      \* bound: so often the layout changes

PointerAssumption ==
    /\ \A layout \in Layouts : \A s \in Sources :
        layout[s].left \in Int /\ layout[s].width \in Nat \ {0}
    /\ VideoWidths \subseteq Nat \ {0} /\ Reach \in Nat /\ MaxChanges \in Nat

VARIABLES
    layout,         \* the displays as the host's system has them
    sourcesById,    \* the monitors the host's main process has listed
    activeSourceId, videoWidth,     \* what the viewer sees
    captured, virtualPointer,       \* the pointer while it is locked
    sent,           \* the move that is under way
    cursor,         \* the host's pointer
    changes

vars == <<layout, sourcesById, activeSourceId, videoWidth, captured, virtualPointer,
          sent, cursor, changes>>

clamp(value, min, max) == IF value < min THEN min ELSE IF value > max THEN max ELSE value
\* Math.round of n / d
Round(n, d) == (2 * n + d) \div (2 * d)

Middle(width) == [x |-> Round(width, 2), screenWidth |-> width]
Move(pointer) == [x |-> pointer.x, screenWidth |-> pointer.screenWidth,
                  sourceId |-> activeSourceId]

Init ==
    /\ layout \in Layouts
    /\ sourcesById \in {{}, Sources}
    /\ activeSourceId \in Sources /\ videoWidth \in VideoWidths
    /\ captured = FALSE /\ virtualPointer = Middle(videoWidth)
    /\ sent = None /\ cursor = 0 /\ changes = 0

-------------------------------------------------------------------------------
\* The viewer

\* A pointer over the video, or outside it while a button is held.
pointerPosition(x) == [x |-> x, screenWidth |-> videoWidth]

PointerMoves ==
    /\ ~captured /\ sent = None
    /\ \E x \in (0 - Reach)..(videoWidth + Reach) : sent' = Move(pointerPosition(x))
    /\ UNCHANGED <<layout, sourcesById, activeSourceId, videoWidth, captured,
                   virtualPointer, cursor, changes>>

Moved(x) == clamp(virtualPointer.x + x, 0, virtualPointer.screenWidth)

handlePointerMove ==
    /\ captured /\ sent = None
    /\ \E x \in (0 - Reach)..Reach :
        virtualPointer' = [virtualPointer EXCEPT !.x = Moved(x)]
    /\ sent' = Move(virtualPointer')
    /\ UNCHANGED <<layout, sourcesById, activeSourceId, videoWidth, captured, cursor,
                   changes>>

Capture(enabled) ==
    /\ captured # enabled /\ captured' = enabled
    /\ virtualPointer' = IF enabled THEN Middle(videoWidth) ELSE virtualPointer
    /\ UNCHANGED <<layout, sourcesById, activeSourceId, videoWidth, sent, cursor, changes>>

\* The active monitor changes at once, its video comes later.
switchRemoteSource(source) ==
    /\ source # activeSourceId /\ activeSourceId' = source
    /\ virtualPointer' = IF captured THEN Middle(videoWidth) ELSE virtualPointer
    /\ UNCHANGED <<layout, sourcesById, videoWidth, captured, sent, cursor, changes>>

\* No loadedmetadata comes for a stream that goes on in another size.
VideoResizes(width) ==
    /\ width # videoWidth /\ videoWidth' = width
    /\ UNCHANGED <<layout, sourcesById, activeSourceId, captured, virtualPointer, sent,
                   cursor, changes>>

-------------------------------------------------------------------------------
\* The host

DisplaysChange(next) ==
    /\ changes < MaxChanges /\ next # layout
    /\ layout' = next /\ changes' = changes + 1
    /\ UNCHANGED <<sourcesById, activeSourceId, videoWidth, captured, virtualPointer,
                   sent, cursor>>

getSources ==
    /\ sourcesById' = Sources
    /\ UNCHANGED <<layout, activeSourceId, videoWidth, captured, virtualPointer, sent,
                   cursor, changes>>

\* The renderer's check of a message, which the main process repeats.
sanitizePointerCoordinates(move) == [move EXCEPT !.x = clamp(move.x, 0, move.screenWidth)]

\* Mutant: the display's left edge is left out.
mapToOrigin(move) ==
    IF move.sourceId \in sourcesById
    THEN Round(move.x * layout[move.sourceId].width, move.screenWidth)
    ELSE move.x

\* The displays are asked for with every message; a monitor that was never
\* listed has no display.
mapControlMessageToDisplay(move) ==
    IF move.sourceId \in sourcesById
    THEN LET display == layout[move.sourceId]
         IN  Round(display.left * move.screenWidth + move.x * display.width,
                   move.screenWidth)
    ELSE move.x

HandleMove ==
    /\ sent # None /\ sent' = None
    /\ cursor' = mapControlMessageToDisplay(sanitizePointerCoordinates(sent))
    /\ UNCHANGED <<layout, sourcesById, activeSourceId, videoWidth, captured,
                   virtualPointer, changes>>

Next ==
    \/ PointerMoves \/ handlePointerMove
    \/ \E enabled \in BOOLEAN : Capture(enabled)
    \/ \E s \in Sources : switchRemoteSource(s)
    \/ \E width \in VideoWidths : VideoResizes(width)
    \/ \E next \in Layouts : DisplaysChange(next)
    \/ getSources \/ HandleMove

Spec == Init /\ [][Next]_vars

-------------------------------------------------------------------------------
Bounds(source) == layout[source]

\* The variables have their types: the virtual pointer is on its stream, whose
\* width it keeps when the video changes.
TypeOK ==
    /\ layout \in Layouts /\ sourcesById \in {{}, Sources}
    /\ activeSourceId \in Sources /\ videoWidth \in VideoWidths /\ captured \in BOOLEAN
    /\ virtualPointer.screenWidth \in VideoWidths
    /\ virtualPointer.x \in 0..virtualPointer.screenWidth
    /\ sent # None => sent.sourceId \in Sources /\ sent.screenWidth \in VideoWidths
    /\ cursor \in Int /\ changes \in 0..MaxChanges

\* What every step preserves: a pointer and a move also have the fields they need.
PointerInv ==
    /\ TypeOK
    /\ virtualPointer \in [x : Nat, screenWidth : VideoWidths]
    /\ sent # None => sent \in [x : Int, screenWidth : VideoWidths, sourceId : Sources]

\* Whatever the video's size, the switches under way and the changes of the
\* displays, a move puts the pointer on the display of the monitor the viewer
\* sees as active, or on the line right after it.
PutNearDisplay ==
    [][(HandleMove /\ sent.sourceId \in sourcesById) =>
        LET display == Bounds(sent.sourceId)
        IN  cursor' \in display.left..(display.left + display.width)]_vars

\* "maps pointer coordinates onto the selected monitor bounds", taken strictly: the
\* pointer is on the display.  The code does not keep this: a move to the far edge of
\* the video goes to the line right after the display.
PutOnDisplay ==
    [][(HandleMove /\ sent.sourceId \in sourcesById) =>
        LET display == Bounds(sent.sourceId)
        IN  cursor' \in display.left..(display.left + display.width - 1)]_vars

=============================================================================

------------------------------ MODULE BackendLog ------------------------------
(***************************************************************************)
(* The log of the embedded backend and its rotation when the app starts:    *)
(* backend.log is number 0, backend.log.1 to .Backups are the older ones.   *)
(* Every call of the file system may throw, and the app may be killed       *)
(* between two of them; either ends the rotation where it stands.           *)
(***************************************************************************)
EXTENDS Naturals

CONSTANTS
    Backups,    \* backendLogBackups
    MaxLogs     \* bound: logs that are begun

BackupsAssumption == Backups \in Nat \ {0} /\ MaxLogs \in Nat

VARIABLES
    log,        \* the log with each number; logs are told apart by their age
    begun,      \* logs begun so far
    big,        \* backend.log has reached maxBytes
    cut,        \* a rotation ended early, and the numbers were not all taken since
    at          \* what rotateBackendLog does next: the number it moves up

vars == <<log, begun, big, cut, at>>

NoLog == 0
Idle == Backups + 1
Numbers == 0 .. Backups

TypeOK ==
    /\ log \in [Numbers -> 0 .. MaxLogs]
    /\ begun \in 0 .. MaxLogs
    /\ big \in BOOLEAN /\ cut \in BOOLEAN
    /\ at \in 0 .. Idle

Init ==
    /\ log = [n \in Numbers |-> NoLog]
    /\ begun = 0
    /\ big = FALSE /\ cut = FALSE
    /\ at = Idle

\* The backend writes to its log; the first line creates it.
Write ==
    /\ at = Idle
    /\ log[0] = NoLog => begun < MaxLogs
    /\ log' = IF log[0] = NoLog THEN [log EXCEPT ![0] = begun + 1] ELSE log
    /\ begun' = IF log[0] = NoLog THEN begun + 1 ELSE begun
    /\ big' \in {big, TRUE}
    /\ cut' = (cut /\ \E n \in Numbers : log'[n] = NoLog)
    /\ UNCHANGED at

\* The app starts: rotateBackendLog has nothing to do, or begins.
StartRotation ==
    /\ at = Idle /\ log[0] # NoLog /\ big
    /\ at' = Backups
    /\ UNCHANGED <<log, begun, big, cut>>

\* rename of one backup to the next number.
MoveUp ==
    /\ at \in 1 .. Backups - 1
    /\ log' = IF log[at] = NoLog THEN log
               ELSE [log EXCEPT ![at + 1] = log[at], ![at] = NoLog]
    /\ at' = at - 1
    /\ UNCHANGED <<begun, big, cut>>

UnlinkOldest ==
    /\ at = Backups
    /\ log' = [log EXCEPT ![Backups] = NoLog]
    /\ at' = at - 1
    /\ UNCHANGED <<begun, big, cut>>

MoveCurrent ==
    /\ at = 0
    /\ log' = [log EXCEPT ![1] = log[0], ![0] = NoLog]
    /\ big' = FALSE
    /\ at' = Idle
    /\ UNCHANGED <<begun, cut>>

\* A call throws and is caught, or the app is killed.
RotationEnds ==
    /\ at # Idle
    /\ at' = Idle /\ cut' = (\E n \in Numbers : log[n] = NoLog)
    /\ UNCHANGED <<log, begun, big>>

Next == Write \/ StartRotation \/ MoveUp \/ UnlinkOldest \/ MoveCurrent \/ RotationEnds

Spec == Init /\ [][Next]_vars

-------------------------------------------------------------------------------

\* The higher the number the older the log, also after rotations that ended
\* half-way.
OlderHasHigherNumber ==
    \A m, n \in Numbers : m < n /\ log[m] # NoLog /\ log[n] # NoLog => log[n] < log[m]

\* No log is on two numbers, none is on a number that was never begun.
LogInv ==
    /\ TypeOK
    /\ OlderHasHigherNumber
    /\ \A n \in Numbers : log[n] <= begun

\* While the logs are moved up, the number that the next one goes to is free.
RoomAbove == at < Backups => log[at + 1] = NoLog

\* The number that is free while the logs are moved up; Idle stands for none.
Hole == IF at = Idle THEN 0 ELSE IF at = Backups THEN Idle ELSE at + 1

\* Unless a rotation ended early, the logs have the lowest numbers.
NoGap ==
    cut \/ \A m, n \in Numbers : m < n /\ log[n] # NoLog /\ m # Hole => log[m] # NoLog

\* The inductive invariant behind LogInv and OnlyOldestIsLost.
RotationInv == LogInv /\ RoomAbove /\ NoGap

\* Nothing is overwritten: a log disappears only as the oldest of a full set, or
\* with the highest number after a rotation that ended early left a lower one free.
OnlyOldestIsLost ==
    [][\A n \in Numbers :
        log[n] # NoLog /\ (\A m \in Numbers : log'[m] # log[n])
            => n = Backups /\ (cut \/ \A m \in Numbers : log[m] # NoLog)]_vars

===============================================================================

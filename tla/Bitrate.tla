------------------------------- MODULE Bitrate ---------------------------------
(***************************************************************************)
(* The statistics a host polls every second and the video bitrate it derives *)
(* from them.  Bitrates are in kbit/s; a change below 150 is not made, and    *)
(* three seconds pass between two changes.                                   *)
(***************************************************************************)
EXTENDS Integers

CONSTANTS
    FrameRates,
    InitialRate,
    MaxFaults       \* bound: so often a connection is lost or a rate changed

BitrateAssumption ==
    /\ FrameRates \subseteq {15, 30, 60} /\ InitialRate \in FrameRates
    /\ MaxFaults \in Nat

VARIABLES
    captureMode,    \* "desktop" or "game", for as long as the host runs
    link,       \* the peer connection: "none", "connected" or "broken"
    polling,    \* the statistics timer
    report,     \* getStats in flight: "none", "fresh", or "stale" after a stop
    sampled,    \* there is a previousStatsSample
    network,    \* what the statistics show
    waited,     \* seconds since the last change
    rate, bitrate,  \* currentFrameRate, currentVideoBitrate
    recapturing,    \* a change of the frame rate waits for its capture
    encoder,    \* the parameters of the video sender
    faults

vars == <<captureMode, link, polling, report, sampled, network, waited, rate,
          bitrate, recapturing, encoder, faults>>

Networks == {"good", "fair", "lossy", "bad"}
Step == 150
Pause == 3

getMinVideoBitrate == IF captureMode = "game" THEN 2500 ELSE 1200
getMaxVideoBitrate(fps) == ((IF captureMode = "game" THEN 15000 ELSE 8000) * fps) \div 30
getInitialVideoBitrate(fps) == (getMaxVideoBitrate(fps) * 3) \div 4

clamp(value, low, high) ==
    IF value < low THEN low ELSE IF value > high THEN high ELSE value
Limited(value, fps) == clamp(value, getMinVideoBitrate, getMaxVideoBitrate(fps))

NoEncoder == [maxBitrate |-> 0, maxFramerate |-> 0]

Init ==
    /\ captureMode \in {"desktop", "game"}
    /\ link = "none" /\ polling = FALSE /\ report = "none" /\ sampled = FALSE
    /\ network \in Networks /\ waited = Pause
    /\ rate = InitialRate /\ bitrate = getInitialVideoBitrate(InitialRate)
    /\ recapturing = FALSE /\ encoder = NoEncoder /\ faults = 0

-------------------------------------------------------------------------------
\* Adaptation

wantedBitrate(current) ==
    CASE network = "bad" -> (current * 72) \div 100
      [] network = "lossy" -> (current * 86) \div 100
      [] network = "good" -> (current * 108) \div 100
      [] OTHER -> current

applyVideoEncoderParams(wanted, fps) ==
    /\ bitrate' = Limited(wanted, fps)
    /\ encoder' = [maxBitrate |-> Limited(wanted, fps), maxFramerate |-> fps]

\* Mutant: a change has to be twice as large.
adaptInLargeSteps ==
    LET next == Limited(wantedBitrate(bitrate), rate)
    IN  IF waited < Pause \/ (next - bitrate < 2 * Step /\ bitrate - next < 2 * Step)
        THEN UNCHANGED <<bitrate, encoder, waited>>
        ELSE waited' = 0 /\ applyVideoEncoderParams(next, rate)

adaptVideoBitrate ==
    LET next == Limited(wantedBitrate(bitrate), rate)
    IN  IF waited < Pause \/ (next - bitrate < Step /\ bitrate - next < Step)
        THEN UNCHANGED <<bitrate, encoder, waited>>
        ELSE waited' = 0 /\ applyVideoEncoderParams(next, rate)

-------------------------------------------------------------------------------
\* Polling

collectStats ==
    /\ polling /\ link = "connected" /\ report = "none"
    /\ report' = "fresh"
    /\ waited' = IF waited < Pause THEN waited + 1 ELSE waited
    /\ UNCHANGED <<captureMode, link, polling, sampled, network, rate, bitrate, recapturing,
                   encoder, faults>>

\* Mutant: what was asked of an earlier connection is taken too.
StatsArriveLate ==
    /\ report # "none"
    /\ report' = "none"
    /\ sampled' = TRUE
    /\ IF sampled THEN adaptVideoBitrate ELSE UNCHANGED <<bitrate, encoder, waited>>
    /\ UNCHANGED <<captureMode, link, polling, network, rate, recapturing, faults>>

\* The first sample of a connection has nothing to be compared with.
StatsArrive ==
    /\ report # "none"
    /\ report' = "none"
    /\ IF report = "fresh" /\ link = "connected"
       THEN /\ sampled' = TRUE
            /\ IF sampled THEN adaptVideoBitrate ELSE UNCHANGED <<bitrate, encoder, waited>>
       ELSE UNCHANGED <<sampled, bitrate, encoder, waited>>
    /\ UNCHANGED <<captureMode, link, polling, network, rate, recapturing, faults>>

Outdated == IF report = "none" THEN "none" ELSE "stale"

startStatsPolling == polling' = TRUE /\ report' = Outdated
stopStatsPolling == polling' = FALSE /\ report' = Outdated

-------------------------------------------------------------------------------
\* The connection and the viewer

Connected ==
    /\ link # "connected"
    /\ link' = "connected"
    /\ startStatsPolling
    /\ applyVideoEncoderParams(bitrate, rate)
    /\ UNCHANGED <<captureMode, sampled, network, waited, rate, recapturing, faults>>

LinkBreaks ==
    /\ link = "connected" /\ faults < MaxFaults
    /\ link' = "broken" /\ faults' = faults + 1
    /\ UNCHANGED <<captureMode, polling, report, sampled, network, waited, rate, bitrate,
                   recapturing, encoder>>

resetPeerConnection ==
    /\ link # "none" /\ faults < MaxFaults
    /\ link' = "none" /\ faults' = faults + 1
    /\ stopStatsPolling
    /\ sampled' = FALSE /\ encoder' = NoEncoder
    /\ UNCHANGED <<captureMode, network, waited, rate, bitrate, recapturing>>

ChangeFrameRate(fps) ==
    /\ link = "connected" /\ fps # rate /\ faults < MaxFaults
    /\ faults' = faults + 1
    /\ rate' = fps
    /\ bitrate' = IF bitrate > getMaxVideoBitrate(fps) THEN getMaxVideoBitrate(fps)
                  ELSE bitrate
    /\ recapturing' = TRUE
    /\ UNCHANGED <<captureMode, link, polling, report, sampled, network, waited, encoder>>

Recaptured ==
    /\ recapturing
    /\ recapturing' = FALSE
    /\ IF link = "none" THEN UNCHANGED <<bitrate, encoder>>
       ELSE applyVideoEncoderParams(bitrate, rate)
    /\ UNCHANGED <<captureMode, link, polling, report, sampled, network, waited, rate, faults>>

NetworkChanges ==
    /\ faults < MaxFaults
    /\ faults' = faults + 1
    /\ network' \in Networks \ {network}
    /\ UNCHANGED <<captureMode, link, polling, report, sampled, waited, rate, bitrate,
                   recapturing, encoder>>

Next ==
    \/ collectStats \/ StatsArrive
    \/ Connected \/ LinkBreaks \/ resetPeerConnection
    \/ \E fps \in FrameRates : ChangeFrameRate(fps)
    \/ Recaptured \/ NetworkChanges

Spec == Init /\ [][Next]_vars
FairSpec == Spec /\ WF_vars(collectStats) /\ WF_vars(StatsArrive)
                 /\ WF_vars(Connected) /\ WF_vars(Recaptured)

-------------------------------------------------------------------------------

TypeOK ==
    /\ captureMode \in {"desktop", "game"}
    /\ link \in {"none", "connected", "broken"} /\ polling \in BOOLEAN
    /\ report \in {"none", "fresh", "stale"} /\ sampled \in BOOLEAN
    /\ network \in Networks /\ waited \in 0..Pause
    /\ rate \in FrameRates /\ bitrate \in Nat /\ recapturing \in BOOLEAN
    /\ encoder \in [maxBitrate : Nat, maxFramerate : FrameRates \cup {0}]

\* A connection is not measured against a sample of an earlier one.
SamplesOfConnection == link = "none" => ~sampled

\* Apart from the time a new capture takes, the encoder of a connection has the
\* bitrate and the frame rate of now, and the bitrate is one the mode allows.
EncoderFollows ==
    link = "connected" /\ ~recapturing =>
        /\ encoder = [maxBitrate |-> bitrate, maxFramerate |-> rate]
        /\ bitrate \in getMinVideoBitrate..getMaxVideoBitrate(rate)

\* When the network stays bad the bitrate comes down to the least, but for a
\* step that is too small to make.
ComesDown == <>[](network = "bad") => <>[](bitrate < getMinVideoBitrate + Step)

\* So low that the 8% more that a good network gives are no change to make.
TooLowToGrow == (bitrate * 108) \div 100 - bitrate < Step

\* When the network stays good the bitrate comes back to the most, but for a step
\* that is too small to make: always in "game", however far down it was; in
\* "desktop" unless it came so far down that it stays there.
ComesBack ==
    <>[](network = "good") =>
        \/ <>[](bitrate > getMaxVideoBitrate(rate) - Step)
        \/ captureMode = "desktop" /\ <>[]TooLowToGrow

===============================================================================

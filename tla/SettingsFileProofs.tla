--------------------------- MODULE SettingsFileProofs ---------------------------
(***************************************************************************)
(* A settings file keeps what was reported as saved, for any fields and any  *)
(* number of calls that overlap, fail or are killed.                        *)
(***************************************************************************)
EXTENDS SettingsFile, TLAPS

\* What a field holds is one of the values there are.
LEMMA StoredIsAny ==
  /\ \A f \in Fields : Stored[f] \subseteq AnyStored
  /\ Unset \in AnyStored /\ Unset \in AnyInput /\ Keep \in AnyInput
<1>1. ASSUME NEW f \in Fields PROVE Stored[f] \subseteq AnyStored
  <2>1. Stored[f] \in {Stored[g] : g \in Fields}
    OBVIOUS
  <2>2. QED
    BY <2>1 DEF AnyStored
<1>2. Unset \in AnyStored
  BY DEF AnyStored
<1>3. Unset \in AnyInput /\ Keep \in AnyInput
  BY DEF AnyInput
<1>4. QED
  BY <1>1, <1>2, <1>3

LEMMA UnsetAllowed == Nothing \in Contents /\ NoChange \in Patches
<1>1. Nothing \in [Fields -> AnyStored] /\ \A f \in Fields : Nothing[f] = Unset
  BY StoredIsAny DEF Nothing
<1>2. NoChange \in [Fields -> AnyInput] /\ \A f \in Fields : NoChange[f] = Keep
  BY StoredIsAny DEF NoChange
<1>3. QED
  BY <1>1, <1>2 DEF Contents, Patches

LEMMA NoUpdateType ==
  NoUpdate \in [phase : {"idle"}, patch : Patches, read : Contents, stale : {FALSE}]
BY UnsetAllowed DEF NoUpdate

\* A change of settings leaves settings.
LEMMA ChangedIsContent ==
  ASSUME SettingsFileAssumption, NEW content \in Contents, NEW patch \in Patches
  PROVE  /\ Changed(content, patch) \in Contents
         /\ \A f \in Fields :
              /\ patch[f] = Keep => Changed(content, patch)[f] = content[f]
              /\ patch[f] = Unset => Changed(content, patch)[f] = Unset
              /\ patch[f] \in Inputs[f] =>
                    Changed(content, patch)[f] = NewValue(f, patch[f], content[f])
<1> DEFINE next == Changed(content, patch)
<1>1. next = [f \in Fields |-> IF patch[f] = Keep THEN content[f]
                               ELSE IF patch[f] = Unset THEN Unset
                               ELSE NewValue(f, patch[f], content[f])]
  BY DEF Changed
<1>2. ASSUME NEW f \in Fields
      PROVE  /\ patch[f] = Keep => next[f] = content[f]
             /\ patch[f] = Unset => next[f] = Unset
             /\ patch[f] \in Inputs[f] => next[f] = NewValue(f, patch[f], content[f])
             /\ next[f] \in Stored[f] \cup {Unset}
  <2>1. patch[f] \in Inputs[f] \cup {Unset, Keep} /\ content[f] \in Stored[f] \cup {Unset}
    BY DEF Patches, Contents
  <2>2. /\ Keep \notin Inputs[f] /\ Unset \notin Inputs[f] /\ Keep # Unset
        /\ \A v \in Inputs[f] : NewValue(f, v, content[f]) \in Stored[f]
    BY <2>1 DEF SettingsFileAssumption
  <2>3. CASE patch[f] = Keep
    BY <1>1, <2>1, <2>2, <2>3
  <2>4. CASE patch[f] = Unset
    BY <1>1, <2>1, <2>2, <2>4
  <2>5. CASE patch[f] \in Inputs[f]
    BY <1>1, <2>1, <2>2, <2>5
  <2>6. QED
    BY <2>1, <2>3, <2>4, <2>5
<1>3. next \in Contents
  <2>1. \A f \in Fields : next[f] \in AnyStored
    BY <1>2, StoredIsAny
  <2>2. next \in [Fields -> AnyStored]
    BY <1>1, <2>1
  <2>3. QED
    BY <1>2, <2>2 DEF Contents
<1>4. QED
  BY <1>2, <1>3

LEMMA FileStarts ==
  ASSUME NEW initial \in Contents, FileInit(initial)
  PROVE  FileInv
<1>1. /\ file = [state |-> "whole", content |-> initial] /\ wanted = initial /\ atRisk = {}
      /\ \A c \in Calls : op[c] = NoUpdate /\ NoUpdate.phase = "idle"
  BY DEF FileInit, NoUpdate
<1>2. FileTypeOK
  <2>1. NoUpdate \in [phase : {"idle", "begun", "read", "open"}, patch : Patches,
                     read : Contents, stale : BOOLEAN]
    BY NoUpdateType
  <2>2. file \in [state : {"whole", "empty", "torn"}, content : Contents]
    BY <1>1
  <2>3. QED
    BY <1>1, <2>1, <2>2 DEF FileInit, FileTypeOK
<1>3. UpdatesSurvive
  BY <1>1 DEF UpdatesSurvive, readSettings
<1>4. Open = {} /\ \A c \in Calls : op[c].phase \notin {"read", "open"}
  BY <1>1 DEF Open
<1>5. QED
  BY <1>2, <1>3, <1>4 DEF FileInv

\* A call that is made has not read anything yet.
LEMMA BeginStep ==
  ASSUME FileInv, NEW started, \A c \in DOMAIN started : started[c] \in Patches, Begin(started)
  PROVE  FileInv'
<1>1. FileTypeOK /\ UNCHANGED <<file, wanted, atRisk>>
  BY DEF FileInv, Begin
<1>2. ASSUME NEW c \in Calls
      PROVE  \/ op'[c] = op[c]
             \/ /\ op'[c] \in [phase : {"begun"}, patch : Patches, read : Contents,
                               stale : BOOLEAN]
                /\ op[c].phase = "idle"
  <2>1. CASE c \in DOMAIN started
    <3>1. op'[c] = [NoUpdate EXCEPT !.phase = "begun", !.patch = started[c]]
      BY <2>1 DEF Begin
    <3>2. QED
      BY <2>1, <3>1, NoUpdateType DEF Begin, Idle
  <2>2. CASE c \notin DOMAIN started
    BY <2>2 DEF Begin
  <2>3. QED
    BY <2>1, <2>2
<1>3. FileTypeOK'
  <2>1. op' = [c \in Calls |-> op'[c]]
    BY DEF Begin
  <2>2. \A c \in Calls : op'[c] \in [phase : {"idle", "begun", "read", "open"},
                                     patch : Patches, read : Contents, stale : BOOLEAN]
    BY <1>1, <1>2 DEF FileTypeOK
  <2>3. QED
    BY <1>1, <2>1, <2>2 DEF FileTypeOK, Contents, Patches
<1>4. \A c \in Calls : op'[c].phase \in {"read", "open"} => op'[c] = op[c]
  BY <1>2
<1>5. Open' = Open
  BY <1>2 DEF Open
<1>6. UpdatesSurvive'
  BY <1>1, <1>5 DEF FileInv, UpdatesSurvive, readSettings
<1>7. QED
  BY <1>1, <1>3, <1>4, <1>5, <1>6 DEF FileInv, Open

\* One call goes on: it and the file are as they should be, and the others stay.
LEMMA OneCall ==
  ASSUME FileTypeOK, NEW c \in Calls, NEW new, op' = [op EXCEPT ![c] = new],
         new \in [phase : {"idle", "begun", "read", "open"}, patch : Patches,
                 read : Contents, stale : BOOLEAN],
         file' \in [state : {"whole", "empty", "torn"}, content : Contents],
         wanted' \in Contents, atRisk' \in SUBSET Fields
  PROVE  /\ FileTypeOK'
         /\ op'[c] = new /\ \A d \in Calls : d # c => op'[d] = op[d]
         /\ Open' = IF new.phase = "open" THEN Open \cup {c} ELSE Open \ {c}
<1>1. op \in [Calls -> [phase : {"idle", "begun", "read", "open"}, patch : Patches,
                       read : Contents, stale : BOOLEAN]]
  BY DEF FileTypeOK
<1>2. op'[c] = new /\ \A d \in Calls : d # c => op'[d] = op[d]
  BY <1>1
<1>3. FileTypeOK'
  BY <1>1 DEF FileTypeOK, Contents, Patches
<1>4. QED
  BY <1>2, <1>3 DEF Open

LEMMA Readable == FileTypeOK => readSettings \in Contents
BY UnsetAllowed DEF FileTypeOK, readSettings

LEMMA ReadStep ==
  ASSUME FileInv, NEW c \in Calls, ReadFile(c)
  PROVE  FileInv'
<1> DEFINE new == [op[c] EXCEPT !.phase = "read", !.read = readSettings,
                                !.stale = (Open # {})]
<1>1. FileTypeOK /\ UNCHANGED <<file, wanted, atRisk>> /\ op' = [op EXCEPT ![c] = new]
  BY DEF FileInv, ReadFile
<1>2. /\ op[c] \in [phase : {"idle", "begun", "read", "open"}, patch : Patches,
                   read : Contents, stale : BOOLEAN]
      /\ op[c].phase = "begun"
  BY <1>1 DEF FileTypeOK, ReadFile
<1>3. /\ new \in [phase : {"idle", "begun", "read", "open"}, patch : Patches,
                 read : Contents, stale : BOOLEAN]
      /\ new.phase = "read" /\ new.read = readSettings /\ new.stale = (Open # {})
  BY <1>1, <1>2, Readable
<1> HIDE DEF new
<1>4. /\ FileTypeOK'
      /\ op'[c] = new /\ \A d \in Calls : d # c => op'[d] = op[d]
      /\ Open' = Open /\ c \notin Open
  <2>1. c \notin Open
    BY <1>2 DEF Open
  <2>2. file' \in [state : {"whole", "empty", "torn"}, content : Contents]
        /\ wanted' \in Contents /\ atRisk' \in SUBSET Fields
    BY <1>1 DEF FileTypeOK
  <2>3. /\ FileTypeOK'
        /\ op'[c] = new /\ \A d \in Calls : d # c => op'[d] = op[d]
        /\ Open' = IF new.phase = "open" THEN Open \cup {c} ELSE Open \ {c}
    BY <1>1, <1>3, <2>2, OneCall
  <2>4. QED
    BY <1>3, <2>1, <2>3
<1>5. UpdatesSurvive /\ UpdatesSurvive'
  BY <1>1, <1>4 DEF FileInv, UpdatesSurvive, readSettings
<1>6. ASSUME NEW d \in Calls, op'[d].phase \in {"read", "open"}, ~op'[d].stale
      PROVE  /\ Open' \subseteq {d}
             /\ \A f \in Fields \ atRisk' : op'[d].read[f] = wanted'[f]
  <2>1. CASE d = c
    BY <1>1, <1>3, <1>4, <1>5, <1>6, <2>1 DEF UpdatesSurvive
  <2>2. CASE d # c
    BY <1>1, <1>4, <1>6, <2>2 DEF FileInv
  <2>3. QED
    BY <2>1, <2>2
<1>7. \A d \in Open' : IF op'[d].stale THEN atRisk' = Fields ELSE file'.state = "empty"
  <2>1. Open \subseteq Calls
    BY DEF Open
  <2>2. QED
    BY <1>1, <1>4, <2>1 DEF FileInv
<1>8. QED
  BY <1>4, <1>5, <1>6, <1>7 DEF FileInv

LEMMA OpenStep ==
  ASSUME FileInv, NEW c \in Calls, OpenFile(c)
  PROVE  FileInv'
<1>1. /\ FileTypeOK /\ op[c].phase = "read" /\ wanted' = wanted
      /\ file' = [state |-> "empty", content |-> Nothing]
      /\ atRisk' = IF op[c].stale THEN Fields ELSE atRisk
  BY DEF FileInv, OpenFile
<1>2. op \in [Calls -> [phase : {"idle", "begun", "read", "open"}, patch : Patches,
                       read : Contents, stale : BOOLEAN]]
  BY <1>1 DEF FileTypeOK
<1>3. /\ op'[c].phase = "open" /\ op'[c].read = op[c].read /\ op'[c].stale = op[c].stale
      /\ op'[c].patch = op[c].patch
      /\ op'[c] \in [phase : {"idle", "begun", "read", "open"}, patch : Patches,
                     read : Contents, stale : BOOLEAN]
  BY <1>1, <1>2 DEF OpenFile
<1>4. ASSUME NEW d \in Calls, d # c
      PROVE  /\ op'[d].phase = op[d].phase
             /\ op'[d].phase \in {"read", "open"} => op'[d].stale = TRUE
             /\ op'[d] \in [phase : {"idle", "begun", "read", "open"}, patch : Patches,
                            read : Contents, stale : BOOLEAN]
  BY <1>1, <1>2, <1>4 DEF OpenFile
<1>5. Open' = Open \cup {c}
  BY <1>3, <1>4 DEF Open
<1>6. FileTypeOK'
  <2>1. op' = [d \in Calls |-> op'[d]]
    BY DEF OpenFile
  <2>2. \A d \in Calls : op'[d] \in [phase : {"idle", "begun", "read", "open"},
                                     patch : Patches, read : Contents, stale : BOOLEAN]
    BY <1>3, <1>4
  <2>3. file' \in [state : {"whole", "empty", "torn"}, content : Contents]
        /\ atRisk' \in SUBSET Fields
    BY <1>1, UnsetAllowed DEF FileTypeOK
  <2>4. QED
    BY <1>1, <2>1, <2>2, <2>3 DEF FileTypeOK, Contents, Patches
<1>7. ASSUME NEW d \in Calls, op'[d].phase \in {"read", "open"}, ~op'[d].stale
      PROVE  /\ Open' \subseteq {d}
             /\ \A f \in Fields \ atRisk' : op'[d].read[f] = wanted'[f]
  <2>1. d = c
    BY <1>4, <1>7
  <2>2. Open \subseteq {c} /\ \A f \in Fields \ atRisk : op[c].read[f] = wanted[f]
    BY <1>1, <1>3, <1>7, <2>1 DEF FileInv
  <2>3. QED
    BY <1>1, <1>3, <1>5, <1>7, <2>1, <2>2
<1>8. ASSUME NEW d \in Open'
      PROVE  IF op'[d].stale THEN atRisk' = Fields ELSE file'.state = "empty"
  <2>1. CASE d = c
    BY <1>1, <1>3, <2>1
  <2>2. CASE d # c
    <3>1. d \in Calls /\ op'[d].stale /\ d \in Open
      BY <1>4, <1>5, <1>8, <2>2 DEF Open
    <3>2. CASE op[c].stale
      BY <1>1, <3>1, <3>2
    <3>3. CASE ~op[c].stale
      BY <1>1, <2>2, <3>1, <3>3 DEF FileInv
    <3>4. QED
      BY <3>2, <3>3
  <2>3. QED
    BY <2>1, <2>2
<1>9. UpdatesSurvive'
  BY <1>5 DEF UpdatesSurvive
<1>10. QED
  BY <1>6, <1>7, <1>8, <1>9 DEF FileInv

LEMMA WriteStep ==
  ASSUME SettingsFileAssumption, FileInv, NEW c \in Calls, WriteFile(c)
  PROVE  FileInv'
<1> DEFINE next == Changed(op[c].read, op[c].patch)
<1>1. /\ FileTypeOK /\ op[c].phase = "open" /\ c \in Open
      /\ op' = [op EXCEPT ![c] = NoUpdate]
      /\ wanted' = [f \in Fields |-> IF op[c].patch[f] = Keep THEN wanted[f] ELSE next[f]]
      /\ atRisk' = IF op[c].stale THEN atRisk ELSE atRisk \ Patched(op[c].patch)
      /\ \/ file' = [state |-> "whole", content |-> next]
         \/ file.state # "empty" /\ file' = [state |-> "torn", content |-> Nothing]
  BY DEF FileInv, WriteFile, Reported, Open
<1>2. /\ op[c].patch \in Patches /\ op[c].read \in Contents /\ op[c].stale \in BOOLEAN
      /\ wanted \in Contents /\ atRisk \in SUBSET Fields
  BY <1>1 DEF FileTypeOK
<1>3. next \in Contents /\ \A f \in Fields : op[c].patch[f] = Keep => next[f] = op[c].read[f]
  BY <1>2, ChangedIsContent
<1> HIDE DEF next
<1>4. wanted' \in Contents
  <2>1. \A f \in Fields : wanted'[f] \in {wanted[f], next[f]}
    BY <1>1
  <2>2. \A f \in Fields : wanted'[f] \in Stored[f] \cup {Unset} /\ wanted'[f] \in AnyStored
    BY <1>2, <1>3, <2>1 DEF Contents
  <2>3. wanted' = [f \in Fields |-> wanted'[f]]
    BY <1>1
  <2>4. wanted' \in [Fields -> AnyStored]
    BY <2>2, <2>3
  <2>5. QED
    BY <2>2, <2>4 DEF Contents
<1>5. /\ FileTypeOK'
      /\ op'[c] = NoUpdate /\ NoUpdate.phase = "idle"
      /\ \A d \in Calls : d # c => op'[d] = op[d]
      /\ Open' = Open \ {c}
  <2>1. NoUpdate \in [phase : {"idle", "begun", "read", "open"}, patch : Patches,
                     read : Contents, stale : BOOLEAN] /\ NoUpdate.phase = "idle"
    BY NoUpdateType
  <2>2. file' \in [state : {"whole", "empty", "torn"}, content : Contents]
        /\ atRisk' \in SUBSET Fields
    BY <1>1, <1>2, <1>3, UnsetAllowed
  <2>3. /\ FileTypeOK'
        /\ op'[c] = NoUpdate /\ \A d \in Calls : d # c => op'[d] = op[d]
        /\ Open' = IF NoUpdate.phase = "open" THEN Open \cup {c} ELSE Open \ {c}
    BY <1>1, <1>4, <2>1, <2>2, OneCall
  <2>4. QED
    BY <2>1, <2>3
<1>6. CASE op[c].stale
  <2>1. atRisk = Fields /\ atRisk' = Fields
    BY <1>1, <1>6 DEF FileInv
  <2>2. ASSUME NEW d \in Calls, op'[d].phase \in {"read", "open"}, ~op'[d].stale
        PROVE  FALSE
    <3>1. d # c /\ op'[d] = op[d]
      BY <1>5, <2>2
    <3>2. Open \subseteq {d}
      BY <2>2, <3>1 DEF FileInv
    <3>3. QED
      BY <1>1, <3>1, <3>2
  <2>3. \A d \in Open' : op'[d].stale
    BY <1>5, <2>2 DEF FileTypeOK, Open
  <2>4. UpdatesSurvive'
    BY <2>1 DEF UpdatesSurvive
  <2>5. QED
    BY <1>5, <2>1, <2>2, <2>3, <2>4 DEF FileInv
<1>7. CASE ~op[c].stale
  <2>1. /\ Open = {c} /\ Open' = {} /\ file.state = "empty"
        /\ \A f \in Fields \ atRisk : op[c].read[f] = wanted[f]
    BY <1>1, <1>5, <1>7 DEF FileInv
  <2>2. file' = [state |-> "whole", content |-> next]
    BY <1>1, <2>1
  <2>3. ASSUME NEW f \in Fields \ atRisk'
        PROVE  next[f] = wanted'[f]
    <3>1. CASE op[c].patch[f] = Keep
      BY <1>1, <1>3, <1>7, <2>1, <2>3, <3>1 DEF Patched
    <3>2. CASE op[c].patch[f] # Keep
      BY <1>1, <3>2
    <3>3. QED
      BY <3>1, <3>2
  <2>4. UpdatesSurvive'
    BY <2>2, <2>3 DEF UpdatesSurvive, readSettings
  <2>5. ASSUME NEW d \in Calls, op'[d].phase \in {"read", "open"}, ~op'[d].stale
        PROVE  FALSE
    <3>1. d # c /\ op'[d] = op[d]
      BY <1>5, <2>5
    <3>2. Open \subseteq {d}
      BY <2>5, <3>1 DEF FileInv
    <3>3. QED
      BY <1>1, <3>1, <3>2
  <2>6. QED
    BY <1>5, <2>1, <2>4, <2>5 DEF FileInv
<1>8. QED
  BY <1>2, <1>6, <1>7

\* Where calls end that are in the middle of a write, nothing is promised.
LEMMA FailStep ==
  ASSUME FileInv, NEW c \in Calls, UpdateFails(c)
  PROVE  FileInv'
<1>1. /\ FileTypeOK /\ op' = [op EXCEPT ![c] = NoUpdate] /\ wanted' = wanted
      /\ IF {c} \cap Open = {} THEN UNCHANGED <<file, atRisk>>
         ELSE /\ file' \in {file, [state |-> "torn", content |-> Nothing]}
              /\ atRisk' = Fields
  BY DEF FileInv, UpdateFails, GivenUp
<1>2. /\ FileTypeOK'
      /\ op'[c] = NoUpdate /\ NoUpdate.phase = "idle"
      /\ \A d \in Calls : d # c => op'[d] = op[d]
      /\ Open' = Open \ {c}
  <2>1. NoUpdate \in [phase : {"idle", "begun", "read", "open"}, patch : Patches,
                     read : Contents, stale : BOOLEAN] /\ NoUpdate.phase = "idle"
    BY NoUpdateType
  <2>2. /\ file' \in [state : {"whole", "empty", "torn"}, content : Contents]
        /\ atRisk' \in SUBSET Fields /\ wanted' \in Contents
    BY <1>1, UnsetAllowed DEF FileTypeOK
  <2>3. /\ FileTypeOK'
        /\ op'[c] = NoUpdate /\ \A d \in Calls : d # c => op'[d] = op[d]
        /\ Open' = IF NoUpdate.phase = "open" THEN Open \cup {c} ELSE Open \ {c}
    BY <1>1, <2>1, <2>2, OneCall
  <2>4. QED
    BY <2>1, <2>3
<1>3. ASSUME NEW d \in Calls, op'[d].phase \in {"read", "open"}
      PROVE  d # c /\ op'[d] = op[d]
  BY <1>2, <1>3
<1>4. CASE c \notin Open
  <2>1. Open' = Open /\ UNCHANGED <<file, atRisk, wanted>>
    BY <1>1, <1>2, <1>4
  <2>2. UpdatesSurvive'
    BY <2>1 DEF FileInv, UpdatesSurvive, readSettings
  <2>3. \A d \in Open : d \in Calls /\ d # c
    BY <1>4 DEF Open
  <2>4. QED
    BY <1>2, <1>3, <2>1, <2>2, <2>3 DEF FileInv
<1>5. CASE c \in Open
  <2>1. atRisk' = Fields
    BY <1>1, <1>5
  <2>2. ASSUME NEW d \in Calls, op'[d].phase \in {"read", "open"}, ~op'[d].stale
        PROVE  FALSE
    <3>1. Open \subseteq {d} /\ d # c
      BY <1>3, <2>2 DEF FileInv
    <3>2. QED
      BY <1>5, <3>1
  <2>3. \A d \in Open' : op'[d].stale
    BY <1>2, <2>2 DEF FileTypeOK, Open
  <2>4. UpdatesSurvive'
    BY <2>1 DEF UpdatesSurvive
  <2>5. QED
    BY <1>2, <2>1, <2>2, <2>3, <2>4 DEF FileInv
<1>6. QED
  BY <1>4, <1>5

LEMMA RestartStep ==
  ASSUME FileInv, AppRestarts
  PROVE  FileInv'
<1>1. /\ FileTypeOK /\ op' = [c \in Calls |-> NoUpdate] /\ wanted' = wanted
      /\ IF Calls \cap Open = {} THEN UNCHANGED <<file, atRisk>>
         ELSE /\ file' \in {file, [state |-> "torn", content |-> Nothing]}
              /\ atRisk' = Fields
  BY DEF FileInv, AppRestarts, GivenUp
<1>2. NoUpdate \in [phase : {"idle", "begun", "read", "open"}, patch : Patches,
                   read : Contents, stale : BOOLEAN] /\ NoUpdate.phase = "idle"
  BY NoUpdateType
<1>3. /\ file' \in [state : {"whole", "empty", "torn"}, content : Contents]
      /\ atRisk' \in SUBSET Fields /\ wanted' \in Contents
  BY <1>1, UnsetAllowed DEF FileTypeOK
<1>4. FileTypeOK'
  BY <1>1, <1>2, <1>3 DEF FileTypeOK, Contents, Patches
<1>5. Open' = {} /\ \A c \in Calls : op'[c].phase = "idle"
  BY <1>1, <1>2 DEF Open
<1>6. UpdatesSurvive'
  <2>1. CASE Open = {}
    <3>1. UNCHANGED <<file, atRisk, wanted>>
      BY <1>1, <2>1
    <3>2. QED
      BY <2>1, <3>1 DEF FileInv, UpdatesSurvive, readSettings
  <2>2. CASE Open # {}
    <3>1. Calls \cap Open # {}
      BY <2>2 DEF Open
    <3>2. QED
      BY <1>1, <3>1 DEF UpdatesSurvive
  <2>3. QED
    BY <2>1, <2>2
<1>7. QED
  BY <1>4, <1>5, <1>6 DEF FileInv

LEMMA NothingStep ==
  ASSUME FileInv, UNCHANGED fileVars
  PROVE  FileInv'
BY DEF FileInv, FileTypeOK, Contents, Patches, Open, UpdatesSurvive, readSettings, fileVars
=============================================================================

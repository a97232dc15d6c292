---------------------------- MODULE PeerClientProofs ----------------------------
(***************************************************************************)
(* What a connection of the renderer promises, proved for any number of      *)
(* peers and of functions that wait at the same time.  A step is a           *)
(* composition of methods, each a function of the record; so the invariant   *)
(* is stated of a record, and a lemma says of each method what it keeps.     *)
(***************************************************************************)
EXTENDS PeerClientProperties, TLAPS

Fields == {"role", "gone", "life", "socket", "joins", "peer", "pc", "offered", "remote",
    "video", "tracks", "pending", "timers", "recovering", "listening", "stream", "task"}

\* What r has of k apart from some fields.
LikeExcept(r, k, fields) == \A f \in Fields \ fields : r[f] = k[f]

On(k, t, kinds) == k.task[t].on /\ k.task[t].kind \in kinds
Connects(k, t) == On(k, t, {"capture"}) /\ k.task[t].cause = "connect"
Recovers(k, t) == On(k, t, {"capture", "offer"}) /\ k.task[t].cause = "recover"

\* The seat of a client that is connected to the server.
Seat(k) ==
    k.socket = "connected" =>
        "heartbeat" \in k.timers \/ k.joins > 0 \/ \E t \in Slots : k.task[t].kind = "password"

\* What stands behind the awaits.
Tasks(k) ==
    /\ k.gone => \A t \in Slots : k.task[t].on => k.task[t].kind = "password"
    /\ k.life = "idle" => k.gone /\ \A t \in Slots : k.task[t] = NoTask
    /\ \A t \in Slots : On(k, t, {"offer", "answer", "offered"}) => k.socket # "none"
    /\ \A t \in Slots : Connects(k, t) =>
        k.socket = "none" /\ \A u \in Slots : Connects(k, u) => u = t
    /\ \A t, u \in Slots : Recovers(k, t) /\ Recovers(k, u) => t = u
    /\ \A t \in Slots : On(k, t, {"capture"}) => k.task[t].cause # "none"

Silent(k) ==
    k.gone =>
        /\ k.life \in {"idle", "disconnected"}
        /\ k.socket = "none" /\ k.joins = 0 /\ k.pc = "none" /\ k.peer = NoPeer
        /\ k.timers = {} /\ ~k.recovering /\ ~k.listening /\ ~k.stream

\* What the socket and the connection take with them.
Goes(k) ==
    /\ "heartbeat" \in k.timers => k.socket = "connected"
    /\ "reconnect" \in k.timers => ~k.gone /\ k.peer # NoPeer
    /\ {"stats", "watchdog"} \cap k.timers # {} => k.pc # "none"
    /\ k.pending => k.pc # "none" /\ ~k.remote
    /\ k.tracks => k.pc # "none"

Sound(k) == k \in Client /\ Tasks(k) /\ Silent(k) /\ Goes(k)
Good(k) == Sound(k) /\ Seat(k)

Events == {"disconnected", "connect-requested", "signaling-connected", "join-requested",
    "join-succeeded", "peer-announced", "webrtc-connected", "recovery-started", "peer-reset"}

-------------------------------------------------------------------------------
(* What the methods do to the fields.                                        *)

LEMMA TransitionFields ==
  ASSUME NEW k \in Client, NEW event \in Events
  PROVE  /\ Transition(k, event) \in Client /\ Transition(k, event).life # "idle"
         /\ LikeExcept(Transition(k, event), k, {"life"})
<1>1. reduceSessionLifecycleState(k.life, event) \in LifecycleStates \ {"idle"}
  BY DEF Client, Events, LifecycleStates, reduceSessionLifecycleState
<1>2. QED
  BY <1>1 DEF Transition, Client, LikeExcept, Fields

LEMMA ArmFields ==
  ASSUME NEW k \in Client, NEW timer \in TimerKinds
  PROVE  /\ Arm(k, timer) \in Client /\ Arm(k, timer).timers = k.timers \cup {timer}
         /\ LikeExcept(Arm(k, timer), k, {"timers"})
BY DEF Arm, Client, LikeExcept, Fields

LEMMA StopFields ==
  ASSUME NEW k \in Client, NEW timers
  PROVE  /\ Stop(k, timers) \in Client /\ Stop(k, timers).timers = k.timers \ timers
         /\ LikeExcept(Stop(k, timers), k, {"timers"})
BY DEF Stop, Client, LikeExcept, Fields

LEMMA DoneFields ==
  ASSUME NEW k \in Client, NEW t \in Slots
  PROVE  /\ Done(k, t) \in Client /\ LikeExcept(Done(k, t), k, {"task"})
         /\ Done(k, t).task[t] = NoTask
         /\ \A u \in Slots : u # t => Done(k, t).task[u] = k.task[u]
         /\ Free(Done(k, t)) # {}
<1>1. NoTask \in Task /\ k.task \in [Slots -> Task]
  BY DEF NoTask, Task, TaskKinds, Causes, Client
<1>2. /\ Done(k, t) \in Client /\ LikeExcept(Done(k, t), k, {"task"})
      /\ Done(k, t).task = [k.task EXCEPT ![t] = NoTask]
  BY <1>1 DEF Done, Client, LikeExcept, Fields
<1>3. QED
  BY <1>1, <1>2 DEF Free

LEMMA AwaitFields ==
  ASSUME NEW k \in Client, NEW kind \in TaskKinds, NEW cause \in Causes, Free(k) # {}
  PROVE  \E t \in Slots :
            /\ k.task[t] = NoTask
            /\ Await(k, kind, cause) \in Client
            /\ LikeExcept(Await(k, kind, cause), k, {"task"})
            /\ Await(k, kind, cause).task[t] = [kind |-> kind, cause |-> cause, on |-> TRUE]
            /\ \A u \in Slots : u # t => Await(k, kind, cause).task[u] = k.task[u]
<1> DEFINE t == CHOOSE u \in Free(k) : TRUE
           new == [kind |-> kind, cause |-> cause, on |-> TRUE]
<1>1. t \in Slots /\ k.task[t] = NoTask
  BY DEF Free
<1>2. new \in Task /\ k.task \in [Slots -> Task]
  BY DEF Task, Client
<1>3. Await(k, kind, cause) = [k EXCEPT !.task = [k.task EXCEPT ![t] = new]]
  BY DEF Await, Client
<1> HIDE DEF t, new
<1>4. /\ Await(k, kind, cause) \in Client
      /\ LikeExcept(Await(k, kind, cause), k, {"task"})
      /\ Await(k, kind, cause).task = [k.task EXCEPT ![t] = new]
  BY <1>1, <1>2, <1>3 DEF Client, LikeExcept, Fields
<1>5. QED
  BY <1>1, <1>2, <1>4 DEF new

LEMMA EnsureFields ==
  ASSUME NEW k \in Client
  PROVE  /\ ensurePeerConnection(k) \in Client /\ ensurePeerConnection(k).pc # "none"
         /\ LikeExcept(ensurePeerConnection(k), k, {"pc"})
BY DEF ensurePeerConnection, Client, LikeExcept, Fields

LEMMA ClosedFields ==
  ASSUME NEW k \in Client
  PROVE  LET r == ClosedConnection(k)
         IN  /\ r \in Client
             /\ r.pc = "none" /\ ~r.remote /\ ~r.video /\ ~r.tracks /\ ~r.pending
             /\ r.timers = k.timers \ {"stats", "reconnect", "watchdog"}
             /\ \A t \in Slots : /\ ~r.task[t].on /\ r.task[t].kind = k.task[t].kind
                                 /\ k.task[t] = NoTask => r.task[t] = NoTask
             /\ LikeExcept(r, k, {"pc", "offered", "remote", "video", "tracks", "pending",
                                  "task", "timers"})
<1>1. k.task \in [Slots -> Task]
  BY DEF Client
<1>2. ASSUME NEW t \in Slots
      PROVE  LET o == Orphaned(k.task)[t]
             IN  /\ o \in Task /\ ~o.on /\ o.kind = k.task[t].kind
                 /\ k.task[t] = NoTask => o = NoTask
  <2>1. k.task[t] \in Task
    BY <1>1
  <2>2. QED
    BY <2>1 DEF Orphaned, Task, NoTask, TaskKinds, Causes
<1>3. Orphaned(k.task) \in [Slots -> Task]
  BY <1>2 DEF Orphaned
<1> DEFINE orphans == Orphaned(k.task)
<1> HIDE DEF orphans
<1>4. ClosedConnection(k) =
        [k EXCEPT !.pc = "none", !.offered = FALSE, !.remote = FALSE, !.video = FALSE,
              !.tracks = FALSE, !.pending = FALSE, !.task = orphans,
              !.timers = @ \ {"stats", "reconnect", "watchdog"}]
  BY DEF ClosedConnection, orphans
<1>5. orphans \in [Slots -> Task]
  BY <1>3 DEF orphans
<1> DEFINE r == ClosedConnection(k)
<1> HIDE DEF r
<1>6. r = [k EXCEPT !.pc = "none", !.offered = FALSE, !.remote = FALSE, !.video = FALSE,
              !.tracks = FALSE, !.pending = FALSE, !.task = orphans,
              !.timers = k.timers \ {"stats", "reconnect", "watchdog"}]
  BY <1>4 DEF Client, r
<1>7. k.timers \ {"stats", "reconnect", "watchdog"} \in SUBSET TimerKinds
  BY DEF Client
<1>8. r \in Client
  BY <1>5, <1>6, <1>7 DEF Client
<1>9. /\ r.pc = "none" /\ ~r.remote /\ ~r.video /\ ~r.tracks /\ ~r.pending
      /\ r.timers = k.timers \ {"stats", "reconnect", "watchdog"} /\ r.task = orphans
  BY <1>6 DEF Client
<1>10. LikeExcept(r, k, {"pc", "offered", "remote", "video", "tracks", "pending",
                         "task", "timers"})
  BY <1>6 DEF Client, LikeExcept, Fields
<1>11. QED
  BY <1>2, <1>8, <1>9, <1>10 DEF orphans, r

LEMMA ResetFields ==
  ASSUME NEW k \in Client
  PROVE  LET r == resetPeerConnection(k)
         IN  /\ r \in Client /\ r.life # "idle"
             /\ r.pc = "none" /\ ~r.remote /\ ~r.video /\ ~r.tracks /\ ~r.pending
             /\ r.timers = k.timers \ {"stats", "reconnect", "watchdog"}
             /\ \A t \in Slots : /\ ~r.task[t].on /\ r.task[t].kind = k.task[t].kind
                                 /\ k.task[t] = NoTask => r.task[t] = NoTask
             /\ LikeExcept(r, k, {"life", "pc", "offered", "remote", "video", "tracks",
                                  "pending", "task", "timers"})
<1> DEFINE q == ClosedConnection(k)
           r == resetPeerConnection(k)
<1>1. q \in Client
  BY ClosedFields
<1>2. r \in Client /\ r.life # "idle" /\ LikeExcept(r, q, {"life"})
  BY <1>1, TransitionFields DEF resetPeerConnection, Events
<1>3. /\ r.pc = q.pc /\ r.remote = q.remote /\ r.video = q.video /\ r.tracks = q.tracks
      /\ r.pending = q.pending /\ r.timers = q.timers /\ r.task = q.task
  BY <1>2 DEF LikeExcept, Fields
<1> HIDE DEF q, r
<1>4. LikeExcept(q, k, {"pc", "offered", "remote", "video", "tracks",
                        "pending", "task", "timers"})
  BY ClosedFields DEF q
<1>5. LikeExcept(r, k, {"life", "pc", "offered", "remote", "video", "tracks",
                        "pending", "task", "timers"})
  BY <1>2, <1>4 DEF LikeExcept
<1>6. QED
  BY <1>2, <1>3, <1>5, ClosedFields DEF q, r

LEMMA DisconnectFields ==
  ASSUME BoundsAssumption, NEW k \in Client
  PROVE  LET r == disconnect(k)
         IN  /\ r \in Client /\ r.life = "disconnected" /\ r.gone
             /\ r.socket = "none" /\ r.joins = 0 /\ r.pc = "none" /\ r.peer = NoPeer
             /\ r.timers = {} /\ ~r.recovering /\ ~r.listening /\ ~r.stream
             /\ ~r.pending /\ ~r.tracks
             /\ \A t \in Slots : ~r.task[t].on
             /\ r.role = k.role
<1> DEFINE q == ClosedConnection(k)
           s == Transition(q, "disconnected")
<1>1. q \in Client /\ q.pc = "none" /\ ~q.pending /\ ~q.tracks /\ q.role = k.role
      /\ \A t \in Slots : ~q.task[t].on
  BY ClosedFields DEF LikeExcept, Fields
<1> HIDE DEF q
<1>2. s = [q EXCEPT !.life = "disconnected"]
  BY DEF Transition, reduceSessionLifecycleState
<1>3. s \in Client /\ s.life = "disconnected" /\ LikeExcept(s, q, {"life"})
  BY <1>1, <1>2 DEF Client, LikeExcept, Fields, LifecycleStates
<1>4. s.pc = "none" /\ ~s.pending /\ ~s.tracks /\ s.task = q.task /\ s.role = k.role
  BY <1>1, <1>3 DEF LikeExcept, Fields
<1> HIDE DEF s
<1>5. disconnect(k) = [s EXCEPT
        !.gone = TRUE, !.recovering = FALSE, !.timers = {}, !.listening = FALSE,
        !.socket = "none", !.joins = 0, !.stream = FALSE, !.peer = NoPeer]
  BY DEF disconnect, q, s
<1>6. 0 \in 0 .. MaxJoins
  BY DEF BoundsAssumption
<1> DEFINE r == disconnect(k)
<1> HIDE DEF r
<1>7. /\ r.life = s.life /\ r.gone /\ r.pc = s.pc /\ r.task = s.task /\ r.role = s.role
      /\ r.socket = "none" /\ r.joins = 0 /\ r.peer = NoPeer /\ r.timers = {}
      /\ ~r.recovering /\ ~r.listening /\ ~r.stream
      /\ r.pending = s.pending /\ r.tracks = s.tracks
  BY <1>3, <1>5 DEF Client, r
<1>8. r \in Client
  <2> DEFINE h == [s EXCEPT !.gone = TRUE, !.recovering = FALSE, !.timers = {},
                            !.listening = FALSE]
  <2>1. h \in Client
    BY <1>3 DEF Client
  <2>2. r = [h EXCEPT !.socket = "none", !.joins = 0, !.stream = FALSE, !.peer = NoPeer]
    BY <1>5 DEF r
  <2> HIDE DEF h
  <2>3. QED
    BY <1>6, <2>1, <2>2 DEF Client
<1>9. QED
  BY <1>1, <1>3, <1>4, <1>7, <1>8 DEF r

-------------------------------------------------------------------------------
(* What the methods keep.                                                    *)

\* Nothing but the lifecycle, the stream and what the browser says has changed.
LEMMA FieldsKeep ==
  ASSUME NEW k, Sound(k), ~k.gone, NEW r \in Client, r.life = k.life \/ r.life # "idle",
         LikeExcept(r, k, {"life", "video", "stream", "offered", "recovering", "joins"})
  PROVE  /\ Sound(r)
         /\ Seat(k) /\ r.joins = k.joins => Seat(r)
<1>1. /\ r.gone = k.gone /\ r.socket = k.socket /\ r.task = k.task
      /\ r.peer = k.peer /\ r.pc = k.pc /\ r.remote = k.remote /\ r.tracks = k.tracks
      /\ r.pending = k.pending /\ r.timers = k.timers /\ r.listening = k.listening
  BY DEF LikeExcept, Fields
<1>2. Tasks(r)
  BY <1>1 DEF Sound, Tasks, On, Connects, Recovers
<1>3. Silent(r) /\ Goes(r)
  BY <1>1 DEF Sound, Silent, Goes
<1>4. QED
  BY <1>1, <1>2, <1>3 DEF Sound, Seat

LEMMA TransitionKeeps ==
  ASSUME NEW k, Sound(k), ~k.gone, NEW event \in Events
  PROVE  /\ Sound(Transition(k, event)) /\ ~Transition(k, event).gone
         /\ Seat(k) => Seat(Transition(k, event))
<1> DEFINE r == Transition(k, event)
<1>1. k \in Client
  BY DEF Sound
<1>2. /\ r \in Client /\ r.life # "idle" /\ LikeExcept(r, k, {"life"})
  BY <1>1, TransitionFields
<1> HIDE DEF r
<1>3. LikeExcept(r, k, {"life", "video", "stream", "offered", "recovering", "joins"})
      /\ r.joins = k.joins /\ r.gone = k.gone
  BY <1>2 DEF LikeExcept, Fields
<1>4. Sound(r) /\ ~r.gone /\ (Seat(k) => Seat(r))
  BY <1>2, <1>3, FieldsKeep
<1>5. QED
  BY <1>4 DEF r

\* A timer is armed for what is there.
LEMMA ArmKeeps ==
  ASSUME NEW k, Sound(k), ~k.gone, NEW timer \in TimerKinds,
         timer = "heartbeat" => k.socket = "connected",
         timer = "reconnect" => k.peer # NoPeer,
         timer \in {"stats", "watchdog"} => k.pc # "none"
  PROVE  /\ Sound(Arm(k, timer)) /\ ~Arm(k, timer).gone
         /\ Seat(k) \/ timer = "heartbeat" => Seat(Arm(k, timer))
<1> DEFINE r == Arm(k, timer)
<1>1. k \in Client
  BY DEF Sound
<1>2. r \in Client /\ r.timers = k.timers \cup {timer} /\ LikeExcept(r, k, {"timers"})
  BY <1>1, ArmFields
<1> HIDE DEF r
<1>3. /\ r.gone = k.gone /\ r.life = k.life /\ r.socket = k.socket /\ r.task = k.task
      /\ r.peer = k.peer /\ r.pc = k.pc /\ r.remote = k.remote /\ r.tracks = k.tracks
      /\ r.pending = k.pending /\ r.joins = k.joins
  BY <1>2 DEF LikeExcept, Fields
<1>4. Tasks(r)
  BY <1>3 DEF Sound, Tasks, On, Connects, Recovers
<1>5. Silent(r) /\ Goes(r)
  BY <1>2, <1>3 DEF Sound, Silent, Goes
<1>6. Seat(k) \/ timer = "heartbeat" => Seat(r)
  BY <1>2, <1>3 DEF Seat
<1>7. QED
  BY <1>2, <1>3, <1>4, <1>5, <1>6 DEF Sound, r

\* A heartbeat is only stopped with its socket.
LEMMA StopKeeps ==
  ASSUME NEW k, Sound(k), NEW timers
  PROVE  /\ Sound(Stop(k, timers)) /\ Stop(k, timers).gone = k.gone
         /\ Seat(k) /\ "heartbeat" \notin timers => Seat(Stop(k, timers))
<1> DEFINE r == Stop(k, timers)
<1>1. k \in Client
  BY DEF Sound
<1>2. r \in Client /\ r.timers = k.timers \ timers /\ LikeExcept(r, k, {"timers"})
  BY <1>1, StopFields
<1> HIDE DEF r
<1>3. /\ r.gone = k.gone /\ r.life = k.life /\ r.socket = k.socket /\ r.task = k.task
      /\ r.peer = k.peer /\ r.pc = k.pc /\ r.remote = k.remote /\ r.tracks = k.tracks
      /\ r.pending = k.pending /\ r.joins = k.joins /\ r.recovering = k.recovering
      /\ r.listening = k.listening /\ r.stream = k.stream
  BY <1>2 DEF LikeExcept, Fields
<1>4. Tasks(r)
  BY <1>3 DEF Sound, Tasks, On, Connects, Recovers
<1>5. Silent(r) /\ Goes(r)
  BY <1>2, <1>3 DEF Sound, Silent, Goes
<1>6. Seat(k) /\ "heartbeat" \notin timers => Seat(r)
  BY <1>2, <1>3 DEF Seat
<1>7. QED
  BY <1>2, <1>3, <1>4, <1>5, <1>6 DEF Sound, r

\* An await that ends leaves the others.
LEMMA DoneKeeps ==
  ASSUME NEW k, Sound(k), NEW t \in Slots
  PROVE  /\ Sound(Done(k, t)) /\ Done(k, t).gone = k.gone
         /\ Seat(k) /\ k.task[t].kind # "password" => Seat(Done(k, t))
         /\ Recovers(k, t) => \A u \in Slots : ~Recovers(Done(k, t), u)
         /\ Connects(k, t) => \A u \in Slots : ~Connects(Done(k, t), u)
<1> DEFINE r == Done(k, t)
<1>1. k \in Client
  BY DEF Sound
<1>2. /\ r \in Client /\ LikeExcept(r, k, {"task"}) /\ r.task[t] = NoTask
      /\ \A u \in Slots : u # t => r.task[u] = k.task[u]
  BY <1>1, DoneFields
<1> HIDE DEF r
<1>3. /\ r.gone = k.gone /\ r.life = k.life /\ r.socket = k.socket /\ r.timers = k.timers
      /\ r.peer = k.peer /\ r.pc = k.pc /\ r.remote = k.remote /\ r.tracks = k.tracks
      /\ r.pending = k.pending /\ r.joins = k.joins /\ r.recovering = k.recovering
      /\ r.listening = k.listening /\ r.stream = k.stream
  BY <1>2 DEF LikeExcept, Fields
<1>4. /\ ~r.task[t].on /\ ~Connects(r, t) /\ ~Recovers(r, t)
      /\ \A kinds : ~On(r, t, kinds)
      /\ \A u \in Slots : u # t =>
            /\ r.task[u] = k.task[u]
            /\ Connects(r, u) <=> Connects(k, u)
            /\ Recovers(r, u) <=> Recovers(k, u)
            /\ On(r, u, {"offer", "answer", "offered"})
                    <=> On(k, u, {"offer", "answer", "offered"})
            /\ On(r, u, {"capture"}) <=> On(k, u, {"capture"})
  BY <1>2 DEF NoTask, On, Connects, Recovers
<1>5. Tasks(r)
  BY <1>2, <1>3, <1>4 DEF Sound, Tasks
<1>6. Silent(r) /\ Goes(r)
  BY <1>2, <1>3 DEF Sound, Silent, Goes
<1>7. Seat(k) /\ k.task[t].kind # "password" => Seat(r)
  BY <1>2, <1>3 DEF Seat
<1>8. /\ Recovers(k, t) => \A u \in Slots : ~Recovers(r, u)
      /\ Connects(k, t) => \A u \in Slots : ~Connects(r, u)
  BY <1>4 DEF Sound, Tasks
<1>9. QED
  BY <1>2, <1>3, <1>5, <1>6, <1>7, <1>8 DEF Sound, r

\* A function that begins to wait finds what it needs.
LEMMA AwaitKeeps ==
  ASSUME NEW k, Sound(k), ~k.gone, NEW kind \in TaskKinds, NEW cause \in Causes,
         Free(k) # {},
         kind \in {"offer", "answer", "offered"} => k.socket # "none",
         kind = "capture" /\ cause = "connect" =>
            k.socket = "none" /\ \A u \in Slots : ~Connects(k, u),
         kind = "capture" => cause # "none",
         kind \in {"capture", "offer"} /\ cause = "recover" =>
            \A u \in Slots : ~Recovers(k, u)
  PROVE  /\ Sound(Await(k, kind, cause)) /\ Await(k, kind, cause).gone = k.gone
         /\ Seat(k) \/ kind = "password" => Seat(Await(k, kind, cause))
<1> DEFINE r == Await(k, kind, cause)
           new == [kind |-> kind, cause |-> cause, on |-> TRUE]
<1>1. k \in Client
  BY DEF Sound
<1>2. PICK t \in Slots :
        /\ k.task[t] = NoTask
        /\ r \in Client /\ LikeExcept(r, k, {"task"}) /\ r.task[t] = new
        /\ \A u \in Slots : u # t => r.task[u] = k.task[u]
  BY <1>1, AwaitFields
<1>3. new.kind = kind /\ new.cause = cause /\ new.on
  OBVIOUS
<1> HIDE DEF r, new
<1>4. /\ r.gone = k.gone /\ r.life = k.life /\ r.socket = k.socket /\ r.timers = k.timers
      /\ r.peer = k.peer /\ r.pc = k.pc /\ r.remote = k.remote /\ r.tracks = k.tracks
      /\ r.pending = k.pending /\ r.joins = k.joins /\ r.recovering = k.recovering
      /\ r.listening = k.listening /\ r.stream = k.stream
  BY <1>2 DEF LikeExcept, Fields
<1>5. /\ Connects(r, t) <=> kind = "capture" /\ cause = "connect"
      /\ Recovers(r, t) <=> kind \in {"capture", "offer"} /\ cause = "recover"
      /\ On(r, t, {"offer", "answer", "offered"}) <=> kind \in {"offer", "answer", "offered"}
      /\ \A u \in Slots : u # t =>
            /\ Connects(r, u) <=> Connects(k, u)
            /\ Recovers(r, u) <=> Recovers(k, u)
            /\ On(r, u, {"offer", "answer", "offered"})
                    <=> On(k, u, {"offer", "answer", "offered"})
            /\ On(r, u, {"capture"}) <=> On(k, u, {"capture"})
  BY <1>2, <1>3 DEF On, Connects, Recovers
<1>6. k.life # "idle"
  BY DEF Sound, Tasks
<1>7. Tasks(r)
  <2>1. \A u \in Slots : Connects(r, u) =>
            r.socket = "none" /\ \A v \in Slots : Connects(r, v) => v = u
    BY <1>4, <1>5 DEF Sound, Tasks
  <2>2. \A u, v \in Slots : Recovers(r, u) /\ Recovers(r, v) => u = v
    BY <1>5 DEF Sound, Tasks
  <2>3. \A u \in Slots : On(r, u, {"offer", "answer", "offered"}) => r.socket # "none"
    BY <1>4, <1>5 DEF Sound, Tasks
  <2>4. \A u \in Slots : On(r, u, {"capture"}) => r.task[u].cause # "none"
    BY <1>2, <1>3, <1>5 DEF Sound, Tasks, On
  <2>5. QED
    BY <1>4, <1>6, <2>1, <2>2, <2>3, <2>4 DEF Tasks
<1>8. Silent(r) /\ Goes(r)
  BY <1>4 DEF Sound, Silent, Goes
<1>9. Seat(k) \/ kind = "password" => Seat(r)
  <2>1. k.task[t].kind # "password"
    BY <1>2 DEF NoTask
  <2>2. \A u \in Slots : k.task[u].kind = "password" => r.task[u].kind = "password"
    BY <1>2, <2>1
  <2>3. QED
    BY <1>2, <1>3, <1>4, <2>2 DEF Seat
<1>10. QED
  BY <1>2, <1>4, <1>7, <1>8, <1>9 DEF Sound, r

LEMMA EnsureKeeps ==
  ASSUME NEW k, Sound(k), ~k.gone
  PROVE  LET r == ensurePeerConnection(k)
         IN  /\ Sound(r) /\ ~r.gone /\ r.pc # "none" /\ Free(r) = Free(k)
             /\ Seat(k) => Seat(r)
             /\ r.task = k.task /\ r.socket = k.socket /\ r.role = k.role
             /\ r.remote = k.remote /\ r.timers = k.timers /\ r.video = k.video
<1> DEFINE r == ensurePeerConnection(k)
<1>1. k \in Client
  BY DEF Sound
<1>2. r \in Client /\ r.pc # "none" /\ LikeExcept(r, k, {"pc"})
  BY <1>1, EnsureFields
<1> HIDE DEF r
<1>3. /\ r.gone = k.gone /\ r.life = k.life /\ r.socket = k.socket /\ r.task = k.task
      /\ r.peer = k.peer /\ r.remote = k.remote /\ r.tracks = k.tracks
      /\ r.pending = k.pending /\ r.joins = k.joins /\ r.timers = k.timers
      /\ r.role = k.role /\ r.video = k.video
  BY <1>2 DEF LikeExcept, Fields
<1>4. Tasks(r)
  BY <1>3 DEF Sound, Tasks, On, Connects, Recovers
<1>5. Silent(r) /\ Goes(r) /\ (Seat(k) => Seat(r)) /\ Free(r) = Free(k)
  BY <1>2, <1>3 DEF Sound, Silent, Goes, Seat, Free
<1>6. QED
  BY <1>2, <1>3, <1>4, <1>5 DEF Sound, r

\* After a reset nothing of the old connection is left, whatever it was.
LEMMA ResetKeeps ==
  ASSUME NEW k \in Client, ~k.gone, "heartbeat" \in k.timers => k.socket = "connected"
  PROVE  LET r == resetPeerConnection(k)
         IN  /\ Sound(r) /\ ~r.gone /\ (Seat(k) => Seat(r)) /\ Free(k) \subseteq Free(r)
             /\ \A t \in Slots : ~Recovers(r, t)
             /\ r.socket = k.socket /\ r.role = k.role
             /\ r.timers = k.timers \ {"stats", "reconnect", "watchdog"}
<1> DEFINE r == resetPeerConnection(k)
<1>1. /\ r \in Client /\ r.life # "idle"
      /\ r.pc = "none" /\ ~r.remote /\ ~r.tracks /\ ~r.pending
      /\ r.timers = k.timers \ {"stats", "reconnect", "watchdog"}
      /\ \A t \in Slots : /\ ~r.task[t].on /\ r.task[t].kind = k.task[t].kind
                          /\ k.task[t] = NoTask => r.task[t] = NoTask
      /\ LikeExcept(r, k, {"life", "pc", "offered", "remote", "video", "tracks",
                           "pending", "task", "timers"})
  BY ResetFields
<1> HIDE DEF r
<1>2. r.gone = k.gone /\ r.socket = k.socket /\ r.joins = k.joins /\ r.role = k.role
  BY <1>1 DEF LikeExcept, Fields
<1>3. /\ Tasks(r) /\ \A t \in Slots : ~Recovers(r, t)
  BY <1>1, <1>2 DEF Tasks, On, Connects, Recovers
<1>4. Silent(r) /\ Goes(r) /\ (Seat(k) => Seat(r)) /\ Free(k) \subseteq Free(r)
  BY <1>1, <1>2 DEF Silent, Goes, Seat, Free
<1>5. QED
  BY <1>1, <1>2, <1>3, <1>4 DEF Sound, r

LEMMA DisconnectKeeps ==
  ASSUME BoundsAssumption, NEW k \in Client
  PROVE  Good(disconnect(k)) /\ disconnect(k).gone
<1> DEFINE r == disconnect(k)
<1>1. /\ r \in Client /\ r.life = "disconnected" /\ r.gone
      /\ r.socket = "none" /\ r.joins = 0 /\ r.pc = "none" /\ r.peer = NoPeer
      /\ r.timers = {} /\ ~r.recovering /\ ~r.listening /\ ~r.stream
      /\ ~r.pending /\ ~r.tracks
      /\ \A t \in Slots : ~r.task[t].on
  BY DisconnectFields
<1> HIDE DEF r
<1>2. Tasks(r) /\ Silent(r) /\ Goes(r) /\ Seat(r)
  BY <1>1 DEF Tasks, Silent, Goes, Seat, On, Connects, Recovers
<1>3. QED
  BY <1>1, <1>2 DEF Good, Sound, r

\* A join is a request for a seat.
LEMMA JoinKeeps ==
  ASSUME BoundsAssumption, NEW k, Sound(k)
  PROVE  LET r == joinSession(k)
         IN  /\ Good(r) /\ r.gone = k.gone /\ r.socket = k.socket /\ Free(r) = Free(k)
             /\ r.task = k.task /\ r.timers = k.timers /\ r.role = k.role
             /\ r.pc = k.pc /\ r.video = k.video
<1>1. CASE k.socket = "none"
  BY <1>1 DEF joinSession, Good, Seat
<1>2. CASE k.socket # "none"
  <2> DEFINE q == Transition(k, "join-requested")
             r == joinSession(k)
  <2>1. k \in Client /\ ~k.gone
    BY <1>2 DEF Sound, Silent
  <2>2. Sound(q) /\ ~q.gone /\ q \in Client /\ LikeExcept(q, k, {"life"})
    BY <2>1, TransitionKeeps, TransitionFields DEF Events, Sound
  <2> HIDE DEF q
  <2>3. r = [q EXCEPT !.joins = IF q.joins = MaxJoins THEN q.joins ELSE q.joins + 1]
    BY <1>2, <2>2 DEF joinSession, q, Client
  <2> HIDE DEF r
  <2>4. (IF q.joins = MaxJoins THEN q.joins ELSE q.joins + 1) \in 1 .. MaxJoins
    BY <2>2 DEF Client, BoundsAssumption
  <2>5. r \in Client /\ r.joins \in 1 .. MaxJoins /\ LikeExcept(r, q, {"joins"})
    <3> DEFINE more == IF q.joins = MaxJoins THEN q.joins ELSE q.joins + 1
    <3> HIDE DEF more
    <3>1. more \in 1 .. MaxJoins /\ more \in 0 .. MaxJoins
      BY <2>4 DEF more, BoundsAssumption
    <3>2. QED
      BY <2>2, <2>3, <3>1 DEF Client, LikeExcept, Fields, more
  <2>6. r.joins > 0
    BY <2>5
  <2>7. LikeExcept(r, q, {"life", "video", "stream", "offered", "recovering", "joins"})
        /\ r.life = q.life
    BY <2>5 DEF LikeExcept, Fields
  <2>8. Sound(r)
    BY <2>2, <2>5, <2>7, FieldsKeep
  <2>9. /\ r.gone = k.gone /\ r.socket = k.socket /\ r.task = k.task
        /\ r.timers = k.timers /\ r.role = k.role /\ r.pc = k.pc /\ r.video = k.video
    BY <2>2, <2>5 DEF LikeExcept, Fields
  <2>10. QED
    BY <2>6, <2>8, <2>9 DEF Good, Seat, Free, r
<1>3. QED
  BY <1>1, <1>2

LEMMA ReconnectKeeps ==
  ASSUME NEW k, Good(k)
  PROVE  Good(scheduleReconnect(k))
<1>1. CASE k.gone \/ k.peer = NoPeer \/ "reconnect" \in k.timers \/ k.recovering
  BY <1>1 DEF scheduleReconnect
<1>2. CASE ~(k.gone \/ k.peer = NoPeer \/ "reconnect" \in k.timers \/ k.recovering)
  <2> DEFINE q == Transition(k, "recovery-started")
  <2>1. Sound(q) /\ ~q.gone /\ Seat(q)
    BY <1>2, TransitionKeeps DEF Events, Good
  <2>2. q.peer # NoPeer
    BY <1>2, TransitionFields DEF Events, Good, Sound, LikeExcept, Fields
  <2>3. scheduleReconnect(k) = Arm(q, "reconnect")
    BY <1>2 DEF scheduleReconnect
  <2> HIDE DEF q
  <2>4. QED
    BY <2>1, <2>2, <2>3, ArmKeeps DEF TimerKinds, Good
<1>3. QED
  BY <1>1, <1>2

LEMMA WatchdogKeeps ==
  ASSUME NEW k, Good(k), k.pc # "none"
  PROVE  Good(scheduleRemoteTrackWatchdog(k))
<1>1. CASE StreamMissing(k)
  BY <1>1, ArmKeeps DEF StreamMissing, scheduleRemoteTrackWatchdog, TimerKinds, Good
<1>2. CASE ~StreamMissing(k)
  BY <1>2, StopKeeps DEF scheduleRemoteTrackWatchdog, Good
<1>3. QED
  BY <1>1, <1>2

LEMMA SettledKeeps ==
  ASSUME NEW k, Sound(k), NEW cause
  PROVE  /\ Sound(Settled(k, cause)) /\ Settled(k, cause).gone = k.gone
         /\ Seat(k) => Seat(Settled(k, cause))
         /\ LikeExcept(Settled(k, cause), k, {"recovering"})
<1> DEFINE r == Settled(k, cause)
<1>1. k \in Client
  BY DEF Sound
<1>2. /\ r \in Client /\ LikeExcept(r, k, {"recovering"})
      /\ r.recovering = k.recovering \/ ~r.recovering
  <2>1. CASE cause = "recover"
    <3>1. r = [k EXCEPT !.recovering = FALSE]
      BY <2>1 DEF Settled
    <3> HIDE DEF r
    <3>2. QED
      BY <1>1, <3>1 DEF Client, LikeExcept, Fields
  <2>2. CASE cause # "recover"
    BY <1>1, <2>2 DEF Settled, LikeExcept
  <2>3. QED
    BY <2>1, <2>2
<1> HIDE DEF r
<1>3. /\ r.gone = k.gone /\ r.life = k.life /\ r.socket = k.socket /\ r.task = k.task
      /\ r.peer = k.peer /\ r.pc = k.pc /\ r.remote = k.remote /\ r.tracks = k.tracks
      /\ r.pending = k.pending /\ r.joins = k.joins /\ r.timers = k.timers
      /\ r.listening = k.listening /\ r.stream = k.stream
  BY <1>2 DEF LikeExcept, Fields
<1>4. Tasks(r)
  BY <1>3 DEF Sound, Tasks, On, Connects, Recovers
<1>5. Silent(r) /\ Goes(r) /\ (Seat(k) => Seat(r))
  BY <1>2, <1>3 DEF Sound, Silent, Goes, Seat
<1>6. QED
  BY <1>2, <1>3, <1>4, <1>5 DEF Sound, r

LEMMA CaptureKeeps ==
  ASSUME NEW k, Good(k), ~k.gone, Free(k) # {}, NEW cause \in Causes \ {"none"},
         cause = "connect" => k.socket = "none" /\ \A u \in Slots : ~Connects(k, u),
         cause = "recover" => \A u \in Slots : ~Recovers(k, u)
  PROVE  Good(startDesktopCapture(k, cause))
<1> DEFINE q == ensurePeerConnection(k)
<1>1. /\ Sound(q) /\ ~q.gone /\ Seat(q) /\ Free(q) # {}
      /\ q.task = k.task /\ q.socket = k.socket
  BY EnsureKeeps DEF Good
<1> HIDE DEF q
<1>2. \A u \in Slots : (Connects(q, u) <=> Connects(k, u)) /\ (Recovers(q, u) <=> Recovers(k, u))
  BY <1>1 DEF Connects, Recovers, On
<1>3. Good(Await(q, "capture", cause))
  BY <1>1, <1>2, AwaitKeeps DEF TaskKinds, Good
<1>4. QED
  BY <1>3 DEF startDesktopCapture, q

LEMMA OfferKeeps ==
  ASSUME NEW k, Good(k), ~k.gone, Free(k) # {}, NEW cause \in {"none", "recover"},
         cause = "recover" => \A u \in Slots : ~Recovers(k, u)
  PROVE  Good(createOffer(k, cause))
<1> DEFINE q == ensurePeerConnection(k)
<1>1. CASE k.socket = "none"
  BY <1>1 DEF createOffer
<1>2. CASE k.socket # "none"
  <2>1. /\ Sound(q) /\ ~q.gone /\ Seat(q) /\ Free(q) # {}
        /\ q.task = k.task /\ q.socket = k.socket
    BY EnsureKeeps DEF Good
  <2> HIDE DEF q
  <2>2. \A u \in Slots : Recovers(q, u) <=> Recovers(k, u)
    BY <2>1 DEF Recovers, On
  <2>3. Good(Await(q, "offer", cause))
    BY <1>2, <2>1, <2>2, AwaitKeeps DEF TaskKinds, Causes, Good
  <2>4. QED
    BY <1>2, <2>3 DEF createOffer, q
<1>3. QED
  BY <1>1, <1>2
-------------------------------------------------------------------------------
(* Every step.                                                               *)

LEMMA FirstIsGood ==
  ASSUME BoundsAssumption, NEW role \in {"host", "viewer"}
  PROVE  Good(New(role))
<1>1. New(role) \in Client
  BY DEF New, Client, LifecycleStates, BoundsAssumption, Task, NoTask, TaskKinds, Causes
<1>2. Tasks(New(role))
  BY DEF New, Tasks, On, Connects, Recovers, NoTask
<1>3. Silent(New(role)) /\ Goes(New(role)) /\ Seat(New(role))
  BY DEF New, Silent, Goes, Seat
<1>4. QED
  BY <1>1, <1>2, <1>3 DEF Good, Sound

\* A client that was given up has nothing but the question for a password to answer.
LEMMA GoneFacts ==
  ASSUME NEW k, Good(k)
  PROVE  /\ k \in Client
         /\ k.gone => /\ k.life \in {"idle", "disconnected"} /\ k.socket = "none"
                      /\ k.pc = "none" /\ ~k.tracks /\ k.timers = {} /\ ~k.listening
                      /\ \A t \in Slots : k.task[t].on => k.task[t].kind = "password"
         /\ k.life = "idle" => k.gone
  BY DEF Good, Sound, Silent, Goes, Tasks

LEMMA OpenKeeps ==
  ASSUME NEW k, Good(k), ~k.gone, k.socket = "none", \A t \in Slots : ~Connects(k, t)
  PROVE  Good(openSocket(k))
<1> DEFINE r == openSocket(k)
<1>1. k \in Client
  BY GoneFacts
<1>2. r \in Client /\ r.socket = "connecting" /\ LikeExcept(r, k, {"socket", "listening"})
  BY <1>1 DEF openSocket, Client, LikeExcept, Fields
<1> HIDE DEF r
<1>3. /\ r.gone = k.gone /\ r.life = k.life /\ r.task = k.task /\ r.timers = k.timers
      /\ r.peer = k.peer /\ r.pc = k.pc /\ r.remote = k.remote /\ r.tracks = k.tracks
      /\ r.pending = k.pending
  BY <1>2 DEF LikeExcept, Fields
<1>4. Tasks(r)
  BY <1>2, <1>3 DEF Good, Sound, Tasks, On, Connects, Recovers
<1>5. Silent(r) /\ Goes(r) /\ Seat(r)
  BY <1>2, <1>3 DEF Good, Sound, Silent, Goes, Seat
<1>6. QED
  BY <1>2, <1>4, <1>5 DEF Good, Sound, r

LEMMA ConnectKeeps ==
  ASSUME Good(c), Connect
  PROVE  Good(c')
<1> DEFINE h == [c EXCEPT !.gone = FALSE]
           k == Transition(h, "connect-requested")
<1>1. /\ c \in Client /\ c.gone /\ c.socket = "none" /\ c.pc = "none" /\ c.timers = {}
      /\ \A t \in Slots : c.task[t] = NoTask
      /\ ~c.pending /\ ~c.tracks
  BY DEF Connect, Good, Sound, Tasks, Silent, Goes
<1>2. h \in Client /\ ~h.gone /\ LikeExcept(h, c, {"gone"})
  BY <1>1 DEF Client, LikeExcept, Fields
<1> HIDE DEF h
<1>3. k \in Client /\ k.life # "idle" /\ LikeExcept(k, h, {"life"})
  BY <1>2, TransitionFields DEF Events
<1> HIDE DEF k
<1>4. /\ ~k.gone /\ k.socket = "none" /\ k.timers = {} /\ k.task = c.task
      /\ ~k.pending /\ ~k.tracks
  BY <1>1, <1>2, <1>3 DEF LikeExcept, Fields
<1>5. /\ \A t \in Slots : ~k.task[t].on /\ ~Connects(k, t) /\ ~Recovers(k, t)
      /\ Free(k) = Free(c)
  BY <1>1, <1>4 DEF NoTask, Connects, Recovers, On, Free
<1>6. Tasks(k) /\ Silent(k) /\ Goes(k) /\ Seat(k)
  BY <1>3, <1>4, <1>5 DEF Tasks, On, Silent, Goes, Seat
<1>7. Good(k)
  BY <1>3, <1>6 DEF Good, Sound
<1>8. IF c.role = "host" THEN Free(c) # {} /\ c' = startDesktopCapture(k, "connect")
      ELSE c' = openSocket(k)
  BY DEF Connect, h, k
<1>9. QED
  BY <1>4, <1>5, <1>7, <1>8, CaptureKeeps, OpenKeeps DEF Causes

LEMMA CaptureDoneKeeps ==
  ASSUME Good(c), NEW t \in Slots, CaptureDone(t)
  PROVE  Good(c')
<1> DEFINE d == Done(c, t)
           k == [d EXCEPT !.video = TRUE, !.stream = TRUE]
           cause == c.task[t].cause
<1>1. c \in Client /\ c.task[t].kind = "capture" /\ cause \in Causes
  <2>1. c \in Client /\ c.task \in [Slots -> Task]
    BY DEF Good, Sound, Client
  <2>2. QED
    BY <2>1 DEF CaptureDone, Task
<1>2. /\ Sound(d) /\ Seat(d) /\ d.gone = c.gone /\ d \in Client
      /\ Recovers(c, t) => \A u \in Slots : ~Recovers(d, u)
      /\ Connects(c, t) => \A u \in Slots : ~Connects(d, u)
  BY <1>1, DoneKeeps DEF Good, Sound
<1>3. Free(d) # {} /\ d.socket = c.socket
  BY <1>1, DoneFields DEF LikeExcept, Fields
<1>4. CASE ~c.task[t].on
  <2>1. c' = Settled(d, cause)
    BY <1>4 DEF CaptureDone
  <2>2. QED
    BY <1>2, <2>1, SettledKeeps DEF Good
<1>5. CASE c.task[t].on
  <2>1. ~c.gone
    BY <1>1, <1>5 DEF Good, Sound, Tasks
  <2>2. cause = "connect" => Connects(c, t) /\ c.socket = "none"
    BY <1>1, <1>5 DEF Connects, On, Good, Sound, Tasks
  <2>3. cause = "recover" => Recovers(c, t)
    BY <1>1, <1>5 DEF Recovers, On
  <2> HIDE DEF d
  <2>4. k \in Client /\ LikeExcept(k, d, {"video", "stream"})
    BY <1>2 DEF Client, LikeExcept, Fields
  <2> HIDE DEF k
  <2>5. /\ k.life = d.life /\ k.joins = d.joins /\ k.gone = d.gone /\ k.task = d.task
        /\ k.socket = d.socket
        /\ LikeExcept(k, d, {"life", "video", "stream", "offered", "recovering", "joins"})
    BY <2>4 DEF LikeExcept, Fields
  <2>6. Good(k) /\ ~k.gone
    BY <1>2, <2>1, <2>4, <2>5, FieldsKeep DEF Good
  <2>7. Free(k) # {} /\ \A u \in Slots : (Recovers(k, u) <=> Recovers(d, u))
                                        /\ (Connects(k, u) <=> Connects(d, u))
    BY <1>3, <2>5 DEF Free, Recovers, Connects, On
  <2>8. c' = CASE cause = "connect" -> openSocket(k)
               [] cause = "command" -> k
               [] cause = "recover" ->
                    IF ~c.gone /\ c.socket = "connected"
                    THEN createOffer(k, "recover") ELSE Settled(k, "recover")
    BY <1>5 DEF CaptureDone, d, k
  <2>10. CASE cause = "connect"
    BY <1>2, <1>3, <2>2, <2>5, <2>6, <2>7, <2>8, <2>10, OpenKeeps
  <2>11. CASE cause = "command"
    BY <2>6, <2>8, <2>11
  <2>12. CASE cause = "recover"
    <3>1. Good(Settled(k, "recover"))
      BY <2>6, SettledKeeps DEF Good
    <3>2. Good(createOffer(k, "recover"))
      BY <1>2, <2>3, <2>6, <2>7, <2>12, OfferKeeps
    <3>3. QED
      BY <2>8, <2>12, <3>1, <3>2
  <2>13. cause # "none"
    BY <1>1, <1>5 DEF Good, Sound, Tasks, On
  <2>14. QED
    BY <1>1, <2>10, <2>11, <2>12, <2>13 DEF Causes
<1>6. QED
  BY <1>4, <1>5

\* An await of a task that is no question for a password ends.
LEMMA TaskEnds ==
  ASSUME Good(c), NEW t \in Slots, c.task[t].kind # "password"
  PROVE  Good(Settled(Done(c, t), c.task[t].cause))
<1> DEFINE d == Done(c, t)
<1>1. Sound(d) /\ Seat(d)
  BY DoneKeeps DEF Good
<1> HIDE DEF d
<1>2. Good(Settled(d, c.task[t].cause))
  BY <1>1, SettledKeeps DEF Good
<1>3. QED
  BY <1>2 DEF d

LEMMA CommandKeeps ==
  ASSUME Good(c), HandleHostCommand
  PROVE  Good(c')
<1>1. ~c.gone
  BY GoneFacts DEF HandleHostCommand
<1>2. QED
  BY <1>1, CaptureKeeps DEF HandleHostCommand, Causes

LEMMA SocketConnectsKeeps ==
  ASSUME BoundsAssumption, Good(c), SocketConnects
  PROVE  Good(c')
<1> DEFINE h == [c EXCEPT !.socket = "connected"]
           k == Transition(h, "signaling-connected")
<1>1. c \in Client /\ c.socket = "connecting" /\ ~c.gone
  BY GoneFacts DEF SocketConnects
<1>2. h \in Client /\ h.socket = "connected" /\ LikeExcept(h, c, {"socket"})
  BY <1>1 DEF Client, LikeExcept, Fields
<1> HIDE DEF h
<1>3. /\ h.gone = c.gone /\ h.life = c.life /\ h.task = c.task /\ h.timers = c.timers
      /\ h.peer = c.peer /\ h.pc = c.pc /\ h.remote = c.remote /\ h.tracks = c.tracks
      /\ h.pending = c.pending
  BY <1>2 DEF LikeExcept, Fields
<1>4. Tasks(h)
  BY <1>1, <1>2, <1>3 DEF Good, Sound, Tasks, On, Connects, Recovers
<1>5. Sound(h) /\ ~h.gone
  BY <1>1, <1>2, <1>3, <1>4 DEF Good, Sound, Silent, Goes
<1>6. Sound(k)
  BY <1>5, TransitionKeeps DEF Events
<1>7. c' = joinSession(k)
  BY DEF SocketConnects, h, k
<1> HIDE DEF k
<1>8. QED
  BY <1>6, <1>7, JoinKeeps

LEMMA SocketDropsKeeps ==
  ASSUME BoundsAssumption, Good(c), SocketDrops
  PROVE  Good(c')
<1>1. PICK next \in {"connecting", "stopped"} :
        c' = scheduleReconnect(Stop([c EXCEPT !.socket = next, !.joins = 0], {"heartbeat"}))
  BY DEF SocketDrops
<1> DEFINE h == [c EXCEPT !.socket = next, !.joins = 0]
           k == Stop(h, {"heartbeat"})
<1>2. c \in Client /\ c.socket = "connected" /\ ~c.gone
  BY GoneFacts DEF SocketDrops
<1>3. 0 \in 0 .. MaxJoins
  BY DEF BoundsAssumption
<1>4. h \in Client /\ h.socket = next /\ LikeExcept(h, c, {"socket", "joins"})
  BY <1>2, <1>3 DEF Client, LikeExcept, Fields
<1> HIDE DEF h
<1>5. k \in Client /\ k.timers = h.timers \ {"heartbeat"} /\ LikeExcept(k, h, {"timers"})
  BY <1>4, StopFields
<1> HIDE DEF k
<1>6. /\ k.gone = c.gone /\ k.life = c.life /\ k.task = c.task /\ k.socket = next
      /\ k.timers = c.timers \ {"heartbeat"}
      /\ k.peer = c.peer /\ k.pc = c.pc /\ k.remote = c.remote /\ k.tracks = c.tracks
      /\ k.pending = c.pending
  BY <1>4, <1>5 DEF LikeExcept, Fields
<1>7. Tasks(k)
  BY <1>2, <1>6 DEF Good, Sound, Tasks, On, Connects, Recovers
<1>8. Silent(k) /\ Goes(k) /\ Seat(k)
  BY <1>2, <1>6 DEF Good, Sound, Silent, Goes, Seat
<1>9. Good(k)
  BY <1>5, <1>7, <1>8 DEF Good, Sound
<1>10. QED
  BY <1>1, <1>9, ReconnectKeeps DEF h, k

\* An answer leaves the client as it is but for the requests without one.
LEMMA AnsweredFacts ==
  ASSUME BoundsAssumption, Good(c), c.socket = "connected", c.joins > 0, NEW k \in Answered
  PROVE  /\ Sound(k) /\ ~k.gone /\ k.socket = "connected" /\ k.task = c.task
<1>1. c \in Client /\ ~c.gone
  BY GoneFacts
<1>2. k \in Client /\ LikeExcept(k, c, {"joins"})
  <2>1. CASE k = c
    BY <1>1, <2>1 DEF LikeExcept
  <2>2. CASE k = [c EXCEPT !.joins = c.joins - 1]
    <3>1. c.joins - 1 \in 0 .. MaxJoins
      BY <1>1 DEF Client, BoundsAssumption
    <3> DEFINE fewer == c.joins - 1
    <3> HIDE DEF fewer
    <3>2. k = [c EXCEPT !.joins = fewer] /\ fewer \in 0 .. MaxJoins
      BY <2>2, <3>1 DEF fewer
    <3>3. QED
      BY <1>1, <3>2 DEF Client, LikeExcept, Fields
  <2>3. QED
    BY <2>1, <2>2 DEF Answered
<1>3. /\ LikeExcept(k, c, {"life", "video", "stream", "offered", "recovering", "joins"})
      /\ k.life = c.life /\ k.gone = c.gone /\ k.socket = c.socket /\ k.task = c.task
  BY <1>2 DEF LikeExcept, Fields
<1>4. QED
  BY <1>1, <1>2, <1>3, FieldsKeep DEF Good

LEMMA JoinAnsweredKeeps ==
  ASSUME BoundsAssumption, Good(c), JoinSucceeds \/ JoinNeedsPassword \/ JoinRefused
  PROVE  Good(c')
<1>1. CASE JoinSucceeds
  <2>1. PICK k \in Answered : c' = Arm(Transition(k, "join-succeeded"), "heartbeat")
    BY <1>1 DEF JoinSucceeds
  <2>2. Sound(k) /\ ~k.gone /\ k.socket = "connected"
    BY <1>1, AnsweredFacts DEF JoinSucceeds
  <2> DEFINE q == Transition(k, "join-succeeded")
  <2>3. Sound(q) /\ ~q.gone /\ q.socket = "connected"
    BY <2>2, TransitionKeeps, TransitionFields DEF Events, Sound, LikeExcept, Fields
  <2>4. c' = Arm(q, "heartbeat")
    BY <2>1
  <2> HIDE DEF q
  <2>5. QED
    BY <2>3, <2>4, ArmKeeps DEF TimerKinds, Good
<1>2. CASE JoinNeedsPassword
  <2>1. PICK k \in Answered : c' = Await(k, "password", "none")
    BY <1>2 DEF JoinNeedsPassword
  <2>2. Sound(k) /\ ~k.gone /\ k.task = c.task
    BY <1>2, AnsweredFacts DEF JoinNeedsPassword
  <2>3. Free(k) # {}
    BY <1>2, <2>2 DEF JoinNeedsPassword, Free
  <2>4. QED
    BY <2>1, <2>2, <2>3, AwaitKeeps DEF TaskKinds, Causes, Good
<1>3. CASE JoinRefused
  BY <1>3, AnsweredFacts, DisconnectKeeps DEF JoinRefused, Sound
<1>4. QED
  BY <1>1, <1>2, <1>3

LEMMA PasswordKeeps ==
  ASSUME BoundsAssumption, Good(c), NEW t \in Slots, PasswordGiven(t) \/ PasswordCancelled(t)
  PROVE  Good(c')
<1> DEFINE d == Done(c, t)
<1>1. Sound(d) /\ d \in Client
  BY DoneKeeps DEF Good, Sound
<1>2. c' = joinSession(d) \/ c' = disconnect(d)
  BY DEF PasswordGiven, PasswordCancelled
<1> HIDE DEF d
<1>3. QED
  BY <1>1, <1>2, JoinKeeps, DisconnectKeeps

\* The server, or an offer, names the peer.
LEMMA PeerKeeps ==
  ASSUME PeersAssumption, Good(c), ~c.gone, NEW p \in Peers
  PROVE  LET k == [c EXCEPT !.peer = p]
         IN  /\ Good(k) /\ ~k.gone /\ Free(k) = Free(c) /\ k.socket = c.socket
             /\ k.pc = c.pc /\ k.role = c.role /\ k.task = c.task
<1> DEFINE k == [c EXCEPT !.peer = p]
<1>1. k \in Client /\ k.peer # NoPeer /\ LikeExcept(k, c, {"peer"})
  BY DEF Good, Sound, Client, LikeExcept, Fields, PeersAssumption
<1> HIDE DEF k
<1>2. /\ k.gone = c.gone /\ k.life = c.life /\ k.task = c.task /\ k.socket = c.socket
      /\ k.timers = c.timers /\ k.joins = c.joins /\ k.role = c.role
      /\ k.pc = c.pc /\ k.remote = c.remote /\ k.tracks = c.tracks /\ k.pending = c.pending
  BY <1>1 DEF LikeExcept, Fields
<1>3. Tasks(k)
  BY <1>2 DEF Good, Sound, Tasks, On, Connects, Recovers
<1>4. Silent(k) /\ Goes(k) /\ Seat(k) /\ Free(k) = Free(c)
  BY <1>1, <1>2 DEF Good, Sound, Silent, Goes, Seat, Free
<1>5. QED
  BY <1>1, <1>2, <1>3, <1>4 DEF Good, Sound, k

LEMMA SessionJoinedKeeps ==
  ASSUME PeersAssumption, Good(c), NEW p \in Peers, SessionJoined(p)
  PROVE  Good(c')
<1> DEFINE h == [c EXCEPT !.peer = p]
           k == Transition(h, "peer-announced")
<1>1. ~c.gone
  BY GoneFacts DEF SessionJoined
<1>2. Good(h) /\ ~h.gone /\ Free(h) = Free(c) /\ h \in Client
  BY <1>1, PeerKeeps DEF Good, Sound
<1> HIDE DEF h
<1>3. Good(k) /\ ~k.gone
  BY <1>2, TransitionKeeps DEF Events, Good
<1>4. k.task = h.task
  BY <1>2, TransitionFields DEF Events, LikeExcept, Fields
<1> HIDE DEF k
<1>5. Free(k) = Free(c)
  BY <1>2, <1>4 DEF Free
<1>6. (Free(c) # {} /\ c' = createOffer(k, "none")) \/ c' = k
  BY DEF SessionJoined, h, k
<1>7. QED
  BY <1>3, <1>5, <1>6, OfferKeeps

LEMMA PeerLeavesKeeps ==
  ASSUME Good(c), NEW p \in Peers, PeerLeaves(p)
  PROVE  Good(c')
<1> DEFINE k == [c EXCEPT !.peer = NoPeer]
<1>1. ~c.gone /\ c \in Client
  BY GoneFacts DEF PeerLeaves
<1>2. k \in Client /\ LikeExcept(k, c, {"peer"})
  BY <1>1 DEF Client, LikeExcept, Fields
<1>3. c' = resetPeerConnection(k)
  BY DEF PeerLeaves
<1> HIDE DEF k
<1>4. /\ k.gone = c.gone /\ k.timers = c.timers /\ k.socket = c.socket
      /\ k.joins = c.joins /\ k.task = c.task
  BY <1>2 DEF LikeExcept, Fields
<1>5. ~k.gone /\ Seat(k) /\ ("heartbeat" \in k.timers => k.socket = "connected")
  BY <1>1, <1>4 DEF Good, Sound, Goes, Seat
<1>6. QED
  BY <1>2, <1>3, <1>5, ResetKeeps DEF Good

LEMMA MessageKeeps ==
  ASSUME PeersAssumption, Good(c), PeerMessage
  PROVE  Good(c')
<1>1. ~c.gone /\ c \in Client
  BY GoneFacts DEF PeerMessage, HandleAnswer, HandleIceCandidate, HandleOffer
<1>2. ASSUME NEW p \in Peers, HandleOffer(p) PROVE Good(c')
  <2> DEFINE h == [c EXCEPT !.peer = p]
             k == ensurePeerConnection(h)
  <2>1. Good(h) /\ ~h.gone /\ Free(h) = Free(c) /\ h.socket = c.socket
    BY <1>1, PeerKeeps
  <2> HIDE DEF h
  <2>2. Sound(k) /\ ~k.gone /\ Free(k) = Free(h) /\ k.socket = h.socket /\ Seat(k)
    BY <2>1, EnsureKeeps DEF Good
  <2>3. c' = Await(k, "offered", "none") /\ Free(c) # {} /\ c.socket = "connected"
    BY <1>2 DEF HandleOffer, h
  <2> HIDE DEF k
  <2>4. QED
    BY <2>1, <2>2, <2>3, AwaitKeeps DEF TaskKinds, Causes, Good
<1>3. CASE HandleAnswer
  <2> DEFINE k == ensurePeerConnection(c)
  <2>1. Sound(k) /\ ~k.gone /\ Free(k) = Free(c) /\ Seat(k)
    BY <1>1, EnsureKeeps DEF Good
  <2>2. c' = Await(k, "accept", "none") /\ Free(c) # {}
    BY <1>3 DEF HandleAnswer
  <2> HIDE DEF k
  <2>3. QED
    BY <2>1, <2>2, AwaitKeeps DEF TaskKinds, Causes, Good
<1>4. CASE HandleIceCandidate
  <2> DEFINE k == ensurePeerConnection(c)
             r == [k EXCEPT !.pending = TRUE]
  <2>1. Sound(k) /\ ~k.gone /\ k.pc # "none" /\ Seat(k) /\ k \in Client
    BY <1>1, EnsureKeeps DEF Good, Sound
  <2>2. c' = IF k.remote THEN k ELSE r
    BY <1>4 DEF HandleIceCandidate
  <2> HIDE DEF k
  <2>3. r \in Client /\ LikeExcept(r, k, {"pending"})
    BY <2>1 DEF Client, LikeExcept, Fields
  <2> HIDE DEF r
  <2>4. /\ r.gone = k.gone /\ r.life = k.life /\ r.task = k.task /\ r.socket = k.socket
        /\ r.timers = k.timers /\ r.joins = k.joins /\ r.peer = k.peer
        /\ r.pc = k.pc /\ r.remote = k.remote /\ r.tracks = k.tracks
    BY <2>3 DEF LikeExcept, Fields
  <2>5. Tasks(r)
    BY <2>1, <2>4 DEF Sound, Tasks, On, Connects, Recovers
  <2>6. ~k.remote => Silent(r) /\ Goes(r) /\ Seat(r)
    BY <2>1, <2>4 DEF Sound, Silent, Goes, Seat
  <2>7. QED
    BY <2>1, <2>2, <2>3, <2>5, <2>6 DEF Good, Sound
<1>5. QED
  BY <1>2, <1>3, <1>4 DEF PeerMessage

LEMMA RemoteSetKeeps ==
  ASSUME Good(c), NEW t \in Slots, RemoteSet(t)
  PROVE  Good(c')
<1>1. c \in Client /\ c.task \in [Slots -> Task] /\ c.task[t] \in Task
  BY DEF Good, Sound, Client
<1>2. CASE c.task[t].kind = "accept"
  <2> DEFINE d == Done(c, t)
  <2>1. Sound(d) /\ Seat(d) /\ d.gone = c.gone /\ d \in Client
    BY <1>2, DoneKeeps DEF Good, Sound
  <2>2. c' = [d EXCEPT !.remote = TRUE, !.pending = FALSE, !.offered = FALSE]
    BY <1>2 DEF RemoteSet
  <2> HIDE DEF d
  <2>3. c' \in Client /\ ~c'.pending /\ LikeExcept(c', d, {"remote", "pending", "offered"})
    BY <2>1, <2>2 DEF Client, LikeExcept, Fields
  <2> DEFINE r == c'
  <2> HIDE DEF r
  <2>4. r \in Client /\ ~r.pending /\ LikeExcept(r, d, {"remote", "pending", "offered"})
    BY <2>3 DEF r
  <2>5. /\ r.gone = d.gone /\ r.life = d.life /\ r.task = d.task /\ r.socket = d.socket
        /\ r.timers = d.timers /\ r.joins = d.joins /\ r.peer = d.peer
        /\ r.pc = d.pc /\ r.tracks = d.tracks /\ r.recovering = d.recovering
        /\ r.listening = d.listening /\ r.stream = d.stream
    BY <2>4 DEF LikeExcept, Fields
  <2>6. Tasks(r)
    BY <2>1, <2>5 DEF Sound, Tasks, On, Connects, Recovers
  <2>7. Silent(r) /\ Goes(r) /\ Seat(r)
    BY <2>1, <2>4, <2>5 DEF Sound, Silent, Goes, Seat
  <2>8. QED
    BY <2>4, <2>6, <2>7 DEF Good, Sound, r
<1>3. CASE c.task[t].kind = "offered"
  <2> DEFINE answer == [c.task[t] EXCEPT !.kind = "answer"]
             tasks == [c.task EXCEPT ![t] = answer]
  <2>1. answer \in Task /\ answer.kind = "answer" /\ answer.on = c.task[t].on
    BY <1>1 DEF Task, TaskKinds
  <2>2. c' = [c EXCEPT !.remote = TRUE, !.pending = FALSE, !.task = tasks]
    BY <1>1, <1>3 DEF RemoteSet, Client
  <2> HIDE DEF answer
  <2>3. /\ tasks \in [Slots -> Task] /\ tasks[t] = answer
        /\ \A u \in Slots : u # t => tasks[u] = c.task[u]
    BY <1>1, <2>1
  <2> HIDE DEF tasks
  <2> DEFINE r == c'
  <2> HIDE DEF r
  <2>4. /\ r \in Client /\ ~r.pending /\ r.task = tasks
        /\ LikeExcept(r, c, {"remote", "pending", "task"})
    BY <1>1, <2>2, <2>3 DEF Client, LikeExcept, Fields, r
  <2>5. /\ r.gone = c.gone /\ r.life = c.life /\ r.socket = c.socket
        /\ r.timers = c.timers /\ r.joins = c.joins /\ r.peer = c.peer
        /\ r.pc = c.pc /\ r.tracks = c.tracks /\ r.recovering = c.recovering
        /\ r.listening = c.listening /\ r.stream = c.stream
    BY <2>4 DEF LikeExcept, Fields
  <2>6. c.task[t].on /\ ~c.gone /\ c.socket # "none" /\ c.life # "idle"
    <3>1. c.task[t].on
      BY <1>3 DEF RemoteSet
    <3>2. QED
      BY <1>3, <3>1 DEF Good, Sound, Tasks, On
  <2>7. /\ ~Connects(r, t) /\ ~Recovers(r, t) /\ ~On(r, t, {"capture"})
        /\ \A u \in Slots : u # t =>
            /\ Connects(r, u) <=> Connects(c, u)
            /\ Recovers(r, u) <=> Recovers(c, u)
            /\ On(r, u, {"capture"}) <=> On(c, u, {"capture"})
            /\ On(r, u, {"offer", "answer", "offered"})
                    <=> On(c, u, {"offer", "answer", "offered"})
            /\ r.task[u] = c.task[u]
    BY <2>1, <2>3, <2>4 DEF Connects, Recovers, On
  <2>8. Tasks(r)
    BY <2>5, <2>6, <2>7 DEF Good, Sound, Tasks
  <2>9. Silent(r) /\ Goes(r)
    BY <2>4, <2>5, <2>6 DEF Good, Sound, Silent, Goes
  <2>10. Seat(r)
    BY <1>3, <2>5, <2>7 DEF Good, Seat
  <2>11. QED
    BY <2>4, <2>8, <2>9, <2>10 DEF Good, Sound, r
<1>4. QED
  BY <1>2, <1>3 DEF RemoteSet

LEMMA LocalSetKeeps ==
  ASSUME Good(c), NEW t \in Slots, LocalSet(t)
  PROVE  Good(c')
<1> DEFINE d == Done(c, t)
           k == Settled(d, c.task[t].cause)
           r == [k EXCEPT !.offered = TRUE]
<1>1. c.task[t].kind # "password" /\ ~c.gone
  BY DEF LocalSet, Good, Sound, Tasks
<1>2. Good(d) /\ d.gone = c.gone
  BY <1>1, DoneKeeps DEF Good
<1> HIDE DEF d
<1>3. Good(k) /\ k.gone = d.gone
  BY <1>2, SettledKeeps DEF Good
<1>4. c' = r \/ c' = d
  BY DEF LocalSet, d
<1> HIDE DEF k
<1>5. r \in Client /\ LikeExcept(r, k, {"offered"})
  BY <1>3 DEF Good, Sound, Client, LikeExcept, Fields
<1> HIDE DEF r
<1>6. LikeExcept(r, k, {"life", "video", "stream", "offered", "recovering", "joins"})
      /\ r.life = k.life /\ r.joins = k.joins
  BY <1>5 DEF LikeExcept, Fields
<1>7. Good(r)
  BY <1>1, <1>2, <1>3, <1>5, <1>6, FieldsKeep DEF Good
<1>8. QED
  BY <1>2, <1>4, <1>7

LEMMA PcConnectsKeeps ==
  ASSUME Good(c), PcConnects
  PROVE  Good(c')
<1> DEFINE h == [c EXCEPT !.pc = "connected", !.recovering = FALSE]
           k == Transition(h, "webrtc-connected")
           s == Stop(k, {"reconnect"})
           a == Arm(s, "stats")
<1>1. c \in Client /\ ~c.gone /\ c.pc # "none"
  BY GoneFacts DEF PcConnects
<1>2. h \in Client /\ h.pc = "connected" /\ LikeExcept(h, c, {"pc", "recovering"})
  BY <1>1 DEF Client, LikeExcept, Fields
<1> HIDE DEF h
<1>3. /\ h.gone = c.gone /\ h.life = c.life /\ h.task = c.task /\ h.socket = c.socket
      /\ h.timers = c.timers /\ h.joins = c.joins /\ h.peer = c.peer
      /\ h.remote = c.remote /\ h.tracks = c.tracks /\ h.pending = c.pending
  BY <1>2 DEF LikeExcept, Fields
<1>4. Tasks(h)
  BY <1>3 DEF Good, Sound, Tasks, On, Connects, Recovers
<1>5. Silent(h) /\ Goes(h) /\ Seat(h)
  BY <1>1, <1>2, <1>3 DEF Good, Sound, Silent, Goes, Seat
<1>6. Good(h) /\ ~h.gone
  BY <1>1, <1>2, <1>3, <1>4, <1>5 DEF Good, Sound
<1>7. Good(k) /\ ~k.gone /\ k.pc = "connected"
  BY <1>2, <1>6, TransitionKeeps, TransitionFields DEF Events, Good, LikeExcept, Fields
<1> HIDE DEF k
<1>8. Good(s) /\ ~s.gone /\ s.pc = "connected"
  BY <1>7, StopKeeps, StopFields DEF Good, Sound, LikeExcept, Fields
<1> HIDE DEF s
<1>9. Good(a) /\ a.pc = "connected"
  BY <1>8, ArmKeeps, ArmFields DEF TimerKinds, Good, Sound, LikeExcept, Fields
<1>10. c' = scheduleRemoteTrackWatchdog(a)
  BY DEF PcConnects, h, k, s
<1> HIDE DEF a
<1>11. QED
  BY <1>9, <1>10, WatchdogKeeps

LEMMA PcBreaksKeeps ==
  ASSUME Good(c), PcBreaks
  PROVE  Good(c')
<1> DEFINE h == [c EXCEPT !.pc = "broken"]
<1>1. c \in Client /\ ~c.gone /\ c.pc # "none"
  BY GoneFacts DEF PcBreaks
<1>2. h \in Client /\ h.pc = "broken" /\ LikeExcept(h, c, {"pc"})
  BY <1>1 DEF Client, LikeExcept, Fields
<1> HIDE DEF h
<1>3. /\ h.gone = c.gone /\ h.life = c.life /\ h.task = c.task /\ h.socket = c.socket
      /\ h.timers = c.timers /\ h.joins = c.joins /\ h.peer = c.peer
      /\ h.remote = c.remote /\ h.tracks = c.tracks /\ h.pending = c.pending
  BY <1>2 DEF LikeExcept, Fields
<1>4. Tasks(h)
  BY <1>3 DEF Good, Sound, Tasks, On, Connects, Recovers
<1>5. Silent(h) /\ Goes(h) /\ Seat(h)
  BY <1>1, <1>2, <1>3 DEF Good, Sound, Silent, Goes, Seat
<1>6. Good(h)
  BY <1>2, <1>4, <1>5 DEF Good, Sound
<1>7. c' = scheduleReconnect(h)
  BY DEF PcBreaks, h
<1>8. QED
  BY <1>6, <1>7, ReconnectKeeps

LEMMA TracksKeep ==
  ASSUME Good(c), TrackStarts \/ TrackEnds
  PROVE  Good(c')
<1>1. c \in Client /\ ~c.gone /\ c.pc # "none"
  BY GoneFacts DEF TrackStarts, TrackEnds, Good, Sound, Goes
<1>2. ASSUME NEW now \in BOOLEAN
      PROVE  Good([c EXCEPT !.tracks = now]) /\ [c EXCEPT !.tracks = now].pc # "none"
  <2> DEFINE h == [c EXCEPT !.tracks = now]
  <2>1. h \in Client /\ LikeExcept(h, c, {"tracks"})
    BY <1>1 DEF Client, LikeExcept, Fields
  <2> HIDE DEF h
  <2>2. /\ h.gone = c.gone /\ h.life = c.life /\ h.task = c.task /\ h.socket = c.socket
        /\ h.timers = c.timers /\ h.joins = c.joins /\ h.peer = c.peer
        /\ h.remote = c.remote /\ h.pc = c.pc /\ h.pending = c.pending
    BY <2>1 DEF LikeExcept, Fields
  <2>3. Tasks(h)
    BY <2>2 DEF Good, Sound, Tasks, On, Connects, Recovers
  <2>4. Silent(h) /\ Goes(h) /\ Seat(h)
    BY <1>1, <2>2 DEF Good, Sound, Silent, Goes, Seat
  <2>5. QED
    BY <1>1, <2>1, <2>2, <2>3, <2>4 DEF Good, Sound, h
<1>3. CASE TrackStarts
  <2>1. c' = Stop([c EXCEPT !.tracks = TRUE], {"watchdog"})
    BY <1>3 DEF TrackStarts
  <2>2. Good([c EXCEPT !.tracks = TRUE])
    BY <1>2
  <2>3. QED
    BY <2>1, <2>2, StopKeeps DEF Good
<1>4. CASE TrackEnds
  <2>1. c' = scheduleRemoteTrackWatchdog([c EXCEPT !.tracks = FALSE])
    BY <1>4 DEF TrackEnds
  <2>2. Good([c EXCEPT !.tracks = FALSE]) /\ [c EXCEPT !.tracks = FALSE].pc # "none"
    BY <1>2
  <2>3. QED
    BY <2>1, <2>2, WatchdogKeeps
<1>5. QED
  BY <1>3, <1>4

LEMMA ReconnectFiresKeeps ==
  ASSUME BoundsAssumption, Good(c), ReconnectFires
  PROVE  Good(c')
<1> DEFINE k == Stop(c, {"reconnect"})
           h == [k EXCEPT !.recovering = TRUE]
           r == resetPeerConnection(h)
<1>1. Good(k) /\ k \in Client
  BY StopKeeps DEF Good, Sound
<1>2. k.task = c.task /\ k.role = c.role
  BY StopFields DEF Good, Sound, LikeExcept, Fields
<1>3. c' = IF k.gone \/ k.peer = NoPeer \/ k.recovering THEN k ELSE recoverConnection(h)
  BY DEF ReconnectFires
<1> HIDE DEF k
<1>4. CASE k.gone \/ k.peer = NoPeer \/ k.recovering
  BY <1>1, <1>3, <1>4
<1>5. CASE ~(k.gone \/ k.peer = NoPeer \/ k.recovering)
  <2>1. h \in Client /\ LikeExcept(h, k, {"recovering"})
    BY <1>1 DEF Client, LikeExcept, Fields
  <2> HIDE DEF h
  <2>2. /\ h.life = k.life /\ h.gone = k.gone /\ h.peer = k.peer /\ h.joins = k.joins
        /\ h.task = k.task /\ h.role = k.role
        /\ LikeExcept(h, k, {"life", "video", "stream", "offered", "recovering", "joins"})
    BY <2>1 DEF LikeExcept, Fields
  <2>3. Good(h) /\ ~h.gone
    BY <1>1, <1>5, <2>1, <2>2, FieldsKeep DEF Good
  <2>4. /\ Good(r) /\ ~r.gone /\ Free(h) \subseteq Free(r) /\ r.role = h.role
        /\ \A t \in Slots : ~Recovers(r, t)
    BY <2>3, ResetKeeps DEF Good, Sound, Goes
  <2>5. c' = CASE h.role = "host" -> startDesktopCapture(r, "recover")
               [] h.role = "viewer" ->
                    Settled(IF r.socket = "connected" THEN joinSession(r) ELSE r, "recover")
    BY <1>3, <1>5, <2>2 DEF recoverConnection
  <2> HIDE DEF r
  <2>6. CASE h.role = "host"
    <3>1. Free(r) # {}
      BY <1>2, <2>2, <2>4, <2>6 DEF ReconnectFires, Free
    <3>2. QED
      BY <2>4, <2>5, <2>6, <3>1, CaptureKeeps DEF Causes
  <2>7. CASE h.role = "viewer"
    <3>1. Good(joinSession(r))
      BY <2>4, JoinKeeps DEF Good
    <3>2. c' = Settled(joinSession(r), "recover") \/ c' = Settled(r, "recover")
      BY <2>5, <2>7
    <3>3. QED
      BY <2>4, <3>1, <3>2, SettledKeeps DEF Good
  <2>8. QED
    BY <2>1, <2>6, <2>7 DEF Client
<1>6. QED
  BY <1>4, <1>5

LEMMA WatchdogFiresKeeps ==
  ASSUME BoundsAssumption, Good(c), WatchdogFires
  PROVE  Good(c')
<1> DEFINE k == Stop(c, {"watchdog"})
<1>1. Good(k)
  BY StopKeeps DEF Good
<1>2. c' = k \/ c' = joinSession(k) \/ c' = scheduleReconnect(k)
  BY DEF WatchdogFires
<1> HIDE DEF k
<1>3. QED
  BY <1>1, <1>2, JoinKeeps, ReconnectKeeps DEF Good

LEMMA ResumeKeeps ==
  ASSUME BoundsAssumption, Good(c), PotentialResume \/ RecoverAfterNetworkResume
  PROVE  Good(c')
<1>1. CASE PotentialResume
  <2>1. c' = IF c.gone THEN c ELSE Arm(c, "resume")
    BY <1>1 DEF PotentialResume
  <2>2. QED
    BY <2>1, ArmKeeps DEF TimerKinds, Good
<1>2. CASE RecoverAfterNetworkResume
  <2> DEFINE k == Stop(c, {"resume"})
             joined == joinSession(k)
             h == [k EXCEPT !.socket = "connecting"]
  <2>1. Good(k) /\ k \in Client
    BY StopKeeps DEF Good, Sound
  <2>2. k.task = c.task /\ k.role = c.role
    BY StopFields DEF Good, Sound, LikeExcept, Fields
  <2>3. c' = CASE k.gone \/ k.socket = "none" -> k
               [] k.socket \in {"connecting", "stopped"} -> h
               [] k.socket = "connected" ->
                    IF k.role = "host" /\ k.peer # NoPeer /\ k.pc = "connected"
                    THEN createOffer(joined, "none")
                    ELSE IF k.pc = "broken" THEN resetPeerConnection(joined)
                    ELSE joined
    BY <1>2 DEF RecoverAfterNetworkResume
  <2>4. k.role = "host" => Free(k) # {}
    BY <1>2, <2>2 DEF RecoverAfterNetworkResume, Free
  <2> HIDE DEF k
  <2>5. Good(joined) /\ joined.gone = k.gone /\ Free(joined) = Free(k)
    BY <2>1, JoinKeeps DEF Good
  <2> HIDE DEF joined
  <2>6. CASE k.gone \/ k.socket = "none"
    <3>1. k.socket = "none"
      BY <2>1, <2>6, GoneFacts
    <3>2. c' = k
      BY <2>3, <3>1
    <3>3. QED
      BY <2>1, <3>2
  <2>7. CASE ~k.gone /\ k.socket \in {"connecting", "stopped"}
    <3>1. c' = h
      BY <2>3, <2>7
    <3>2. h \in Client /\ h.socket = "connecting" /\ LikeExcept(h, k, {"socket"})
      BY <2>1 DEF Client, LikeExcept, Fields
    <3> HIDE DEF h
    <3>3. /\ h.gone = k.gone /\ h.life = k.life /\ h.task = k.task /\ h.joins = k.joins
          /\ h.timers = k.timers /\ h.peer = k.peer /\ h.pc = k.pc
          /\ h.remote = k.remote /\ h.tracks = k.tracks /\ h.pending = k.pending
      BY <3>2 DEF LikeExcept, Fields
    <3>4. Tasks(h)
      BY <2>1, <2>7, <3>2, <3>3 DEF Good, Sound, Tasks, On, Connects, Recovers
    <3>5. Silent(h) /\ Goes(h) /\ Seat(h)
      BY <2>1, <2>7, <3>2, <3>3 DEF Good, Sound, Silent, Goes, Seat
    <3>6. QED
      BY <3>1, <3>2, <3>4, <3>5 DEF Good, Sound
  <2>8. CASE ~k.gone /\ k.socket = "connected"
    <3>1. \/ k.role = "host" /\ c' = createOffer(joined, "none")
          \/ c' = resetPeerConnection(joined)
          \/ c' = joined
      BY <2>3, <2>8
    <3>2. k.role = "host" => Good(createOffer(joined, "none"))
      BY <2>4, <2>5, <2>8, OfferKeeps
    <3>3. Good(resetPeerConnection(joined))
      BY <2>5, <2>8, ResetKeeps DEF Good, Sound, Goes
    <3>4. QED
      BY <2>5, <3>1, <3>2, <3>3
  <2>9. QED
    BY <2>1, <2>6, <2>7, <2>8 DEF Client
<1>3. QED
  BY <1>1, <1>2

LEMMA StepKeeps ==
  ASSUME PeersAssumption, BoundsAssumption, Good(c), ClientStep
  PROVE  Good(c')
<1>1. CASE Connect
  BY <1>1, ConnectKeeps
<1>2. CASE Disconnect
  BY <1>2, DisconnectKeeps, GoneFacts DEF Disconnect
<1>3. CASE HandleHostCommand
  BY <1>3, CommandKeeps
<1>4. CASE PotentialResume \/ RecoverAfterNetworkResume
  BY <1>4, ResumeKeeps
<1>5. CASE SocketStep
  BY <1>5, SocketConnectsKeeps, SocketDropsKeeps DEF SocketStep
<1>6. CASE SessionStep
  BY <1>6, JoinAnsweredKeeps, PasswordKeeps, SessionJoinedKeeps, PeerLeavesKeeps
  DEF SessionStep
<1>7. CASE PeerMessage
  BY <1>7, MessageKeeps
<1>8. CASE PcStep
  BY <1>8, PcConnectsKeeps, PcBreaksKeeps, TracksKeep DEF PcStep
<1>9. CASE ReconnectFires \/ WatchdogFires
  BY <1>9, ReconnectFiresKeeps, WatchdogFiresKeeps
<1>10. ASSUME NEW t \in Slots, TaskStep(t)
       PROVE  Good(c')
  <2>1. CASE CaptureDone(t)
    BY <2>1, CaptureDoneKeeps
  <2>2. CASE CaptureFails(t) \/ NegotiationFails(t)
    BY <2>2, TaskEnds DEF CaptureFails, NegotiationFails
  <2>3. CASE RemoteSet(t)
    BY <2>3, RemoteSetKeeps
  <2>4. CASE LocalSet(t)
    BY <2>4, LocalSetKeeps
  <2>5. QED
    BY <1>10, <2>1, <2>2, <2>3, <2>4 DEF TaskStep
<1>11. QED
  BY <1>1, <1>2, <1>3, <1>4, <1>5, <1>6, <1>7, <1>8, <1>9, <1>10 DEF ClientStep, TimerStep

-------------------------------------------------------------------------------
(* The video of a host.                                                      *)

\* A host that is not given up has a connection with its video, or a capture for
\* it, as long as nothing but a recovery replaces the connection.
Video(k) ==
    /\ "resume" \notin k.timers
    /\ k.role = "host" /\ ~k.gone =>
        k.pc # "none" /\ (k.video \/ \E t \in Slots : On(k, t, {"capture"}))

\* What r shows k shows already.
Shows(r, k) ==
    /\ r \in Client /\ r.role = k.role /\ r.gone = k.gone /\ r.video = k.video
    /\ k.pc # "none" => r.pc # "none"
    /\ "resume" \in r.timers => "resume" \in k.timers
    /\ \A t \in Slots : On(k, t, {"capture"}) => On(r, t, {"capture"})

LEMMA VideoStays ==
  ASSUME NEW k, NEW r, Video(k), Shows(r, k)
  PROVE  Video(r)
BY DEF Video, Shows

LEMMA ShowsOn ==
  ASSUME NEW k, NEW q, NEW r, Shows(q, k), Shows(r, q)
  PROVE  Shows(r, k)
BY DEF Shows

\* Fields of no account.
LEMMA FieldsShow ==
  ASSUME NEW k \in Client, NEW r \in Client, r.pc # "none",
         LikeExcept(r, k, {"life", "socket", "joins", "peer", "pc", "offered", "remote",
                           "tracks", "pending", "recovering", "listening", "stream"})
  PROVE  Shows(r, k)
BY DEF LikeExcept, Fields, Shows, On

LEMMA SameConnectionShows ==
  ASSUME NEW k \in Client, NEW r \in Client,
         LikeExcept(r, k, {"life", "socket", "joins", "peer", "offered", "remote",
                           "tracks", "pending", "recovering", "listening", "stream"})
  PROVE  Shows(r, k)
BY DEF LikeExcept, Fields, Shows, On

LEMMA TransitionShows ==
  ASSUME NEW k \in Client, NEW event \in Events
  PROVE  Shows(Transition(k, event), k)
<1> DEFINE r == Transition(k, event)
<1>1. r \in Client /\ LikeExcept(r, k, {"life"})
  BY TransitionFields
<1> HIDE DEF r
<1>2. Shows(r, k)
  BY <1>1 DEF LikeExcept, Fields, Shows, On
<1>3. QED
  BY <1>2 DEF r

LEMMA TimersShow ==
  ASSUME NEW k \in Client
  PROVE  /\ \A timer \in TimerKinds \ {"resume"} : Shows(Arm(k, timer), k)
         /\ \A timers : Shows(Stop(k, timers), k)
<1>1. ASSUME NEW r \in Client, LikeExcept(r, k, {"timers"}),
             "resume" \in r.timers => "resume" \in k.timers
      PROVE  Shows(r, k)
  BY <1>1 DEF LikeExcept, Fields, Shows, On
<1>2. ASSUME NEW timer \in TimerKinds \ {"resume"} PROVE Shows(Arm(k, timer), k)
  BY <1>1, ArmFields
<1>3. ASSUME NEW timers PROVE Shows(Stop(k, timers), k)
  BY <1>1, StopFields
<1>4. QED
  BY <1>2, <1>3

LEMMA DoneShows ==
  ASSUME NEW k \in Client, NEW t \in Slots, ~On(k, t, {"capture"})
  PROVE  Shows(Done(k, t), k)
<1> DEFINE r == Done(k, t)
<1>1. /\ r \in Client /\ LikeExcept(r, k, {"task"})
      /\ \A u \in Slots : u # t => r.task[u] = k.task[u]
  BY DoneFields
<1> HIDE DEF r
<1>2. Shows(r, k)
  BY <1>1 DEF LikeExcept, Fields, Shows, On
<1>3. QED
  BY <1>2 DEF r

LEMMA AwaitShows ==
  ASSUME NEW k \in Client, NEW kind \in TaskKinds, NEW cause \in Causes, Free(k) # {}
  PROVE  /\ Shows(Await(k, kind, cause), k)
         /\ kind = "capture" => \E t \in Slots : On(Await(k, kind, cause), t, {"capture"})
<1> DEFINE r == Await(k, kind, cause)
           new == [kind |-> kind, cause |-> cause, on |-> TRUE]
<1>1. PICK t \in Slots :
        /\ k.task[t] = NoTask
        /\ r \in Client /\ LikeExcept(r, k, {"task"}) /\ r.task[t] = new
        /\ \A u \in Slots : u # t => r.task[u] = k.task[u]
  BY AwaitFields
<1>2. new.kind = kind /\ new.on
  OBVIOUS
<1> HIDE DEF r, new
<1>3. Shows(r, k)
  BY <1>1 DEF LikeExcept, Fields, Shows, On, NoTask
<1>4. kind = "capture" => On(r, t, {"capture"})
  BY <1>1, <1>2 DEF On
<1>5. QED
  BY <1>3, <1>4 DEF r

LEMMA EnsureShows ==
  ASSUME NEW k \in Client
  PROVE  LET r == ensurePeerConnection(k)
         IN  Shows(r, k) /\ r.pc # "none" /\ Free(r) = Free(k)
<1> DEFINE r == ensurePeerConnection(k)
<1>1. r \in Client /\ r.pc # "none" /\ LikeExcept(r, k, {"pc"})
  BY EnsureFields
<1> HIDE DEF r
<1>2. Shows(r, k) /\ Free(r) = Free(k)
  BY <1>1 DEF LikeExcept, Fields, Shows, On, Free
<1>3. QED
  BY <1>1, <1>2 DEF r

LEMMA JoinShows ==
  ASSUME BoundsAssumption, NEW k, Sound(k)
  PROVE  Shows(joinSession(k), k)
<1> DEFINE r == joinSession(k)
<1>1. /\ Good(r) /\ r.gone = k.gone /\ r.task = k.task /\ r.timers = k.timers
      /\ r.role = k.role /\ r.pc = k.pc /\ r.video = k.video
  BY JoinKeeps
<1> HIDE DEF r
<1>2. Shows(r, k)
  BY <1>1 DEF Shows, On, Good, Sound
<1>3. QED
  BY <1>2 DEF r

LEMMA ReconnectShows ==
  ASSUME NEW k \in Client
  PROVE  Shows(scheduleReconnect(k), k)
<1> DEFINE q == Transition(k, "recovery-started")
<1>1. Shows(k, k)
  BY DEF Shows
<1>2. Shows(q, k) /\ q \in Client
  BY TransitionShows DEF Events, Shows
<1> HIDE DEF q
<1>3. Shows(Arm(q, "reconnect"), q)
  BY <1>2, TimersShow DEF TimerKinds
<1>4. scheduleReconnect(k) = k \/ scheduleReconnect(k) = Arm(q, "reconnect")
  BY DEF scheduleReconnect, q
<1>5. QED
  BY <1>1, <1>2, <1>3, <1>4, ShowsOn

LEMMA WatchdogShows ==
  ASSUME NEW k \in Client
  PROVE  Shows(scheduleRemoteTrackWatchdog(k), k)
BY TimersShow DEF scheduleRemoteTrackWatchdog, TimerKinds

LEMMA SettledShows ==
  ASSUME NEW k, Sound(k), NEW cause
  PROVE  Shows(Settled(k, cause), k)
<1>1. /\ k \in Client /\ Settled(k, cause) \in Client
      /\ LikeExcept(Settled(k, cause), k, {"recovering"})
  BY SettledKeeps DEF Sound
<1>2. QED
  BY <1>1, SameConnectionShows DEF LikeExcept

LEMMA OfferShows ==
  ASSUME NEW k \in Client, Free(k) # {}, NEW cause \in {"none", "recover"}
  PROVE  Shows(createOffer(k, cause), k)
<1> DEFINE q == ensurePeerConnection(k)
<1>1. Shows(k, k)
  BY DEF Shows
<1>2. Shows(q, k) /\ q \in Client /\ Free(q) # {}
  BY EnsureShows DEF Shows
<1> HIDE DEF q
<1>3. Shows(Await(q, "offer", cause), q)
  BY <1>2, AwaitShows DEF TaskKinds, Causes
<1>4. createOffer(k, cause) = k \/ createOffer(k, cause) = Await(q, "offer", cause)
  BY DEF createOffer, q
<1>5. QED
  BY <1>1, <1>2, <1>3, <1>4, ShowsOn

\* A capture is what a host without video needs.
LEMMA CaptureShows ==
  ASSUME NEW k \in Client, Free(k) # {}, NEW cause \in Causes, "resume" \notin k.timers
  PROVE  Video(startDesktopCapture(k, cause))
<1> DEFINE q == ensurePeerConnection(k)
           r == Await(q, "capture", cause)
<1>1. Shows(q, k) /\ q \in Client /\ Free(q) # {} /\ q.pc # "none"
  BY EnsureShows DEF Shows
<1>2. startDesktopCapture(k, cause) = r
  BY DEF startDesktopCapture
<1> HIDE DEF q
<1>3. Shows(r, q) /\ \E t \in Slots : On(r, t, {"capture"})
  BY <1>1, AwaitShows DEF TaskKinds
<1> HIDE DEF r
<1>4. QED
  BY <1>1, <1>2, <1>3 DEF Video, Shows

LEMMA FirstHasVideo ==
  ASSUME NEW role \in {"host", "viewer"}
  PROVE  Video(New(role))
BY DEF New, Video

\* Nobody leaves, no capture fails and no window gets focus.
Calm == surroundings \cap {"leave", "resume", "noCapture"} = {}

LEMMA ConnectShows ==
  ASSUME Good(c), Video(c), Connect
  PROVE  Video(c')
<1> DEFINE h == [c EXCEPT !.gone = FALSE]
           k == Transition(h, "connect-requested")
<1>1. c \in Client /\ "resume" \notin c.timers
  BY DEF Good, Sound, Video
<1>2. h \in Client /\ LikeExcept(h, c, {"gone"})
  BY <1>1 DEF Client, LikeExcept, Fields
<1> HIDE DEF h
<1>3. k \in Client /\ LikeExcept(k, h, {"life"})
  BY <1>2, TransitionFields DEF Events
<1> HIDE DEF k
<1>4. k.timers = c.timers /\ k.task = c.task /\ k.role = c.role
  BY <1>2, <1>3 DEF LikeExcept, Fields
<1>5. CASE c.role = "host"
  <2>1. Free(k) # {} /\ c' = startDesktopCapture(k, "connect")
    BY <1>4, <1>5 DEF Connect, Free, h, k
  <2>2. QED
    BY <1>1, <1>3, <1>4, <2>1, CaptureShows DEF Causes
<1>6. CASE c.role # "host"
  <2>1. c' = openSocket(k)
    BY <1>6 DEF Connect, h, k
  <2>2. LikeExcept(c', k, {"socket", "listening"})
    BY <1>3, <2>1 DEF openSocket, Client, LikeExcept, Fields
  <2>3. c'.role = k.role /\ c'.timers = k.timers
    BY <2>2 DEF LikeExcept, Fields
  <2>4. QED
    BY <1>1, <1>4, <1>6, <2>3 DEF Video
<1>7. QED
  BY <1>5, <1>6

LEMMA CaptureDoneShows ==
  ASSUME Good(c), Video(c), NEW t \in Slots, CaptureDone(t)
  PROVE  Video(c')
<1> DEFINE d == Done(c, t)
           k == [d EXCEPT !.video = TRUE, !.stream = TRUE]
           cause == c.task[t].cause
<1>1. c \in Client /\ Sound(d) /\ d \in Client /\ Free(d) # {}
  BY DoneKeeps, DoneFields DEF Good, Sound
<1>2. d.role = c.role /\ d.gone = c.gone /\ d.pc = c.pc /\ d.timers = c.timers
  BY <1>1, DoneFields DEF LikeExcept, Fields
<1>3. CASE ~c.task[t].on
  <2>1. c' = Settled(d, cause)
    BY <1>3 DEF CaptureDone
  <2>2. Shows(d, c)
    BY <1>1, <1>3, DoneShows DEF On
  <2> HIDE DEF d, cause
  <2>3. QED
    BY <1>1, <2>1, <2>2, SettledShows, VideoStays
<1>4. CASE c.task[t].on
  <2>1. ~c.gone
    BY <1>4 DEF CaptureDone, Good, Sound, Tasks
  <2>2. c.task[t].kind = "capture" /\ cause \in Causes \ {"none"}
    <3>1. c.task[t] \in Task
      BY <1>1 DEF Client
    <3>2. QED
      BY <1>4, <3>1 DEF CaptureDone, Good, Sound, Tasks, On, Task
  <2>3. c' = CASE cause = "connect" -> openSocket(k)
               [] cause = "command" -> k
               [] cause = "recover" ->
                    IF ~c.gone /\ c.socket = "connected"
                    THEN createOffer(k, "recover") ELSE Settled(k, "recover")
    BY <1>4 DEF CaptureDone
  <2> HIDE DEF d, cause
  <2>4. /\ k \in Client /\ k.video /\ LikeExcept(k, d, {"video", "stream"})
    BY <1>1 DEF Client, LikeExcept, Fields
  <2> HIDE DEF k
  <2>5. /\ k.gone = d.gone /\ k.life = d.life /\ k.task = d.task /\ k.pc = d.pc
        /\ k.role = d.role /\ k.timers = d.timers
        /\ LikeExcept(k, d, {"life", "video", "stream", "offered", "recovering", "joins"})
    BY <2>4 DEF LikeExcept, Fields
  <2>6. Sound(k)
    BY <1>1, <1>2, <2>1, <2>4, <2>5, FieldsKeep
  <2>7. Video(k) /\ Free(k) # {}
    BY <1>1, <1>2, <2>1, <2>4, <2>5 DEF Video, Free
  <2>8. Shows(k, k) /\ Shows(openSocket(k), k)
    <3>1. openSocket(k) \in Client /\ LikeExcept(openSocket(k), k, {"socket", "listening"})
      BY <2>4 DEF openSocket, Client, LikeExcept, Fields
    <3>2. QED
      BY <2>4, <3>1, SameConnectionShows DEF LikeExcept
  <2>9. Shows(Settled(k, "recover"), k) /\ Shows(createOffer(k, "recover"), k)
    BY <2>4, <2>6, <2>7, SettledShows, OfferShows
  <2>10. \/ c' = k \/ c' = openSocket(k) \/ c' = createOffer(k, "recover")
         \/ c' = Settled(k, "recover")
    BY <2>2, <2>3 DEF Causes
  <2>11. QED
    BY <2>7, <2>8, <2>9, <2>10, VideoStays
<1>5. QED
  BY <1>3, <1>4

\* Nothing else that a task does concerns the video.
LEMMA TaskShows ==
  ASSUME Good(c), Video(c), Calm, NEW t \in Slots, TaskStep(t), ~CaptureDone(t)
  PROVE  Video(c')
<1> DEFINE d == Done(c, t)
           k == Settled(d, c.task[t].cause)
<1>1. c \in Client /\ Sound(d) /\ d \in Client
  BY DoneKeeps DEF Good, Sound
<1>2. ~CaptureFails(t)
  BY DEF CaptureFails, Calm
<1>3. c.task[t].kind \in {"offer", "offered", "answer", "accept"}
  BY <1>2 DEF TaskStep, RemoteSet, LocalSet, NegotiationFails
<1>4. Shows(d, c)
  BY <1>1, <1>3, DoneShows DEF On
<1>5. CASE RemoteSet(t) /\ c.task[t].kind = "offered"
  <2> DEFINE answer == [c.task[t] EXCEPT !.kind = "answer"]
             tasks == [c.task EXCEPT ![t] = answer]
  <2>1. c.task \in [Slots -> Task] /\ c.task[t] \in Task
    BY <1>1 DEF Client
  <2>2. answer \in Task
    BY <2>1 DEF Task, TaskKinds
  <2>3. c' = [c EXCEPT !.remote = TRUE, !.pending = FALSE, !.task = tasks]
    BY <1>1, <1>5 DEF RemoteSet, Client
  <2> HIDE DEF answer
  <2>4. tasks \in [Slots -> Task] /\ \A u \in Slots : u # t => tasks[u] = c.task[u]
    BY <2>1, <2>2
  <2> HIDE DEF tasks
  <2> DEFINE r == c'
  <2> HIDE DEF r
  <2>5. r \in Client /\ r.task = tasks /\ LikeExcept(r, c, {"remote", "pending", "task"})
    BY <1>1, <2>3, <2>4 DEF Client, LikeExcept, Fields, r
  <2>6. Shows(r, c)
    BY <1>3, <2>4, <2>5 DEF LikeExcept, Fields, Shows, On
  <2>7. QED
    BY <2>6, VideoStays DEF r
<1>6. CASE RemoteSet(t) /\ c.task[t].kind = "accept"
  <2>1. c' = [d EXCEPT !.remote = TRUE, !.pending = FALSE, !.offered = FALSE]
    BY <1>6 DEF RemoteSet
  <2> HIDE DEF d
  <2>2. c' \in Client /\ LikeExcept(c', d, {"remote", "pending", "offered"})
    BY <1>1, <2>1 DEF Client, LikeExcept, Fields
  <2>3. Shows(c', d)
    BY <1>1, <2>2, SameConnectionShows DEF LikeExcept
  <2>4. QED
    BY <1>4, <2>3, ShowsOn, VideoStays
<1>7. CASE LocalSet(t) \/ NegotiationFails(t)
  <2>1. c' = k \/ c' = d \/ c' = [k EXCEPT !.offered = TRUE]
    BY <1>7 DEF LocalSet, NegotiationFails
  <2> HIDE DEF d
  <2>2. Shows(k, d) /\ k \in Client
    BY <1>1, SettledShows DEF Shows
  <2> HIDE DEF k
  <2>3. Shows([k EXCEPT !.offered = TRUE], k)
    <3>1. /\ [k EXCEPT !.offered = TRUE] \in Client
          /\ LikeExcept([k EXCEPT !.offered = TRUE], k, {"offered"})
      BY <2>2 DEF Client, LikeExcept, Fields
    <3>2. QED
      BY <2>2, <3>1, SameConnectionShows DEF LikeExcept
  <2>4. Video(d)
    BY <1>4, VideoStays
  <2>5. Video(k)
    BY <2>2, <2>4, VideoStays
  <2>6. Video([k EXCEPT !.offered = TRUE])
    BY <2>3, <2>5, VideoStays
  <2>7. QED
    BY <2>1, <2>4, <2>5, <2>6
<1>8. QED
  BY <1>2, <1>5, <1>6, <1>7 DEF TaskStep, RemoteSet

LEMMA SocketShows ==
  ASSUME BoundsAssumption, Good(c), Video(c), SocketStep
  PROVE  Video(c')
<1>1. c \in Client /\ 0 \in 0 .. MaxJoins
  BY DEF Good, Sound, BoundsAssumption
<1>2. CASE SocketConnects
  <2> DEFINE h == [c EXCEPT !.socket = "connected"]
             k == Transition(h, "signaling-connected")
  <2>1. h \in Client /\ LikeExcept(h, c, {"socket"})
    BY <1>1 DEF Client, LikeExcept, Fields
  <2>2. c' = joinSession(k)
    BY <1>2 DEF SocketConnects
  <2> HIDE DEF h
  <2>3. Shows(h, c)
    BY <1>1, <2>1, SameConnectionShows DEF LikeExcept
  <2>4. Shows(k, h) /\ k \in Client
    BY <2>1, TransitionShows DEF Events, Shows
  <2>5. LikeExcept(k, h, {"life"})
    BY <2>1, TransitionFields DEF Events
  <2> HIDE DEF k
  <2>6. Shows(c', k)
    <3>1. \/ c' = k
          \/ c' = [Transition(k, "join-requested") EXCEPT
                        !.joins = IF @ = MaxJoins THEN @ ELSE @ + 1]
      BY <2>2 DEF joinSession
    <3>2. c' \in Client
      BY SocketConnectsKeeps, <1>2 DEF Good, Sound
    <3> DEFINE q == Transition(k, "join-requested")
    <3>3. q \in Client /\ LikeExcept(q, k, {"life"})
      BY <2>4, TransitionFields DEF Events
    <3>4. c' = k \/ c' = [q EXCEPT !.joins = IF @ = MaxJoins THEN @ ELSE @ + 1]
      BY <3>1
    <3> HIDE DEF q
    <3>5. c' = k \/ LikeExcept(c', q, {"joins"})
      BY <3>3, <3>4 DEF Client, LikeExcept, Fields
    <3>6. LikeExcept(c', k, {"life", "joins"})
      BY <3>3, <3>5 DEF LikeExcept
    <3>7. QED
      BY <2>4, <3>2, <3>6, SameConnectionShows DEF LikeExcept
  <2>7. QED
    BY <2>3, <2>4, <2>6, ShowsOn, VideoStays
<1>3. CASE SocketDrops
  <2>1. PICK next \in {"connecting", "stopped"} :
          c' = scheduleReconnect(Stop([c EXCEPT !.socket = next, !.joins = 0], {"heartbeat"}))
    BY <1>3 DEF SocketDrops
  <2> DEFINE h == [c EXCEPT !.socket = next, !.joins = 0]
             k == Stop(h, {"heartbeat"})
  <2>2. h \in Client /\ LikeExcept(h, c, {"socket", "joins"})
    BY <1>1 DEF Client, LikeExcept, Fields
  <2> HIDE DEF h
  <2>3. Shows(h, c)
    BY <1>1, <2>2, SameConnectionShows DEF LikeExcept
  <2>4. Shows(k, h) /\ k \in Client
    BY <2>2, TimersShow DEF Shows
  <2> HIDE DEF k
  <2>5. Shows(scheduleReconnect(k), k)
    BY <2>4, ReconnectShows
  <2>6. c' = scheduleReconnect(k)
    BY <2>1 DEF h, k
  <2>7. QED
    BY <2>3, <2>4, <2>5, <2>6, ShowsOn, VideoStays
<1>4. QED
  BY <1>2, <1>3 DEF SocketStep

\* A client that was given up has nothing to show.
LEMMA GoneShows ==
  ASSUME BoundsAssumption, NEW k \in Client
  PROVE  Video(disconnect(k))
BY DisconnectFields DEF Video

LEMMA SessionShows ==
  ASSUME PeersAssumption, BoundsAssumption, Good(c), Video(c), Calm, SessionStep
  PROVE  Video(c')
<1>1. c \in Client
  BY DEF Good, Sound
<1>2. ASSUME NEW k \in Answered, c.socket = "connected", c.joins > 0
      PROVE  Shows(k, c) /\ k \in Client
  <2>1. k \in Client /\ k.task = c.task
    BY <1>2, AnsweredFacts DEF Sound
  <2>2. LikeExcept(k, c, {"joins"})
    <3>1. k = c \/ k = [c EXCEPT !.joins = c.joins - 1]
      BY DEF Answered
    <3> DEFINE fewer == c.joins - 1
    <3> HIDE DEF fewer
    <3>2. k = c \/ k = [c EXCEPT !.joins = fewer]
      BY <3>1 DEF fewer
    <3>3. QED
      BY <1>1, <3>2 DEF Client, LikeExcept, Fields
  <2>3. QED
    BY <1>1, <2>1, <2>2, SameConnectionShows DEF LikeExcept
<1>3. CASE JoinSucceeds
  <2>1. PICK k \in Answered : c' = Arm(Transition(k, "join-succeeded"), "heartbeat")
    BY <1>3 DEF JoinSucceeds
  <2>2. Shows(k, c) /\ k \in Client
    BY <1>2, <1>3 DEF JoinSucceeds
  <2> DEFINE q == Transition(k, "join-succeeded")
  <2>3. Shows(q, k) /\ q \in Client /\ c' = Arm(q, "heartbeat")
    BY <2>1, <2>2, TransitionShows DEF Events, Shows
  <2> HIDE DEF q
  <2>4. Shows(Arm(q, "heartbeat"), q)
    BY <2>3, TimersShow DEF TimerKinds
  <2>5. QED
    BY <2>2, <2>3, <2>4, ShowsOn, VideoStays
<1>4. CASE JoinNeedsPassword
  <2>1. PICK k \in Answered : c' = Await(k, "password", "none")
    BY <1>4 DEF JoinNeedsPassword
  <2>2. Shows(k, c) /\ k \in Client
    BY <1>2, <1>4 DEF JoinNeedsPassword
  <2>3. k.task = c.task
    BY <1>4, AnsweredFacts DEF JoinNeedsPassword
  <2>4. Free(k) # {}
    BY <1>4, <2>3 DEF JoinNeedsPassword, Free
  <2>5. Shows(Await(k, "password", "none"), k)
    BY <2>2, <2>4, AwaitShows DEF TaskKinds, Causes
  <2>6. QED
    BY <2>1, <2>2, <2>5, ShowsOn, VideoStays
<1>5. CASE JoinRefused
  BY <1>2, <1>5, GoneShows DEF JoinRefused
<1>6. ASSUME NEW t \in Slots, PasswordGiven(t) \/ PasswordCancelled(t)
      PROVE  Video(c')
  <2> DEFINE d == Done(c, t)
  <2>1. Sound(d) /\ d \in Client
    BY DoneKeeps DEF Good, Sound
  <2>2. Shows(d, c)
    BY <1>1, <1>6, DoneShows DEF PasswordGiven, PasswordCancelled, On
  <2>3. c' = joinSession(d) \/ c' = disconnect(d)
    BY <1>6 DEF PasswordGiven, PasswordCancelled
  <2> HIDE DEF d
  <2>4. Shows(joinSession(d), d)
    BY <2>1, JoinShows
  <2>5. QED
    BY <2>1, <2>2, <2>3, <2>4, GoneShows, ShowsOn, VideoStays
<1>7. ASSUME NEW p \in Peers, SessionJoined(p)
      PROVE  Video(c')
  <2> DEFINE h == [c EXCEPT !.peer = p]
             k == Transition(h, "peer-announced")
  <2>1. h \in Client /\ LikeExcept(h, c, {"peer"})
    BY <1>1 DEF Client, LikeExcept, Fields
  <2>2. (Free(c) # {} /\ c' = createOffer(k, "none")) \/ c' = k
    BY <1>7 DEF SessionJoined
  <2> HIDE DEF h
  <2>3. Shows(h, c)
    BY <1>1, <2>1, SameConnectionShows DEF LikeExcept
  <2>4. Shows(k, h) /\ k \in Client /\ LikeExcept(k, h, {"life"})
    BY <2>1, TransitionShows, TransitionFields DEF Events, Shows
  <2> HIDE DEF k
  <2>5. k.task = c.task
    BY <2>1, <2>4 DEF LikeExcept, Fields
  <2>6. Free(k) = Free(c)
    BY <2>5 DEF Free
  <2>7. Free(c) # {} => Shows(createOffer(k, "none"), k)
    BY <2>4, <2>6, OfferShows
  <2>8. QED
    BY <2>2, <2>3, <2>4, <2>7, ShowsOn, VideoStays
<1>8. \A p \in Peers : ~PeerLeaves(p)
  BY DEF PeerLeaves, Calm
<1>9. QED
  BY <1>3, <1>4, <1>5, <1>6, <1>7, <1>8 DEF SessionStep

LEMMA MessageShows ==
  ASSUME Good(c), Video(c), PeerMessage
  PROVE  Video(c')
<1>1. c \in Client
  BY DEF Good, Sound
<1>2. ASSUME NEW h \in Client, Shows(h, c), Free(h) # {}, NEW kind \in {"offered", "accept"}
      PROVE  Video(Await(ensurePeerConnection(h), kind, "none"))
  <2> DEFINE k == ensurePeerConnection(h)
  <2>1. Shows(k, h) /\ k \in Client /\ Free(k) # {}
    BY <1>2, EnsureShows DEF Shows
  <2> HIDE DEF k
  <2>2. Shows(Await(k, kind, "none"), k)
    BY <2>1, AwaitShows DEF TaskKinds, Causes
  <2>3. Video(Await(k, kind, "none"))
    BY <1>2, <2>1, <2>2, ShowsOn, VideoStays
  <2>4. QED
    BY <2>3 DEF k
<1>3. ASSUME NEW p \in Peers, HandleOffer(p) PROVE Video(c')
  <2> DEFINE h == [c EXCEPT !.peer = p]
  <2>1. h \in Client /\ LikeExcept(h, c, {"peer"})
    BY <1>1 DEF Client, LikeExcept, Fields
  <2>2. c' = Await(ensurePeerConnection(h), "offered", "none") /\ Free(c) # {}
    BY <1>3 DEF HandleOffer
  <2> HIDE DEF h
  <2>3. Shows(h, c)
    BY <1>1, <2>1, SameConnectionShows DEF LikeExcept
  <2>4. h.task = c.task
    BY <2>1 DEF LikeExcept, Fields
  <2>5. Free(h) # {}
    BY <2>2, <2>4 DEF Free
  <2>6. QED
    BY <1>2, <2>1, <2>2, <2>3, <2>5
<1>4. CASE HandleAnswer
  <2>1. Shows(c, c)
    BY <1>1 DEF Shows
  <2>2. QED
    BY <1>1, <1>2, <1>4, <2>1 DEF HandleAnswer
<1>5. CASE HandleIceCandidate
  <2> DEFINE k == ensurePeerConnection(c)
             r == [k EXCEPT !.pending = TRUE]
  <2>1. Shows(k, c) /\ k \in Client
    BY <1>1, EnsureShows DEF Shows
  <2>2. c' = k \/ c' = r
    BY <1>5 DEF HandleIceCandidate
  <2> HIDE DEF k
  <2>3. r \in Client /\ LikeExcept(r, k, {"pending"})
    BY <2>1 DEF Client, LikeExcept, Fields
  <2> HIDE DEF r
  <2>4. Shows(r, k)
    BY <2>1, <2>3, SameConnectionShows DEF LikeExcept
  <2>5. QED
    BY <2>1, <2>2, <2>4, ShowsOn, VideoStays
<1>6. QED
  BY <1>3, <1>4, <1>5 DEF PeerMessage

LEMMA PcShows ==
  ASSUME Good(c), Video(c), PcStep
  PROVE  Video(c')
<1>1. c \in Client
  BY DEF Good, Sound
<1>2. CASE PcConnects
  <2> DEFINE h == [c EXCEPT !.pc = "connected", !.recovering = FALSE]
             k == Transition(h, "webrtc-connected")
             s == Stop(k, {"reconnect"})
             a == Arm(s, "stats")
  <2>1. h \in Client /\ h.pc # "none" /\ LikeExcept(h, c, {"pc", "recovering"})
    BY <1>1 DEF Client, LikeExcept, Fields
  <2>2. c' = scheduleRemoteTrackWatchdog(a)
    BY <1>2 DEF PcConnects
  <2> HIDE DEF h
  <2>3. Shows(h, c)
    BY <1>1, <2>1, FieldsShow DEF LikeExcept
  <2>4. Shows(k, h) /\ k \in Client
    BY <2>1, TransitionShows DEF Events, Shows
  <2> HIDE DEF k
  <2>5. Shows(s, k) /\ s \in Client
    BY <2>4, TimersShow DEF Shows
  <2> HIDE DEF s
  <2>6. Shows(a, s) /\ a \in Client
    BY <2>5, TimersShow DEF TimerKinds, Shows
  <2> HIDE DEF a
  <2>7. Shows(c', a)
    BY <2>2, <2>6, WatchdogShows
  <2>8. QED
    BY <2>3, <2>4, <2>5, <2>6, <2>7, ShowsOn, VideoStays
<1>3. CASE PcBreaks
  <2> DEFINE h == [c EXCEPT !.pc = "broken"]
  <2>1. h \in Client /\ h.pc # "none" /\ LikeExcept(h, c, {"pc"})
    BY <1>1 DEF Client, LikeExcept, Fields
  <2>2. c' = scheduleReconnect(h)
    BY <1>3 DEF PcBreaks
  <2> HIDE DEF h
  <2>3. Shows(h, c)
    BY <1>1, <2>1, FieldsShow DEF LikeExcept
  <2>4. QED
    BY <2>1, <2>2, <2>3, ReconnectShows, ShowsOn, VideoStays
<1>4. ASSUME NEW now \in BOOLEAN
      PROVE  [c EXCEPT !.tracks = now] \in Client /\ Shows([c EXCEPT !.tracks = now], c)
  <2> DEFINE h == [c EXCEPT !.tracks = now]
  <2>1. h \in Client /\ LikeExcept(h, c, {"tracks"})
    BY <1>1 DEF Client, LikeExcept, Fields
  <2> HIDE DEF h
  <2>2. Shows(h, c)
    BY <1>1, <2>1, SameConnectionShows DEF LikeExcept
  <2>3. QED
    BY <2>1, <2>2 DEF h
<1>5. CASE TrackStarts
  BY <1>4, <1>5, TimersShow, ShowsOn, VideoStays DEF TrackStarts
<1>6. CASE TrackEnds
  BY <1>4, <1>6, WatchdogShows, ShowsOn, VideoStays DEF TrackEnds
<1>7. QED
  BY <1>2, <1>3, <1>5, <1>6 DEF PcStep

LEMMA TimerShows ==
  ASSUME BoundsAssumption, Good(c), Video(c), TimerStep
  PROVE  Video(c')
<1>1. c \in Client
  BY DEF Good, Sound
<1>2. CASE ReconnectFires
  <2> DEFINE k == Stop(c, {"reconnect"})
             h == [k EXCEPT !.recovering = TRUE]
             r == resetPeerConnection(h)
  <2>1. Good(k) /\ k \in Client /\ Shows(k, c)
    BY <1>1, StopKeeps, TimersShow DEF Good, Sound
  <2>2. k.task = c.task /\ k.role = c.role
    BY <1>1, StopFields DEF LikeExcept, Fields
  <2>3. c' = IF k.gone \/ k.peer = NoPeer \/ k.recovering THEN k ELSE recoverConnection(h)
    BY <1>2 DEF ReconnectFires
  <2>4. "resume" \notin k.timers
    BY <2>1 DEF Video, Shows
  <2> HIDE DEF k
  <2>5. CASE k.gone \/ k.peer = NoPeer \/ k.recovering
    BY <2>1, <2>3, <2>5, VideoStays
  <2>6. CASE ~(k.gone \/ k.peer = NoPeer \/ k.recovering)
    <3>1. h \in Client /\ LikeExcept(h, k, {"recovering"})
      BY <2>1 DEF Client, LikeExcept, Fields
    <3> HIDE DEF h
    <3>2. /\ h.gone = k.gone /\ h.peer = k.peer /\ h.timers = k.timers
          /\ h.task = k.task /\ h.role = k.role /\ h.socket = k.socket
      BY <3>1 DEF LikeExcept, Fields
    <3>3. /\ Sound(r) /\ r \in Client /\ Free(h) \subseteq Free(r) /\ r.role = h.role
          /\ r.timers \subseteq h.timers
      BY <2>1, <2>6, <3>1, <3>2, ResetKeeps DEF Good, Sound, Goes
    <3>4. c' = CASE h.role = "host" -> startDesktopCapture(r, "recover")
                 [] h.role = "viewer" ->
                      Settled(IF r.socket = "connected" THEN joinSession(r) ELSE r, "recover")
      BY <2>3, <2>6, <3>2 DEF recoverConnection
    <3> HIDE DEF r
    <3>5. CASE h.role = "host"
      <4>1. Free(r) # {}
        BY <1>2, <2>2, <3>2, <3>3, <3>5 DEF ReconnectFires, Free
      <4>2. QED
        BY <2>4, <3>2, <3>3, <3>4, <3>5, <4>1, CaptureShows DEF Causes
    <3>6. CASE h.role = "viewer"
      <4>1. Shows(joinSession(r), r) /\ Sound(joinSession(r))
        BY <3>3, JoinShows, JoinKeeps DEF Good
      <4>2. c' = Settled(joinSession(r), "recover") \/ c' = Settled(r, "recover")
        BY <3>4, <3>6
      <4>3. Shows(c', r)
        BY <3>3, <4>1, <4>2, SettledShows, ShowsOn
      <4>4. QED
        BY <2>4, <3>2, <3>3, <3>6, <4>3 DEF Video, Shows
    <3>7. QED
      BY <3>1, <3>5, <3>6 DEF Client
  <2>7. QED
    BY <2>5, <2>6
<1>3. CASE WatchdogFires
  <2> DEFINE k == Stop(c, {"watchdog"})
  <2>1. Sound(k) /\ k \in Client /\ Shows(k, c)
    BY <1>1, StopKeeps, TimersShow DEF Good, Sound
  <2>2. c' = k \/ c' = joinSession(k) \/ c' = scheduleReconnect(k)
    BY <1>3 DEF WatchdogFires
  <2> HIDE DEF k
  <2>3. QED
    BY <2>1, <2>2, JoinShows, ReconnectShows, ShowsOn, VideoStays
<1>4. ~RecoverAfterNetworkResume
  BY DEF RecoverAfterNetworkResume, Video
<1>5. QED
  BY <1>2, <1>3, <1>4 DEF TimerStep

LEMMA StepShows ==
  ASSUME PeersAssumption, BoundsAssumption, Good(c), Video(c), Calm, ClientStep
  PROVE  Video(c')
<1>1. c \in Client
  BY DEF Good, Sound
<1>2. CASE Connect
  BY <1>2, ConnectShows
<1>3. CASE Disconnect
  BY <1>1, <1>3, GoneShows DEF Disconnect
<1>4. CASE HandleHostCommand
  BY <1>1, <1>4, CaptureShows DEF HandleHostCommand, Causes, Video
<1>5. ~PotentialResume
  BY DEF PotentialResume, Calm
<1>6. ASSUME NEW t \in Slots, TaskStep(t) PROVE Video(c')
  BY <1>6, CaptureDoneShows, TaskShows
<1>7. QED
  BY <1>2, <1>3, <1>4, <1>5, <1>6, SocketShows, SessionShows, MessageShows, PcShows,
     TimerShows DEF ClientStep

-------------------------------------------------------------------------------
(* The theorems.                                                             *)

LEMMA GoodPromises == Good(c) => PeerClientInv /\ \A t, u \in Slots :
        Recovers(c, t) /\ Recovers(c, u) => t = u
<1> SUFFICES ASSUME Good(c) PROVE PeerClientInv /\ \A t, u \in Slots :
        Recovers(c, t) /\ Recovers(c, u) => t = u
  OBVIOUS
<1>1. TypeOK /\ c.task \in [Slots -> Task]
  BY DEF Good, Sound, TypeOK, Client
<1>2. GivenUpIsSilent
  BY DEF Good, Sound, Silent, Tasks, Goes, GivenUpIsSilent, Live, Waiting
<1>3. SeatHeldOrRequested
  BY DEF Good, Seat, SeatHeldOrRequested, Waiting
<1>4. DescriptionsHaveASocket
  BY DEF Good, Sound, Tasks, On, DescriptionsHaveASocket, Live
<1>5. HeartbeatNeedsSocket /\ QueueBelongsToConnection /\ ReconnectHasAPeer
      /\ WatchersHaveAConnection
  BY DEF Good, Sound, Goes, HeartbeatNeedsSocket, QueueBelongsToConnection,
     ReconnectHasAPeer, WatchersHaveAConnection
<1>6. QED
  BY <1>1, <1>2, <1>3, <1>4, <1>5 DEF PeerClientInv, Good, Sound, Tasks

LEMMA GoodHasOneRecovery == Good(c) => OneRecovery
BY GoodPromises DEF OneRecovery, Live, Recovers, On

\* The invariant, and the video of a host whose surroundings are calm.
ClientInv == Good(c) /\ (Calm => Video(c))

LEMMA ClientInvHolds ==
  ASSUME PeersAssumption, BoundsAssumption
  PROVE  /\ Init => ClientInv
         /\ ClientInv /\ [Next]_vars => ClientInv'
<1>1. Init => ClientInv
  BY FirstIsGood, FirstHasVideo DEF Init, ClientInv
<1>2. ASSUME ClientInv, Next PROVE ClientInv'
  <2>1. ClientStep /\ surroundings' = surroundings
    BY <1>2 DEF Next
  <2>2. Good(c')
    BY <1>2, <2>1, StepKeeps DEF ClientInv
  <2>3. Calm => Video(c')
    BY <1>2, <2>1, StepShows DEF ClientInv
  <2>4. QED
    BY <2>1, <2>2, <2>3 DEF ClientInv, Calm
<1>3. ASSUME ClientInv, UNCHANGED vars PROVE ClientInv'
  BY <1>3 DEF ClientInv, vars, Calm
<1>4. QED
  BY <1>1, <1>2, <1>3

LEMMA ClientPromises ==
  ClientInv => PeerClientInv /\ OneRecovery /\ (Calm => HostStreams)
<1>1. ClientInv /\ Calm => HostStreams
  BY DEF ClientInv, Good, Sound, Silent, Video, HostStreams, Waiting, On
<1>2. QED
  BY <1>1, GoodPromises, GoodHasOneRecovery DEF ClientInv

\* Whatever order awaits, timers and events of the socket come in, a client keeps its
\* seat, its queue of candidates, its timers and its recovery with the connection they
\* belong to, and a host whose surroundings are calm streams the desktop whenever it is
\* connected (RemoteControlClient.ts).
THEOREM ClientKeepsItsPromises ==
  ASSUME PeersAssumption, BoundsAssumption
  PROVE  Spec => [](PeerClientInv /\ OneRecovery /\ (Calm => HostStreams))
BY ClientInvHolds, ClientPromises, PTL DEF Spec

===============================================================================

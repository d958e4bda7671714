------------------------------ MODULE DaemonProofs ------------------------------
(***************************************************************************)
(* What the daemon's configuration, its processes and its replay of a      *)
(* journal keep, for any number of threads, turns, connections, callers,   *)
(* paths, daemons, managers and events:                                    *)
(*   - the last change of the files is what is active or staged, and the   *)
(*     items of a turn are normalized under one generation (RuntimeConfig);*)
(*   - a repository's configuration can only tighten (ConfigLayers);       *)
(*   - the socket leads to the daemon that serves (DaemonLifecycle);       *)
(*   - what it keeps of a thread's journal, before and after a restart     *)
(*     (SignalRecovery, with SignalEngine and ThreadEvidence).             *)
(* They share nothing; each part names only its own module's state.        *)
(***************************************************************************)
EXTENDS RuntimeConfig, ConfigLayers, DaemonLifecycle, SignalRecovery, FiniteSetTheorems,
        WellFoundedInduction, TLAPS

-----------------------------------------------------------------------------
(***************************************************************************)
(* RuntimeConfig, the reloads.  The watcher's reload, the operator's, the  *)
(* boundary of a turn and the changes of the files come in any order; what *)
(* keeps the last change is the lock, held from the loading of a candidate *)
(* to its publication, and that the watcher asks after what it noticed.    *)
(***************************************************************************)

Jobs == [at : {"idle", "asked", "loaded", "returned"},
         candidate : Contents \cup {Invalid, Nothing}, applied : BOOLEAN]

ReloadTypes ==
    /\ disk \in Contents \cup {Invalid} /\ active \in Contents
    /\ pending \in Contents \cup {Nothing}
    /\ holder \in Callers \cup {Nobody}
    /\ job \in [Callers -> Jobs]

\* The lock is held from the loading of a candidate until its publication.
LockHeld ==
    \A c \in Callers : /\ job[c].at = "loaded" <=> holder = c
                       /\ job[c].at = "loaded" => job[c].candidate \in Contents \cup {Invalid}

\* What is active and not in use yet is about to be: its reload has still to return.
HotFollows == hot # active => \E c \in Callers : job[c].at = "returned" /\ job[c].applied

\* A generation that cannot be staged is refused; the boundary takes the other settings.
StagedFits ==
    /\ semantics = active.turn
    /\ pending # Nothing => pending.fixed = active.fixed

\* The store has the content, active or staged.
Reflected(content) ==
    /\ Takes(content) => content = IF pending = Nothing THEN active ELSE pending
    /\ content # Invalid /\ ~Takes(content) => pending = Nothing

\* What the watcher has noticed is in the store, with no reload under way that could take it
\* out again, or the watcher's own reload is going to put it there.
CaughtUp ==
    ~early /\ ~unseen =>
        \/ Reflected(disk) /\ \A c \in Callers : job[c].at = "loaded" => job[c].candidate = disk
        \/ /\ "watcher" \in Callers
           /\ \/ job["watcher"].at = "asked"
              \/ job["watcher"].at = "loaded" /\ job["watcher"].candidate = disk

ReloadInv == ReloadTypes /\ LockHeld /\ HotFollows /\ StagedFits /\ CaughtUp

\* What a reload makes of its candidate.
LEMMA DispositionFacts ==
    ASSUME ReloadTypes, StagedFits, NEW candidate \in Contents \cup {Invalid}
    PROVE  LET next == Disposition(candidate)
           IN  /\ next.active \in Contents /\ next.pending \in Contents \cup {Nothing}
               /\ next.active.turn = active.turn /\ next.active.fixed = active.fixed
               /\ next.pending # Nothing => next.pending.fixed = next.active.fixed
               /\ next.active # active => next.active = candidate
               /\ candidate # Invalid /\ candidate.fixed = active.fixed
                      => candidate = IF next.pending = Nothing THEN next.active ELSE next.pending
               /\ candidate # Invalid /\ candidate.fixed # active.fixed => next.pending = Nothing
<1>1. Nothing \notin Contents /\ Invalid \notin Contents
  BY ConfigAssumption
<1>2. CASE candidate = Invalid
  <2>1. Disposition(candidate) = [active |-> active, pending |-> pending]
    BY <1>2 DEF Disposition
  <2>. QED
    BY <1>2, <2>1 DEF ReloadTypes, StagedFits
<1>3. CASE candidate # Invalid /\ candidate.fixed # active.fixed
  <2>1. Disposition(candidate) = [active |-> active, pending |-> Nothing]
    BY <1>3 DEF Disposition
  <2>. QED
    BY <1>3, <2>1 DEF ReloadTypes, StagedFits
<1>4. CASE candidate # Invalid /\ candidate.fixed = active.fixed
  <2>1. Disposition(candidate) = IF candidate.turn # active.turn
                                 THEN [active |-> active, pending |-> candidate]
                                 ELSE [active |-> candidate, pending |-> Nothing]
    BY <1>4 DEF Disposition
  <2>2. candidate \in Contents
    BY <1>4
  <2>. QED
    BY <1>1, <1>4, <2>1, <2>2 DEF ReloadTypes
<1>. QED
  BY <1>2, <1>3, <1>4

LEMMA ReloadInit == Init => ReloadInv
<1>. SUFFICES ASSUME Init PROVE ReloadInv
  OBVIOUS
<1>1. ReloadTypes
  BY ConfigAssumption DEF Init, ReloadTypes, Jobs, IdleJob
<1>2. LockHeld
  BY ConfigAssumption DEF Init, LockHeld, IdleJob
<1>3. HotFollows /\ StagedFits
  BY DEF Init, HotFollows, StagedFits
<1>4. CaughtUp
  BY DEF Init, CaughtUp, Reflected, Takes, IdleJob
<1>. QED
  BY <1>1, <1>2, <1>3, <1>4 DEF ReloadInv

\* One lemma for each step of a reload.
LEMMA EditKeeps ==
    ASSUME ReloadInv, NEW content \in Contents \cup {Invalid}, Edit(content)
    PROVE  ReloadInv'
<1>1. ReloadTypes' /\ LockHeld' /\ HotFollows' /\ StagedFits'
  BY DEF ReloadInv, ReloadTypes, LockHeld, HotFollows, StagedFits, Edit, store
<1>2. CaughtUp'
  BY DEF Edit, CaughtUp
<1>. QED
  BY <1>1, <1>2 DEF ReloadInv

LEMMA AskKeeps ==
    ASSUME ReloadInv, NEW c \in Callers, Ask(c)
    PROVE  ReloadInv'
<1>. USE DEF ReloadInv
<1>1. /\ job' = [job EXCEPT ![c].at = "asked"]
      /\ UNCHANGED <<disk, active, pending, holder, early, hot, semantics>>
  BY DEF Ask, server
<1>2. job[c].at = "idle" /\ (c = "watcher" => unseen) /\ unseen' = IF c = "watcher" THEN FALSE ELSE unseen
  BY DEF Ask
<1>3. job' \in [Callers -> Jobs]
  BY <1>1 DEF ReloadTypes, Jobs
<1>4. job'[c] = [at |-> "asked", candidate |-> job[c].candidate, applied |-> job[c].applied]
  BY <1>1 DEF ReloadTypes, Jobs
<1>5. \A d \in Callers : d # c => job'[d] = job[d]
  BY <1>1 DEF ReloadTypes
<1>6. ReloadTypes'
  BY <1>1, <1>3 DEF ReloadTypes
<1>7. LockHeld'
  BY <1>1, <1>2, <1>4, <1>5 DEF LockHeld
<1>8. HotFollows' /\ StagedFits'
  BY <1>1, <1>2, <1>4, <1>5 DEF HotFollows, StagedFits
<1>9. CaughtUp'
  <2>1. Reflected(disk)' <=> Reflected(disk)
    BY <1>1 DEF Reflected, Takes
  <2>. QED
    BY <2>1, <1>1, <1>2, <1>4, <1>5 DEF CaughtUp
<1>. QED
  BY <1>6, <1>7, <1>8, <1>9

LEMMA LoadKeeps ==
    ASSUME ReloadInv, NEW c \in Callers, Load(c)
    PROVE  ReloadInv'
<1>. USE DEF ReloadInv
<1>1. /\ job' = [job EXCEPT ![c] = [at |-> "loaded", candidate |-> disk, applied |-> FALSE]]
      /\ holder' = c /\ UNCHANGED <<disk, unseen, active, pending, early, hot, semantics>>
  BY DEF Load, server, files
<1>2. job[c].at = "asked" /\ holder = Nobody /\ \A d \in Callers : job[d].at # "loaded"
  BY ConfigAssumption DEF Load, LockHeld
<1>3. job' \in [Callers -> Jobs]
  BY <1>1 DEF ReloadTypes, Jobs
<1>4. job'[c] = [at |-> "loaded", candidate |-> disk, applied |-> FALSE]
  BY <1>1 DEF ReloadTypes
<1>5. \A d \in Callers : d # c => job'[d] = job[d]
  BY <1>1 DEF ReloadTypes
<1>6. ReloadTypes'
  BY <1>1, <1>3 DEF ReloadTypes
<1>7. LockHeld'
  BY <1>1, <1>2, <1>4, <1>5 DEF LockHeld, ReloadTypes
<1>8. HotFollows' /\ StagedFits'
  BY <1>1, <1>2, <1>4, <1>5 DEF HotFollows, StagedFits
<1>9. CaughtUp'
  <2>1. Reflected(disk)' <=> Reflected(disk)
    BY <1>1 DEF Reflected, Takes
  <2>. QED
    BY <2>1, <1>1, <1>2, <1>4, <1>5 DEF CaughtUp
<1>. QED
  BY <1>6, <1>7, <1>8, <1>9

LEMMA PublishKeeps ==
    ASSUME ReloadInv, NEW c \in Callers, Publish(c)
    PROVE  ReloadInv'
<1>. USE DEF ReloadInv
<1>. DEFINE next == Disposition(job[c].candidate)
<1>1. /\ active' = next.active /\ pending' = next.pending
      /\ job' = [job EXCEPT ![c] = [@ EXCEPT !.at = "returned",
                                             !.applied = next.active = job[c].candidate]]
      /\ holder' = Nobody /\ UNCHANGED <<disk, unseen, early, hot, semantics>>
  BY DEF Publish, server, files
<1>2. /\ job[c].at = "loaded" /\ holder = c /\ \A d \in Callers : d # c => job[d].at # "loaded"
      /\ job[c].candidate \in Contents \cup {Invalid}
  BY DEF Publish, LockHeld
<1>3. job'[c] = [at |-> "returned", candidate |-> job[c].candidate,
                 applied |-> next.active = job[c].candidate]
  BY <1>1 DEF ReloadTypes, Jobs
<1>4. \A d \in Callers : d # c => job'[d] = job[d]
  BY <1>1 DEF ReloadTypes
<1>5. /\ next.active \in Contents /\ next.pending \in Contents \cup {Nothing}
      /\ next.active.turn = active.turn /\ next.active.fixed = active.fixed
      /\ next.pending # Nothing => next.pending.fixed = next.active.fixed
      /\ next.active # active => next.active = job[c].candidate
      /\ job[c].candidate # Invalid /\ job[c].candidate.fixed = active.fixed
             => job[c].candidate = IF next.pending = Nothing THEN next.active ELSE next.pending
      /\ job[c].candidate # Invalid /\ job[c].candidate.fixed # active.fixed => next.pending = Nothing
  BY <1>2, DispositionFacts
<1>. HIDE DEF next
<1>6. ReloadTypes'
  <2>1. DOMAIN job' = Callers /\ job' = [d \in Callers |-> job'[d]]
    BY <1>1 DEF ReloadTypes
  <2>2. \A d \in Callers : job'[d] \in Jobs
    <3>1. (next.active = job[c].candidate) \in BOOLEAN
      OBVIOUS
    <3>2. job'[c] \in Jobs
      BY <1>2, <1>3, <3>1 DEF Jobs
    <3>. QED
      BY <1>4, <3>2 DEF ReloadTypes
  <2>3. job' \in [Callers -> Jobs]
    BY <2>1, <2>2
  <2>. QED
    BY <1>1, <1>5, <2>3 DEF ReloadTypes
<1>7. LockHeld'
  BY <1>1, <1>2, <1>3, <1>4, ConfigAssumption DEF LockHeld
<1>8. HotFollows'
  <2>. SUFFICES ASSUME hot' # active'
                PROVE  \E d \in Callers : job'[d].at = "returned" /\ job'[d].applied
    BY DEF HotFollows
  <2>1. CASE active' = active
    BY <2>1, <1>1, <1>2, <1>3, <1>4 DEF HotFollows
  <2>2. CASE active' # active
    <3>1. next.active = job[c].candidate
      BY <2>2, <1>1, <1>5
    <3>2. (next.active = job[c].candidate) = TRUE
      BY <3>1
    <3>3. job'[c] = [at |-> "returned", candidate |-> job[c].candidate, applied |-> TRUE]
      BY <1>3, <3>2, Zenon
    <3>. QED
      BY <3>3
  <2>. QED
    BY <2>1, <2>2
<1>9. StagedFits'
  BY <1>1, <1>5 DEF StagedFits
<1>10. CaughtUp'
  <2>. SUFFICES ASSUME ~early, ~unseen
                PROVE  \/ Reflected(disk)' /\ \A d \in Callers : job'[d].at = "loaded" => job'[d].candidate = disk'
                       \/ /\ "watcher" \in Callers
                          /\ \/ job'["watcher"].at = "asked"
                             \/ job'["watcher"].at = "loaded" /\ job'["watcher"].candidate = disk'
    BY <1>1 DEF CaughtUp
  <2>1. \A d \in Callers : job'[d].at # "loaded"
    BY <1>2, <1>3, <1>4
  <2>2. job[c].candidate = disk => Reflected(disk)'
    BY <1>1, <1>5 DEF Reflected, Takes
  <2>3. CASE job[c].candidate = disk
    BY <2>1, <2>2, <2>3
  <2>4. CASE job[c].candidate # disk
    <3>1. "watcher" \in Callers /\ job["watcher"].at = "asked"
      BY <1>2, <2>4 DEF CaughtUp
    <3>. QED
      BY <3>1, <1>2, <1>4
  <2>. QED
    BY <2>3, <2>4
<1>. QED
  BY <1>6, <1>7, <1>8, <1>9, <1>10

LEMMA ReturnKeeps ==
    ASSUME ReloadInv, NEW c \in Callers, Return(c)
    PROVE  ReloadInv'
<1>. USE DEF ReloadInv
<1>1. /\ job' = [job EXCEPT ![c] = IdleJob] /\ hot' = IF job[c].applied THEN active ELSE hot
      /\ UNCHANGED <<disk, unseen, active, pending, holder, early, semantics>>
  BY DEF Return, files
<1>2. job[c].at = "returned"
  BY DEF Return
<1>3. job'[c] = [at |-> "idle", candidate |-> Nothing, applied |-> FALSE]
  BY <1>1 DEF ReloadTypes, IdleJob
<1>4. \A d \in Callers : d # c => job'[d] = job[d]
  BY <1>1 DEF ReloadTypes
<1>5. ReloadTypes'
  BY <1>1 DEF ReloadTypes, Jobs, IdleJob
<1>6. LockHeld'
  BY <1>1, <1>2, <1>3, <1>4 DEF LockHeld
<1>7. HotFollows' /\ StagedFits'
  BY <1>1, <1>2, <1>3, <1>4 DEF HotFollows, StagedFits
<1>8. CaughtUp'
  <2>1. Reflected(disk)' <=> Reflected(disk)
    BY <1>1 DEF Reflected, Takes
  <2>. QED
    BY <2>1, <1>1, <1>2, <1>3, <1>4 DEF CaughtUp
<1>. QED
  BY <1>5, <1>6, <1>7, <1>8

LEMMA ActivateKeeps ==
    ASSUME ReloadInv, Activate
    PROVE  ReloadInv'
<1>. USE DEF ReloadInv
<1>1. /\ active' = IF pending = Nothing THEN active ELSE pending
      /\ pending' = Nothing /\ hot' = active' /\ semantics' = active'.turn /\ holder = Nobody
      /\ UNCHANGED <<disk, unseen, holder, job, early>>
  BY DEF Activate, files
<1>2. active'.fixed = active.fixed /\ active' \in Contents
  BY <1>1 DEF ReloadTypes, StagedFits
<1>3. ReloadTypes'
  BY <1>1, <1>2 DEF ReloadTypes
<1>4. LockHeld'
  BY <1>1 DEF LockHeld
<1>5. HotFollows' /\ StagedFits'
  BY <1>1 DEF HotFollows, StagedFits
<1>6. CaughtUp'
  <2>1. Reflected(disk) => Reflected(disk)'
    BY <1>1, <1>2 DEF Reflected, Takes
  <2>. QED
    BY <2>1, <1>1 DEF CaughtUp
<1>. QED
  BY <1>3, <1>4, <1>5, <1>6

\* The rest of the system leaves reloads alone.
LEMMA OthersKeepReloads ==
    ASSUME ReloadInv, UNCHANGED <<files, store, early, hot, semantics>>
    PROVE  ReloadInv'
<1>1. UNCHANGED <<disk, unseen, active, pending, holder, job, early, hot, semantics>>
  BY DEF files, store
<1>2. ReloadTypes' /\ LockHeld'
  BY <1>1 DEF ReloadInv, ReloadTypes, LockHeld
<1>3. HotFollows' /\ StagedFits'
  BY <1>1 DEF ReloadInv, HotFollows, StagedFits
<1>4. CaughtUp'
  BY <1>1 DEF ReloadInv, CaughtUp, Reflected, Takes
<1>. QED
  BY <1>2, <1>3, <1>4 DEF ReloadInv

LEMMA ReloadStep == ReloadInv /\ [Next]_vars => ReloadInv'
<1>. SUFFICES ASSUME ReloadInv, [Next]_vars PROVE ReloadInv'
  OBVIOUS
<1>1. CASE \E content \in Contents \cup {Invalid} : Edit(content)
  BY <1>1, EditKeeps
<1>2. CASE \E c \in Callers : Ask(c) \/ Load(c) \/ Publish(c) \/ Return(c)
  BY <1>2, AskKeeps, LoadKeeps, PublishKeeps, ReturnKeeps
<1>3. CASE Activate
  BY <1>3, ActivateKeeps
<1>4. CASE Watch \/ ReachBoundary
  BY <1>4, OthersKeepReloads DEF Watch, ReachBoundary
<1>5. CASE \/ \E t \in Threads : Announce(t) \/ ServerWorks(t) \/ ServerEnds(t) \/ ServerLoads(t)
           \/ \E t \in Threads, u \in Turns : ServerStarts(t, u)
           \/ ServerRestarts
  BY <1>5, OthersKeepReloads
     DEF Announce, ServerWorks, ServerEnds, ServerLoads, ServerStarts, ServerRestarts, server
<1>6. CASE \/ Connect \/ Lose \/ List \/ Reconcile \/ Ready \/ Consume \/ UNCHANGED vars
           \/ \E t \in Threads : Resume(t)
  BY <1>6, OthersKeepReloads
     DEF Connect, Lose, List, Reconcile, Ready, Consume, Resume, server, vars
<1>. QED
  BY <1>1, <1>2, <1>3, <1>4, <1>5, <1>6 DEF Next

\* Whatever reloads, boundaries and changes of the files come in between: when nothing is under
\* way, the settings in use are the active ones, and what the files hold is active or staged,
\* unless it is invalid or needs a restart.
THEOREM LastChangeIsTaken == Spec => []ReloadConverges
<1>1. ReloadInv => ReloadConverges
  <2>. SUFFICES ASSUME ReloadInv, Settled, ~early PROVE Follows
    BY DEF ReloadConverges
  <2>1. \A c \in Callers : job[c].at = "idle"
    BY DEF Settled
  <2>2. hot = active /\ semantics = active.turn
    BY <2>1 DEF ReloadInv, HotFollows, StagedFits
  <2>3. Reflected(disk)
    BY <2>1 DEF ReloadInv, CaughtUp, Settled
  <2>. QED
    BY <2>2, <2>3 DEF Follows, Reflected
<1>. QED
  BY <1>1, ReloadInit, ReloadStep, PTL DEF Spec

-----------------------------------------------------------------------------
(***************************************************************************)
(* RuntimeConfig, the turns.  The inbox is what is between the App Server's *)
(* turns and the daemon's idea of them, so the argument is about its       *)
(* notes: a start is the first that is heard of a turn, an end the last,   *)
(* and what lies between belongs to the turn.  Settings change only when no *)
(* thread has an active turn, so never between a turn's start and its end. *)
(***************************************************************************)

Notes == [kind : {"start", "item", "done", "status"}, thread : Threads, turn : Turns \cup {NoTurn}]

TurnTypes ==
    /\ live \in [Threads -> Turns \cup {NoTurn}]
    /\ st \in [Threads -> ThreadStates] /\ conn \in Nat
    /\ used = [t \in Threads |-> [u \in Turns |-> used[t][u]]]
    /\ reply # <<>> => /\ reply = <<reply[1], reply[2]>> /\ reply[1] \in Threads
                       /\ reply[2] \in Turns \cup {NoTurn}
    /\ inbox \in Seq(Notes)

Of(i, t, u) == inbox[i].thread = t /\ inbox[i].turn = u
Edge(note, t) == note.kind \in {"start", "done"} /\ note.thread = t

\* What comes after position i of the inbox belongs to the turn, up to its end if that is there.
Open(t, u, i) ==
    \/ live[t] = u /\ \A k \in DOMAIN inbox : k > i => ~Edge(inbox[k], t)
    \/ \E k \in DOMAIN inbox : /\ k > i /\ inbox[k] = Note("done", t, u)
                               /\ \A j \in DOMAIN inbox : i < j /\ j < k => ~Edge(inbox[j], t)

\* The turns of a thread are told to its subscribers only.
ToldToSubscribers ==
    \A i \in DOMAIN inbox : IF inbox[i].kind = "status" THEN inbox[i].turn = NoTurn
                            ELSE inbox[i].thread \in subscribed /\ inbox[i].turn \in Turns

\* The start of a turn is the first that is heard of it, and its end the last.
StartsAreNew ==
    \A i \in DOMAIN inbox : inbox[i].kind = "start" =>
        LET t == inbox[i].thread
            u == inbox[i].turn
        IN  /\ Open(t, u, i) /\ used[t][u] = {} /\ u \notin st[t].completed /\ <<t, u>> \notin steady
            /\ \A j \in DOMAIN inbox : j < i => ~Of(j, t, u)
EndsAreLast ==
    \A i \in DOMAIN inbox : inbox[i].kind = "done" =>
        LET t == inbox[i].thread
            u == inbox[i].turn
        IN  live[t] # u /\ \A j \in DOMAIN inbox : j > i => ~Of(j, t, u)

\* A steady turn is its thread's active one, under the settings in use, until its end is
\* consumed; then nothing of it is left to normalize.
Running(t, u) ==
    st[t].active = u /\ st[t].epoch = conn /\ used[t][u] \subseteq {semantics} /\ Open(t, u, 0)
TurnOver(t, u) ==
    /\ u \in st[t].completed /\ live[t] # u /\ \A i \in DOMAIN inbox : ~Of(i, t, u)
    /\ \E settings : used[t][u] \subseteq {settings}
SteadyTurns ==
    \A t \in Threads, u \in Turns :
        <<t, u>> \in steady => t \in subscribed /\ (Running(t, u) \/ TurnOver(t, u))

\* The event loop waits at a boundary only, and what it waits with is the start of a turn.
AtBoundary ==
    /\ phase = "down" => inbox = <<>>
    /\ phase # "ready" => steady = {}
    /\ blocked => Quiescent /\ phase # "down" /\ inbox # <<>> /\ inbox[1].kind = "start"

TurnInv ==
    TurnTypes /\ ToldToSubscribers /\ StartsAreNew /\ EndsAreLast /\ SteadyTurns /\ AtBoundary

LEMMA NoTurnIsNone == NoTurn \notin Turns
BY TurnAssumption DEF NoTurn, Turns

\* What an event makes of the state of its thread.
LEMMA EventFacts ==
    ASSUME NEW s \in ThreadStates, NEW u \in Turns \cup {NoTurn}, NEW k \in Nat
    PROVE  /\ Rebased(s, k) \in ThreadStates /\ Rebased(s, k).completed = s.completed
           /\ s.epoch = k => Rebased(s, k) = s
           /\ u \in Turns => /\ Started(s, u, k) \in ThreadStates
                             /\ Started(s, u, k).completed = s.completed
                             /\ Completed(s, u, k) \in ThreadStates
                             /\ Completed(s, u, k).completed = s.completed \cup {u}
           /\ u \in Turns /\ u \notin s.completed => /\ Started(s, u, k).active = u
                                                     /\ Started(s, u, k).epoch = k
<1>. DEFINE r == Rebased(s, k)
<1>1. /\ r \in ThreadStates /\ r.completed = s.completed /\ r.epoch = k
      /\ s.epoch = k => r = s
  BY DEF Rebased, ThreadStates
<1>. HIDE DEF r
<1>4. Completed(s, u, k)
      = [r EXCEPT !.active = NoTurn, !.ready = FALSE, !.completed = r.completed \cup {u}]
  BY DEF Completed, r
<1>5. u \in Turns => /\ Completed(s, u, k) \in ThreadStates
                     /\ Completed(s, u, k).completed = s.completed \cup {u}
  <2>1. Completed(s, u, k)
        = [epoch |-> r.epoch, active |-> NoTurn, ready |-> FALSE,
           completed |-> r.completed \cup {u}, answer |-> r.answer]
    BY <1>1, <1>4 DEF ThreadStates
  <2>. QED
    BY <1>1, <2>1 DEF ThreadStates
<1>6. Started(s, u, k)
      = IF u \in s.completed THEN s
        ELSE [r EXCEPT !.active = u, !.answer = IF r.answer = u THEN u ELSE NoTurn]
  BY DEF Started, r
<1>7. u \in Turns => /\ Started(s, u, k) \in ThreadStates
                     /\ Started(s, u, k).completed = s.completed
  BY <1>1, <1>6 DEF ThreadStates
<1>8. u \in Turns /\ u \notin s.completed => /\ Started(s, u, k).active = u
                                             /\ Started(s, u, k).epoch = k
  BY <1>1, <1>6 DEF ThreadStates
<1>. QED
  BY <1>1, <1>5, <1>7, <1>8 DEF r

LEMMA ReconciledFacts ==
    ASSUME NEW s \in ThreadStates, NEW u \in Turns \cup {NoTurn}, NEW k \in Nat
    PROVE  Reconciled(s, u, k) \in ThreadStates /\ Reconciled(s, u, k).completed = s.completed
<1>. DEFINE r == Rebased(s, k)
<1>1. r \in ThreadStates /\ r.completed = s.completed
  BY EventFacts
<1>. HIDE DEF r
<1>2. Reconciled(s, u, k) = [r EXCEPT !.active = u, !.ready = u # NoTurn]
  BY DEF Reconciled, r
<1>. QED
  BY <1>1, <1>2 DEF ThreadStates

\* Consuming the first note moves every other one place forward.
LEMMA ShiftFacts ==
    ASSUME inbox \in Seq(Notes), inbox # <<>>, inbox' = Tail(inbox)
    PROVE  /\ inbox' \in Seq(Notes) /\ Head(inbox) = inbox[1] /\ 1 \in DOMAIN inbox
           /\ DOMAIN inbox' = 1 .. Len(inbox) - 1 /\ DOMAIN inbox = 1 .. Len(inbox)
           /\ \A i \in DOMAIN inbox' : i \in Nat /\ i + 1 \in DOMAIN inbox /\ inbox'[i] = inbox[i + 1]
           /\ \A i \in DOMAIN inbox : i > 1 => i - 1 \in DOMAIN inbox' /\ inbox'[i - 1] = inbox[i]
           /\ \A i \in DOMAIN inbox : i \in Nat /\ i >= 1
OBVIOUS

LEMMA OpenShifts ==
    ASSUME inbox \in Seq(Notes), inbox # <<>>, inbox' = Tail(inbox), live' = live,
           NEW t, NEW u, NEW i \in Nat, i >= 1, Open(t, u, i)
    PROVE  Open(t, u, i - 1)'
<1>1. CASE live[t] = u /\ \A k \in DOMAIN inbox : k > i => ~Edge(inbox[k], t)
  <2>1. \A k \in DOMAIN inbox' : k > i - 1 => ~Edge(inbox'[k], t)
    BY <1>1, ShiftFacts
  <2>. QED
    BY <1>1, <2>1 DEF Open, Edge
<1>2. CASE \E k \in DOMAIN inbox : /\ k > i /\ inbox[k] = Note("done", t, u)
                                   /\ \A j \in DOMAIN inbox : i < j /\ j < k => ~Edge(inbox[j], t)
  <2>1. PICK k \in DOMAIN inbox : /\ k > i /\ inbox[k] = Note("done", t, u)
                                  /\ \A j \in DOMAIN inbox : i < j /\ j < k => ~Edge(inbox[j], t)
    BY <1>2
  <2>2. k - 1 \in DOMAIN inbox' /\ k - 1 > i - 1 /\ inbox'[k - 1] = Note("done", t, u)
    BY <2>1, ShiftFacts
  <2>3. \A j \in DOMAIN inbox' : i - 1 < j /\ j < k - 1 => ~Edge(inbox'[j], t)
    BY <2>1, ShiftFacts
  <2>. QED
    BY <2>2, <2>3 DEF Open, Edge, Note
<1>. QED
  BY <1>1, <1>2 DEF Open

\* A turn that is open ends with its own end, or the first note is not an edge of its thread.
LEMMA OpenFirst ==
    ASSUME inbox \in Seq(Notes), inbox # <<>>, NEW t, NEW u, Open(t, u, 0), Edge(inbox[1], t)
    PROVE  inbox[1] = Note("done", t, u)
BY DEF Open

LEMMA OpenStays ==
    ASSUME inbox \in Seq(Notes), inbox # <<>>, inbox' = Tail(inbox), live' = live,
           NEW t, NEW u, Open(t, u, 0), ~Edge(inbox[1], t), u # NoTurn
    PROVE  Open(t, u, 0)'
<1>1. Open(t, u, 1)
  <2>1. CASE live[t] = u /\ \A k \in DOMAIN inbox : k > 0 => ~Edge(inbox[k], t)
    BY <2>1 DEF Open
  <2>2. CASE \E k \in DOMAIN inbox : /\ k > 0 /\ inbox[k] = Note("done", t, u)
                                     /\ \A j \in DOMAIN inbox : 0 < j /\ j < k => ~Edge(inbox[j], t)
    <3>1. PICK k \in DOMAIN inbox : /\ k > 0 /\ inbox[k] = Note("done", t, u)
                                    /\ \A j \in DOMAIN inbox : 0 < j /\ j < k => ~Edge(inbox[j], t)
      BY <2>2
    <3>2. k # 1
      BY <3>1 DEF Edge, Note
    <3>. QED
      BY <3>1, <3>2 DEF Open
  <2>. QED
    BY <2>1, <2>2 DEF Open
<1>. QED
  BY <1>1, OpenShifts

\* A note more does not close a turn, if it tells the turn's own end or nothing of its thread's.
LEMMA OpenAppends ==
    ASSUME inbox \in Seq(Notes), NEW note \in Notes, inbox' = Append(inbox, note),
           NEW t, NEW u, NEW i \in Nat, i <= Len(inbox), Open(t, u, i),
           live[t] = u => (live'[t] = u /\ ~Edge(note, t)) \/ note = Note("done", t, u)
    PROVE  Open(t, u, i)'
<1>1. /\ DOMAIN inbox = 1 .. Len(inbox) /\ DOMAIN inbox' = 1 .. Len(inbox) + 1
      /\ Len(inbox) \in Nat /\ inbox'[Len(inbox) + 1] = note
      /\ \A k \in DOMAIN inbox : inbox'[k] = inbox[k]
  OBVIOUS
<1>2. CASE live[t] = u /\ \A k \in DOMAIN inbox : k > i => ~Edge(inbox[k], t)
  <2>1. CASE live'[t] = u /\ ~Edge(note, t)
    <3>1. \A k \in DOMAIN inbox' : k > i => ~Edge(inbox'[k], t)
      BY <1>1, <1>2, <2>1
    <3>. QED
      BY <2>1, <3>1 DEF Open, Edge
  <2>2. CASE note = Note("done", t, u)
    <3>1. \A j \in DOMAIN inbox' : i < j /\ j < Len(inbox) + 1 => ~Edge(inbox'[j], t)
      BY <1>1, <1>2
    <3>2. Len(inbox) + 1 \in DOMAIN inbox' /\ Len(inbox) + 1 > i
      BY <1>1
    <3>. QED
      BY <1>1, <2>2, <3>1, <3>2 DEF Open, Edge, Note
  <2>. QED
    BY <1>2, <2>1, <2>2
<1>3. CASE \E k \in DOMAIN inbox : /\ k > i /\ inbox[k] = Note("done", t, u)
                                   /\ \A j \in DOMAIN inbox : i < j /\ j < k => ~Edge(inbox[j], t)
  <2>1. PICK k \in DOMAIN inbox : /\ k > i /\ inbox[k] = Note("done", t, u)
                                  /\ \A j \in DOMAIN inbox : i < j /\ j < k => ~Edge(inbox[j], t)
    BY <1>3
  <2>2. k \in DOMAIN inbox' /\ inbox'[k] = Note("done", t, u)
    BY <1>1, <2>1
  <2>3. \A j \in DOMAIN inbox' : i < j /\ j < k => ~Edge(inbox'[j], t)
    BY <1>1, <2>1
  <2>. QED
    BY <2>1, <2>2, <2>3 DEF Open, Edge, Note
<1>. QED
  BY <1>2, <1>3 DEF Open

LEMMA TurnInit == Init => TurnInv
<1>. SUFFICES ASSUME Init PROVE TurnInv
  OBVIOUS
<1>1. TurnTypes
  BY DEF Init, TurnTypes, Unobserved, ThreadStates
<1>2. DOMAIN inbox = {} /\ steady = {} /\ ~blocked /\ inbox = <<>>
  BY DEF Init
<1>3. ToldToSubscribers /\ StartsAreNew /\ EndsAreLast
  BY <1>2 DEF ToldToSubscribers, StartsAreNew, EndsAreLast
<1>4. SteadyTurns /\ AtBoundary
  BY <1>2 DEF SteadyTurns, AtBoundary
<1>. QED
  BY <1>1, <1>3, <1>4 DEF TurnInv

\* Files, reloads and what is loaded have no part in it.
LEMMA OthersKeepTurns ==
    ASSUME TurnInv,
           UNCHANGED <<semantics, live, conn, phase, reply, subscribed, inbox, st, used, steady>>,
           \/ blocked' = blocked
           \/ Quiescent /\ phase # "down" /\ inbox # <<>> /\ inbox[1].kind = "start"
    PROVE  TurnInv'
<1>1. TurnTypes'
  BY DEF TurnInv, TurnTypes
<1>2. ToldToSubscribers' /\ EndsAreLast'
  BY DEF TurnInv, ToldToSubscribers, EndsAreLast, Of
<1>3. StartsAreNew'
  BY DEF TurnInv, StartsAreNew, Of, Open, Edge, Note
<1>4. SteadyTurns'
  BY DEF TurnInv, SteadyTurns, Running, TurnOver, Of, Open, Edge, Note
<1>5. AtBoundary'
  BY DEF TurnInv, AtBoundary, Quiescent
<1>. QED
  BY <1>1, <1>2, <1>3, <1>4, <1>5 DEF TurnInv

\* A turn that starts or ends where nobody listens.
LEMMA UnheardKeeps ==
    ASSUME TurnInv, NEW t \in Threads, NEW u \in Turns \cup {NoTurn},
           live' = [live EXCEPT ![t] = u], t \notin subscribed \/ phase = "down",
           UNCHANGED <<semantics, blocked, conn, phase, reply, subscribed, inbox, st, used, steady>>
    PROVE  TurnInv'
<1>1. TurnTypes'
  BY DEF TurnInv, TurnTypes
<1>2. ToldToSubscribers' /\ AtBoundary'
  BY DEF TurnInv, ToldToSubscribers, AtBoundary, Quiescent
<1>3. \A i \in DOMAIN inbox : inbox[i].kind # "status" => inbox[i].thread # t
  <2>1. CASE t \notin subscribed
    BY <2>1 DEF TurnInv, ToldToSubscribers
  <2>2. CASE phase = "down"
    BY <2>2 DEF TurnInv, AtBoundary
  <2>. QED
    BY <2>1, <2>2
<1>4. \A x \in Threads : x # t => live'[x] = live[x]
  BY DEF TurnInv, TurnTypes
<1>5. \A x \in Threads : \A v, i : x # t /\ Open(x, v, i) => Open(x, v, i)'
  BY <1>4 DEF Open, Edge, Note
<1>6. \A i \in DOMAIN inbox : inbox[i] \in Notes
  BY DEF TurnInv, TurnTypes
<1>7. StartsAreNew'
  BY <1>3, <1>5, <1>6 DEF TurnInv, StartsAreNew, Of, Notes
<1>8. EndsAreLast'
  BY <1>3, <1>4, <1>6 DEF TurnInv, EndsAreLast, Of, Notes
<1>9. SteadyTurns'
  <2>. SUFFICES ASSUME NEW x \in Threads, NEW v \in Turns, <<x, v>> \in steady
                PROVE  x \in subscribed /\ (Running(x, v)' \/ TurnOver(x, v)')
    BY DEF SteadyTurns
  <2>1. x \in subscribed /\ phase # "down" /\ (Running(x, v) \/ TurnOver(x, v))
    BY DEF TurnInv, SteadyTurns, AtBoundary
  <2>2. live'[x] = live[x] /\ (Open(x, v, 0) => Open(x, v, 0)')
    BY <1>4, <1>5, <2>1
  <2>. QED
    BY <2>1, <2>2 DEF Running, TurnOver, Of
<1>. QED
  BY <1>1, <1>2, <1>7, <1>8, <1>9 DEF TurnInv

\* A note more: of the status of a thread, the start, the work or the end of a turn.
LEMMA ToldKeeps ==
    ASSUME TurnInv, phase # "down", NEW note \in Notes, inbox' = Append(inbox, note),
           live' \in [Threads -> Turns \cup {NoTurn}],
           IF note.kind = "status" THEN note.turn = NoTurn
           ELSE note.thread \in subscribed /\ note.turn \in Turns,
           \A t \in Threads, u \in Turns :
               /\ live[t] = u => (live'[t] = u /\ ~Edge(note, t)) \/ note = Note("done", t, u)
               /\ live'[t] = u /\ live[t] # u => note = Note("start", t, u),
           note.kind = "start" =>
               /\ live'[note.thread] = note.turn /\ used[note.thread][note.turn] = {}
               /\ note.turn \notin st[note.thread].completed
               /\ live[note.thread] = NoTurn
               /\ \A i \in DOMAIN inbox : ~Of(i, note.thread, note.turn),
           note.kind = "item" => live[note.thread] = note.turn,
           note.kind = "done" => live[note.thread] = note.turn /\ live'[note.thread] # note.turn,
           UNCHANGED <<semantics, blocked, conn, phase, reply, subscribed, st, used, steady>>
    PROVE  TurnInv'
<1>. DEFINE last == Len(inbox) + 1
<1>1. /\ DOMAIN inbox = 1 .. Len(inbox) /\ DOMAIN inbox' = DOMAIN inbox \cup {last}
      /\ last \notin DOMAIN inbox /\ Len(inbox) \in Nat /\ inbox'[last] = note
      /\ \A k \in DOMAIN inbox : inbox'[k] = inbox[k] /\ k < last /\ k \in Nat /\ inbox[k] \in Notes
      /\ inbox' \in Seq(Notes)
  BY DEF TurnInv, TurnTypes
<1>2. TurnTypes'
  BY <1>1 DEF TurnInv, TurnTypes
<1>3. ToldToSubscribers'
  BY <1>1 DEF TurnInv, ToldToSubscribers
<1>4. AtBoundary'
  <2>1. inbox # <<>> => inbox' # <<>> /\ inbox'[1] = inbox[1]
    BY <1>1
  <2>. QED
    BY <1>1, <2>1 DEF TurnInv, AtBoundary, Quiescent
<1>5. ASSUME NEW t \in Threads, NEW u \in Turns, NEW i \in Nat, i <= Len(inbox), Open(t, u, i)
      PROVE  Open(t, u, i)'
  BY <1>5, OpenAppends DEF TurnInv, TurnTypes
\* Nothing of a turn comes after its end: what is told last is of a live turn, or its end.
<1>6. \A i \in DOMAIN inbox : inbox[i].kind = "done" =>
          ~(note.thread = inbox[i].thread /\ note.turn = inbox[i].turn)
  <2>1. \A i \in DOMAIN inbox : inbox[i].kind = "done" =>
            live[inbox[i].thread] # inbox[i].turn /\ inbox[i].turn \in Turns
    BY <1>1 DEF TurnInv, EndsAreLast, ToldToSubscribers
  <2>. QED
    BY <2>1, NoTurnIsNone DEF Notes, Of
<1>7. EndsAreLast'
  <2>. SUFFICES ASSUME NEW i \in DOMAIN inbox', inbox'[i].kind = "done",
                       NEW t, NEW u, t = inbox'[i].thread, u = inbox'[i].turn
                PROVE  live'[t] # u /\ \A j \in DOMAIN inbox' : j > i => ~Of(j, t, u)'
    BY DEF EndsAreLast, Of
  <2>1. CASE i = last
    BY <1>1, <2>1
  <2>2. CASE i \in DOMAIN inbox
    <3>1. live[inbox[i].thread] # inbox[i].turn /\ inbox[i].turn \in Turns /\ inbox[i].thread \in Threads
      BY <1>1, <2>2 DEF TurnInv, EndsAreLast, ToldToSubscribers, Notes
    <3>2. live'[inbox[i].thread] # inbox[i].turn
      BY <1>1, <1>6, <2>2, <3>1 DEF Note, Of
    <3>3. \A j \in DOMAIN inbox : j > i => ~Of(j, inbox[i].thread, inbox[i].turn)
      BY <1>1, <2>2 DEF TurnInv, EndsAreLast
    <3>4. inbox'[i] = inbox[i]
      BY <1>1, <2>2
    <3>5. \A j \in DOMAIN inbox' : j > i => ~Of(j, t, u)'
      BY <1>1, <1>6, <2>2, <3>3, <3>4 DEF Of
    <3>. QED
      BY <3>2, <3>4, <3>5
  <2>. QED
    BY <1>1, <2>1, <2>2
<1>8. StartsAreNew'
  <2>. SUFFICES ASSUME NEW i \in DOMAIN inbox', inbox'[i].kind = "start",
                       NEW t, NEW u, t = inbox'[i].thread, u = inbox'[i].turn
                PROVE  /\ Open(t, u, i)' /\ used[t][u] = {} /\ u \notin st[t].completed
                       /\ <<t, u>> \notin steady
                       /\ \A j \in DOMAIN inbox' : j < i => ~Of(j, t, u)'
    BY DEF StartsAreNew, Open, Of
  <2>1. CASE i = last
    <3>1. inbox'[i] = note /\ t = note.thread /\ u = note.turn /\ t \in Threads /\ u \in Turns
      BY <1>1, <2>1 DEF Notes
    <3>2. Open(t, u, i)'
      <4>1. live'[t] = u
        BY <3>1
      <4>2. \A k \in DOMAIN inbox' : ~(k > i)
        BY <1>1, <2>1
      <4>. QED
        BY <4>1, <4>2 DEF Open
    <3>3. \A j \in DOMAIN inbox' : j < i => ~Of(j, t, u)'
      BY <1>1, <2>1, <3>1 DEF Of
    <3>4. <<t, u>> \notin steady
      <4>1. ~Running(t, u)
        <5>1. live[t] = NoTurn /\ \A k \in DOMAIN inbox : ~Of(k, t, u)
          BY <3>1
        <5>. QED
          BY <3>1, <5>1, NoTurnIsNone DEF Running, Open, Of, Note
      <4>2. ~TurnOver(t, u)
        BY <3>1 DEF TurnOver
      <4>. QED
        BY <3>1, <4>1, <4>2 DEF TurnInv, SteadyTurns
    <3>. QED
      BY <3>1, <3>2, <3>3, <3>4
  <2>2. CASE i \in DOMAIN inbox
    <3>1. /\ inbox'[i] = inbox[i] /\ t = inbox[i].thread /\ u = inbox[i].turn
          /\ t \in Threads /\ u \in Turns
      BY <1>1, <2>2 DEF TurnInv, ToldToSubscribers, Notes
    <3>2. /\ Open(t, u, i) /\ used[t][u] = {} /\ u \notin st[t].completed /\ <<t, u>> \notin steady
          /\ \A j \in DOMAIN inbox : j < i => ~Of(j, t, u)
      BY <2>2, <3>1 DEF TurnInv, StartsAreNew
    <3>3. Open(t, u, i)'
      BY <1>1, <1>5, <2>2, <3>1, <3>2
    <3>4. \A j \in DOMAIN inbox' : j < i => ~Of(j, t, u)'
      BY <1>1, <2>2, <3>2 DEF Of
    <3>. QED
      BY <3>1, <3>2, <3>3, <3>4
  <2>. QED
    BY <1>1, <2>1, <2>2
<1>9. SteadyTurns'
  <2>. SUFFICES ASSUME NEW t \in Threads, NEW u \in Turns, <<t, u>> \in steady
                PROVE  t \in subscribed /\ (Running(t, u)' \/ TurnOver(t, u)')
    BY DEF SteadyTurns
  <2>1. t \in subscribed /\ (Running(t, u) \/ TurnOver(t, u))
    BY DEF TurnInv, SteadyTurns
  <2>2. CASE Running(t, u)
    <3>1. Open(t, u, 0)'
      BY <1>1, <1>5, <2>2 DEF Running
    <3>. QED
      BY <2>1, <2>2, <3>1 DEF Running
  <2>3. CASE TurnOver(t, u)
    <3>1. ~(note.thread = t /\ note.turn = u)
      BY <2>3, NoTurnIsNone DEF TurnOver, Notes
    <3>2. live'[t] # u
      BY <2>3, <3>1 DEF TurnOver, Note
    <3>3. \A i \in DOMAIN inbox' : ~Of(i, t, u)'
      BY <1>1, <2>3, <3>1 DEF TurnOver, Of
    <3>. QED
      BY <2>1, <2>3, <3>2, <3>3 DEF TurnOver
  <2>. QED
    BY <2>1, <2>2, <2>3
<1>. QED
  BY <1>2, <1>3, <1>4, <1>7, <1>8, <1>9 DEF TurnInv

\* The first note is normalized, reduced and gone.
LEMMA ReduceKeeps ==
    ASSUME TurnInv, inbox # <<>>, phase # "down", Reduce(inbox[1], semantics'),
           semantics' = semantics \/ Quiescent, inbox[1].kind # "start" => semantics' = semantics,
           ~blocked', UNCHANGED <<live, conn, phase, reply>>
    PROVE  TurnInv'
<1>. DEFINE note == inbox[1]
            t == note.thread
            u == note.turn
<1>1. /\ inbox \in Seq(Notes) /\ inbox' = Tail(inbox) /\ note \in Notes /\ 1 \in DOMAIN inbox
      /\ t \in Threads /\ u \in Turns \cup {NoTurn}
      /\ note.kind \in {"start", "item", "done", "status"} /\ (note.kind # "status" => u \in Turns)
  <2>1. inbox \in Seq(Notes) /\ inbox' = Tail(inbox)
    BY DEF TurnInv, TurnTypes, Reduce
  <2>2. note \in Notes /\ 1 \in DOMAIN inbox
    BY <2>1
  <2>3. IF note.kind = "status" THEN u = NoTurn ELSE u \in Turns
    BY <2>2 DEF TurnInv, ToldToSubscribers
  <2>. HIDE DEF note
  <2>. QED
    BY <2>1, <2>2, <2>3 DEF Notes
<1>2. /\ st' = [st EXCEPT ![t] =
                   CASE note.kind = "start" -> Started(st[t], u, conn)
                     [] note.kind = "done" -> Completed(st[t], u, conn)
                     [] note.kind = "item" -> Rebased(st[t], conn)
                     [] OTHER -> st[t]]
      /\ subscribed' = IF note.kind \in {"start", "status"} THEN subscribed \cup {t} ELSE subscribed
      /\ used' = IF note.kind # "item" THEN used
                 ELSE [used EXCEPT ![t] = [used[t] EXCEPT ![u] = used[t][u] \cup {semantics'}]]
      /\ steady' = IF note.kind = "start" /\ phase = "ready" THEN steady \cup {<<t, u>>} ELSE steady
  BY <1>1 DEF Reduce
<1>3. /\ inbox' \in Seq(Notes)
      /\ \A i \in DOMAIN inbox' : /\ i \in Nat /\ i + 1 \in DOMAIN inbox /\ inbox'[i] = inbox[i + 1]
                                  /\ i + 1 > 1
      /\ \A i \in DOMAIN inbox : i > 1 => i - 1 \in DOMAIN inbox' /\ inbox'[i - 1] = inbox[i]
      /\ \A i \in DOMAIN inbox : i \in Nat /\ i >= 1 /\ inbox[i] \in Notes
  BY <1>1, ShiftFacts
<1>. HIDE DEF note, t, u
<1>4. st[t] \in ThreadStates /\ conn \in Nat /\ st \in [Threads -> ThreadStates]
  BY <1>1 DEF TurnInv, TurnTypes
<1>5. /\ st'[t] \in ThreadStates
      /\ st'[t].completed = IF note.kind = "done" THEN st[t].completed \cup {u} ELSE st[t].completed
      /\ note.kind = "start" /\ u \notin st[t].completed => st'[t].active = u /\ st'[t].epoch = conn
      /\ note.kind \in {"item", "status"} /\ st[t].epoch = conn => st'[t] = st[t]
  <2>1. CASE note.kind = "start"
    BY <1>1, <1>2, <1>4, <2>1, EventFacts
  <2>2. CASE note.kind = "done"
    BY <1>1, <1>2, <1>4, <2>2, EventFacts
  <2>3. CASE note.kind = "item"
    BY <1>1, <1>2, <1>4, <2>3, EventFacts
  <2>4. CASE note.kind = "status"
    BY <1>1, <1>2, <1>4, <2>4
  <2>. QED
    BY <1>1, <2>1, <2>2, <2>3, <2>4
<1>6. st' \in [Threads -> ThreadStates] /\ \A x \in Threads : x # t => st'[x] = st[x]
  BY <1>2, <1>4, <1>5
<1>7. /\ used' = [x \in Threads |-> [v \in Turns |-> used'[x][v]]]
      /\ \A x \in Threads, v \in Turns :
             IF note.kind = "item" /\ x = t /\ v = u THEN used'[x][v] = used[t][u] \cup {semantics'}
             ELSE used'[x][v] = used[x][v]
  <2>1. used = [x \in Threads |-> [v \in Turns |-> used[x][v]]]
    BY DEF TurnInv, TurnTypes
  <2>2. CASE note.kind # "item"
    BY <1>2, <2>1, <2>2
  <2>3. CASE note.kind = "item"
    <3>1. used' = [used EXCEPT ![t] = [used[t] EXCEPT ![u] = used[t][u] \cup {semantics'}]]
      BY <1>2, <2>3
    <3>2. \A x \in Threads : x # t => used'[x] = used[x]
      BY <2>1, <3>1
    <3>3. used'[t] = [used[t] EXCEPT ![u] = used[t][u] \cup {semantics'}]
      BY <1>1, <2>1, <3>1
    <3>4. \A x \in Threads : used[x] = [v \in Turns |-> used[x][v]]
      BY <2>1
    <3>5. \A v \in Turns : used'[t][v] = IF v = u THEN used[t][u] \cup {semantics'} ELSE used[t][v]
      BY <1>1, <3>3, <3>4
    <3>6. \A x \in Threads : used'[x] = [v \in Turns |-> used'[x][v]]
      BY <1>1, <3>2, <3>3, <3>4
    <3>7. used' = [x \in Threads |-> used'[x]]
      BY <2>1, <3>1
    <3>8. used' = [x \in Threads |-> [v \in Turns |-> used'[x][v]]]
      BY <3>6, <3>7
    <3>. QED
      BY <2>3, <3>2, <3>5, <3>8
  <2>. QED
    BY <2>2, <2>3
<1>8. TurnTypes'
  BY <1>3, <1>6, <1>7 DEF TurnInv, TurnTypes
<1>9. ToldToSubscribers'
  <2>1. subscribed \subseteq subscribed'
    BY <1>2
  <2>. QED
    BY <1>3, <2>1 DEF TurnInv, ToldToSubscribers
<1>10. AtBoundary'
  BY <1>2 DEF TurnInv, AtBoundary
<1>11. EndsAreLast'
  <2>. SUFFICES ASSUME NEW i \in DOMAIN inbox', inbox'[i].kind = "done",
                       NEW x, NEW v, x = inbox'[i].thread, v = inbox'[i].turn
                PROVE  live'[x] # v /\ \A j \in DOMAIN inbox' : j > i => ~Of(j, x, v)'
    BY DEF EndsAreLast, Of
  <2>1. i + 1 \in DOMAIN inbox /\ inbox[i + 1] = inbox'[i]
    BY <1>3
  <2>2. live[x] # v /\ \A j \in DOMAIN inbox : j > i + 1 => ~Of(j, x, v)
    BY <2>1 DEF TurnInv, EndsAreLast
  <2>3. \A j \in DOMAIN inbox' : j > i => ~(inbox[j + 1].thread = x /\ inbox[j + 1].turn = v)
    BY <1>3, <2>2 DEF Of
  <2>. QED
    BY <1>3, <2>2, <2>3 DEF Of
<1>12. StartsAreNew'
  <2>. SUFFICES ASSUME NEW i \in DOMAIN inbox', inbox'[i].kind = "start",
                       NEW x, NEW v, x = inbox'[i].thread, v = inbox'[i].turn
                PROVE  /\ Open(x, v, i)' /\ used'[x][v] = {} /\ v \notin st'[x].completed
                       /\ <<x, v>> \notin steady'
                       /\ \A j \in DOMAIN inbox' : j < i => ~Of(j, x, v)'
    BY DEF StartsAreNew, Open, Of
  <2>1. /\ i + 1 \in DOMAIN inbox /\ inbox[i + 1] = inbox'[i] /\ i \in Nat
        /\ i + 1 > 1 /\ (i + 1) - 1 = i /\ i + 1 >= 1
    BY <1>3
  <2>2. x \in Threads /\ v \in Turns
    <3>1. inbox[i + 1] \in Notes /\ inbox[i + 1].turn \in Turns
      BY <1>3, <2>1 DEF TurnInv, ToldToSubscribers
    <3>. QED
      BY <2>1, <3>1 DEF Notes
  <2>3. /\ Open(x, v, i + 1) /\ used[x][v] = {} /\ v \notin st[x].completed /\ <<x, v>> \notin steady
        /\ \A j \in DOMAIN inbox : j < i + 1 => ~Of(j, x, v)
    BY <2>1 DEF TurnInv, StartsAreNew
  <2>4. ~(x = t /\ v = u)
    BY <1>1, <2>1, <2>3 DEF Of, t, u, note
  <2>5. Open(x, v, i)'
    BY <1>1, <2>1, <2>3, OpenShifts
  <2>6. used'[x][v] = {}
    BY <1>7, <2>2, <2>3, <2>4
  <2>7. v \notin st'[x].completed
    BY <1>5, <1>6, <2>2, <2>3, <2>4
  <2>8. <<x, v>> \notin steady'
    BY <1>2, <2>3, <2>4
  <2>9. \A j \in DOMAIN inbox' : j < i => ~Of(j, x, v)'
    <3>1. \A j \in DOMAIN inbox' : j < i => ~(inbox[j + 1].thread = x /\ inbox[j + 1].turn = v)
      BY <1>3, <2>1, <2>3 DEF Of
    <3>. QED
      BY <1>3, <3>1 DEF Of
  <2>. QED
    BY <2>5, <2>6, <2>7, <2>8, <2>9
<1>13. SteadyTurns'
  <2>. SUFFICES ASSUME NEW x \in Threads, NEW v \in Turns, <<x, v>> \in steady'
                PROVE  x \in subscribed' /\ (Running(x, v)' \/ TurnOver(x, v)')
    BY DEF SteadyTurns
  <2>0. v # NoTurn
    BY NoTurnIsNone
  <2>1. CASE <<x, v>> \notin steady
    <3>1. note.kind = "start" /\ x = t /\ v = u
      BY <1>2, <2>1
    <3>2. Open(x, v, 1) /\ used[x][v] = {} /\ v \notin st[x].completed
      BY <1>1, <3>1 DEF TurnInv, StartsAreNew, note, t, u
    <3>3. Open(x, v, 0)'
      <4>1. Open(x, v, 1 - 1)'
        BY <1>1, <3>2, OpenShifts
      <4>. QED
        BY <4>1
    <3>4. st'[x].active = v /\ st'[x].epoch = conn
      BY <1>5, <3>1, <3>2
    <3>5. used'[x][v] = {}
      BY <1>7, <3>1, <3>2
    <3>6. x \in subscribed'
      BY <1>2, <3>1
    <3>. QED
      BY <3>3, <3>4, <3>5, <3>6 DEF Running
  <2>2. CASE <<x, v>> \in steady
    <3>1. x \in subscribed' /\ x \in subscribed /\ (Running(x, v) \/ TurnOver(x, v))
      BY <1>2, <2>2 DEF TurnInv, SteadyTurns
    <3>2. CASE TurnOver(x, v)
      <4>1. ~(x = t /\ v = u)
        BY <1>1, <3>2 DEF TurnOver, Of, note, t, u
      <4>2. used'[x][v] = used[x][v] /\ v \in st'[x].completed
        BY <1>5, <1>6, <1>7, <3>2, <4>1 DEF TurnOver
      <4>3. \A i \in DOMAIN inbox' : ~Of(i, x, v)'
        BY <1>3, <3>2 DEF TurnOver, Of
      <4>. QED
        BY <3>1, <3>2, <4>2, <4>3 DEF TurnOver
    <3>3. CASE Running(x, v) /\ Edge(note, x)
      <4>1. note = Note("done", x, v)
        BY <1>1, <3>3, OpenFirst DEF Running, note
      <4>2. note.kind = "done" /\ x = t /\ v = u
        BY <4>1 DEF Note, t, u
      <4>3. live[x] # v /\ \A j \in DOMAIN inbox : j > 1 => ~Of(j, x, v)
        BY <1>1, <4>2 DEF TurnInv, EndsAreLast, note, t, u
      <4>4. \A i \in DOMAIN inbox' : ~Of(i, x, v)'
        BY <1>3, <4>3 DEF Of
      <4>5. v \in st'[x].completed /\ used'[x][v] = used[x][v]
        BY <1>5, <1>7, <4>2
      <4>. QED
        BY <3>1, <3>3, <4>3, <4>4, <4>5 DEF TurnOver, Running
    <3>4. CASE Running(x, v) /\ ~Edge(note, x)
      <4>1. st'[x] = st[x]
        <5>1. CASE x # t
          BY <1>6, <5>1
        <5>2. CASE x = t
          <6>1. note.kind \in {"item", "status"}
            BY <1>1, <3>4, <5>2 DEF Edge, t
          <6>. QED
            BY <1>5, <3>4, <5>2, <6>1 DEF Running
        <5>. QED
          BY <5>1, <5>2
      <4>2. semantics' = semantics
        BY <2>0, <3>4 DEF Running, Quiescent
      <4>3. used'[x][v] \subseteq {semantics'}
        BY <1>7, <3>4, <4>2 DEF Running
      <4>4. Open(x, v, 0)'
        BY <1>1, <2>0, <3>4, OpenStays DEF Running, note
      <4>. QED
        BY <3>1, <3>4, <4>1, <4>3, <4>4 DEF Running
    <3>. QED
      BY <3>1, <3>2, <3>3, <3>4
  <2>. QED
    BY <2>1, <2>2
<1>. QED
  BY <1>8, <1>9, <1>10, <1>11, <1>12, <1>13 DEF TurnInv

\* The App Server.
LEMMA AnnounceKeeps ==
    ASSUME TurnInv, NEW t \in Threads, Announce(t)
    PROVE  TurnInv'
<1>. DEFINE note == Note("status", t, NoTurn)
<1>1. /\ phase # "down" /\ inbox' = Append(inbox, note) /\ note \in Notes
      /\ UNCHANGED <<semantics, blocked, live, conn, phase, reply, subscribed, st, used, steady>>
  BY DEF Announce, Note, Notes, server, agent, observers
<1>2. live' \in [Threads -> Turns \cup {NoTurn}]
  BY <1>1 DEF TurnInv, TurnTypes
<1>3. note.kind = "status" /\ note.turn = NoTurn /\ \A x : ~Edge(note, x)
  BY DEF Note, Edge
<1>. HIDE DEF note
<1>. QED
  BY <1>1, <1>2, <1>3, ToldKeeps

LEMMA ServerWorksKeeps ==
    ASSUME TurnInv, NEW t \in Threads, ServerWorks(t)
    PROVE  TurnInv'
<1>. DEFINE note == Note("item", t, live[t])
<1>1. /\ phase # "down" /\ inbox' = Append(inbox, note) /\ live[t] # NoTurn /\ t \in subscribed
      /\ UNCHANGED <<semantics, blocked, live, conn, phase, reply, subscribed, st, used, steady>>
  BY DEF ServerWorks, server, agent, observers
<1>2. live' \in [Threads -> Turns \cup {NoTurn}] /\ live[t] \in Turns
  BY <1>1 DEF TurnInv, TurnTypes
<1>3. /\ note \in Notes /\ note.kind = "item" /\ note.thread = t /\ note.turn = live[t]
      /\ \A x : ~Edge(note, x)
  BY <1>2 DEF Note, Notes, Edge
<1>. HIDE DEF note
<1>. QED
  BY <1>1, <1>2, <1>3, ToldKeeps

LEMMA ServerEndsKeeps ==
    ASSUME TurnInv, NEW t \in Threads, ServerEnds(t)
    PROVE  TurnInv'
<1>. DEFINE note == Note("done", t, live[t])
<1>1. /\ live' = [live EXCEPT ![t] = NoTurn] /\ live[t] # NoTurn /\ inbox' = Told(t, note)
      /\ UNCHANGED <<semantics, blocked, conn, phase, reply, subscribed, st, used, steady>>
  BY DEF ServerEnds, server, observers
<1>2. /\ live' \in [Threads -> Turns \cup {NoTurn}] /\ live[t] \in Turns
      /\ live'[t] = NoTurn /\ \A x \in Threads : x # t => live'[x] = live[x]
  BY <1>1 DEF TurnInv, TurnTypes
<1>3. CASE phase # "down" /\ t \in subscribed
  <2>1. note \in Notes /\ note.kind = "done" /\ note.thread = t /\ note.turn = live[t]
    BY <1>2 DEF Note, Notes
  <2>2. inbox' = Append(inbox, note)
    BY <1>1, <1>3 DEF Told
  <2>3. \A x \in Threads, u \in Turns :
            /\ live[x] = u => (live'[x] = u /\ ~Edge(note, x)) \/ note = Note("done", x, u)
            /\ live'[x] = u /\ live[x] # u => note = Note("start", x, u)
    BY <1>2, <2>1, NoTurnIsNone DEF Edge
  <2>. HIDE DEF note
  <2>. QED
    BY <1>1, <1>2, <1>3, <2>1, <2>2, <2>3, ToldKeeps
<1>4. CASE phase = "down" \/ t \notin subscribed
  <2>1. inbox' = inbox
    BY <1>1, <1>4 DEF Told
  <2>. QED
    BY <1>1, <1>4, <2>1, UnheardKeeps
<1>. QED
  BY <1>3, <1>4

LEMMA ServerStartsKeeps ==
    ASSUME TurnInv, NEW t \in Threads, NEW u \in Turns, ServerStarts(t, u)
    PROVE  TurnInv'
<1>. DEFINE note == Note("start", t, u)
<1>1. /\ live' = [live EXCEPT ![t] = u] /\ live[t] = NoTurn /\ inbox' = Told(t, note)
      /\ u \notin st[t].completed /\ used[t][u] = {}
      /\ \A i \in DOMAIN inbox : inbox[i].thread # t \/ inbox[i].turn # u
      /\ UNCHANGED <<semantics, blocked, conn, phase, reply, subscribed, st, used, steady>>
  BY DEF ServerStarts, server, observers
<1>2. /\ live' \in [Threads -> Turns \cup {NoTurn}]
      /\ live'[t] = u /\ \A x \in Threads : x # t => live'[x] = live[x]
  BY <1>1 DEF TurnInv, TurnTypes
<1>3. CASE phase # "down" /\ t \in subscribed
  <2>1. note \in Notes /\ note.kind = "start" /\ note.thread = t /\ note.turn = u
    BY <1>2 DEF Note, Notes
  <2>2. inbox' = Append(inbox, note)
    BY <1>1, <1>3 DEF Told
  <2>3. \A x \in Threads, v \in Turns :
            /\ live[x] = v => (live'[x] = v /\ ~Edge(note, x)) \/ note = Note("done", x, v)
            /\ live'[x] = v /\ live[x] # v => note = Note("start", x, v)
    BY <1>1, <1>2, <2>1, NoTurnIsNone DEF Edge
  <2>4. \A i \in DOMAIN inbox : ~Of(i, note.thread, note.turn)
    BY <1>1, <2>1 DEF Of
  <2>. HIDE DEF note
  <2>. QED
    BY <1>1, <1>2, <1>3, <2>1, <2>2, <2>3, <2>4, ToldKeeps
<1>4. CASE phase = "down" \/ t \notin subscribed
  <2>1. inbox' = inbox
    BY <1>1, <1>4 DEF Told
  <2>. QED
    BY <1>1, <1>4, <2>1, UnheardKeeps
<1>. QED
  BY <1>3, <1>4

\* Connections: nothing of an old one is in the inbox or steady.
LEMMA EmptyKeeps ==
    ASSUME TurnInv, inbox' = <<>>, steady' = {}, ~blocked', TurnTypes'
    PROVE  TurnInv'
<1>1. DOMAIN inbox' = {}
  OBVIOUS
<1>2. ToldToSubscribers' /\ StartsAreNew' /\ EndsAreLast'
  BY <1>1 DEF ToldToSubscribers, StartsAreNew, EndsAreLast
<1>3. SteadyTurns' /\ AtBoundary'
  BY DEF SteadyTurns, AtBoundary
<1>. QED
  BY <1>2, <1>3 DEF TurnInv

LEMMA ConnectionKeeps ==
    ASSUME TurnInv, Connect \/ Lose \/ ServerRestarts
    PROVE  TurnInv'
<1>1. CASE Connect
  <2>1. inbox' = <<>> /\ ~blocked' /\ steady' = {}
    BY <1>1 DEF TurnInv, AtBoundary, Connect, server, observers
  <2>2. TurnTypes'
    BY <1>1 DEF TurnInv, TurnTypes, Connect, agent, observers
  <2>. QED
    BY <2>1, <2>2, EmptyKeeps
<1>2. CASE Lose
  <2>1. inbox' = <<>> /\ ~blocked' /\ steady' = {}
    BY <1>2 DEF Lose, server
  <2>2. TurnTypes'
    BY <1>2 DEF TurnInv, TurnTypes, Lose, agent
  <2>. QED
    BY <2>1, <2>2, EmptyKeeps
<1>3. CASE ServerRestarts
  <2>1. inbox' = <<>> /\ ~blocked' /\ steady' = {}
    BY <1>3 DEF TurnInv, AtBoundary, ServerRestarts, server, link, observers
  <2>2. TurnTypes'
    BY <1>3 DEF TurnInv, TurnTypes, ServerRestarts, link, observers
  <2>. QED
    BY <2>1, <2>2, EmptyKeeps
<1>. QED
  BY <1>1, <1>2, <1>3

\* The reconciliation: before the connection is ready no turn is steady on it.
LEMMA ReconcilingKeeps ==
    ASSUME TurnInv, phase # "ready", phase # "down", ~blocked, ~blocked', phase' # "down",
           \A t \in Threads : st'[t].completed = st[t].completed,
           TurnTypes', subscribed \subseteq subscribed',
           UNCHANGED <<live, inbox, used, steady>>
    PROVE  TurnInv'
<1>1. steady = {} /\ steady' = {}
  BY DEF TurnInv, AtBoundary
<1>2. ToldToSubscribers' /\ EndsAreLast'
  BY DEF TurnInv, ToldToSubscribers, EndsAreLast, Of
<1>3. StartsAreNew'
  <2>1. \A i \in DOMAIN inbox : inbox[i].thread \in Threads
    <3>1. \A i \in DOMAIN inbox : inbox[i] \in Notes
      BY DEF TurnInv, TurnTypes
    <3>. QED
      BY <3>1 DEF Notes
  <2>. QED
    BY <2>1 DEF TurnInv, StartsAreNew, Of, Open, Edge, Note
<1>4. SteadyTurns' /\ AtBoundary'
  BY <1>1 DEF SteadyTurns, AtBoundary
<1>. QED
  BY <1>2, <1>3, <1>4 DEF TurnInv

LEMMA ReconciliationKeeps ==
    ASSUME TurnInv, List \/ (\E t \in Threads : Resume(t)) \/ Reconcile \/ Ready
    PROVE  TurnInv'
<1>1. CASE List
  <2>1. TurnTypes'
    BY <1>1 DEF TurnInv, TurnTypes, List, agent, observers
  <2>. QED
    BY <1>1, <2>1, ReconcilingKeeps DEF List, server, agent, observers
<1>2. CASE \E t \in Threads : Resume(t)
  <2>1. PICK t \in Threads : Resume(t)
    BY <1>2
  <2>2. live[t] \in Turns \cup {NoTurn}
    BY DEF TurnInv, TurnTypes
  <2>3. TurnTypes'
    BY <2>1, <2>2 DEF TurnInv, TurnTypes, Resume, agent, observers
  <2>. QED
    BY <2>1, <2>3, ReconcilingKeeps DEF Resume, server, agent, observers
<1>3. CASE Reconcile
  <2>1. /\ st' = [st EXCEPT ![reply[1]] = Reconciled(st[reply[1]], reply[2], conn)] /\ reply' = <<>>
        /\ reply[1] \in Threads /\ reply[2] \in Turns \cup {NoTurn}
        /\ UNCHANGED <<live, conn, inbox, used, steady, subscribed, phase, blocked>>
        /\ phase = "reconciling" /\ ~blocked
    BY <1>3 DEF TurnInv, TurnTypes, Reconcile, server, agent, observers
  <2>2. st \in [Threads -> ThreadStates] /\ conn \in Nat /\ st[reply[1]] \in ThreadStates
    BY <2>1 DEF TurnInv, TurnTypes
  <2>3. /\ Reconciled(st[reply[1]], reply[2], conn) \in ThreadStates
        /\ Reconciled(st[reply[1]], reply[2], conn).completed = st[reply[1]].completed
    BY <2>1, <2>2, ReconciledFacts
  <2>4. st' \in [Threads -> ThreadStates] /\ \A t \in Threads : st'[t].completed = st[t].completed
    BY <2>1, <2>2, <2>3
  <2>5. TurnTypes'
    BY <2>1, <2>4 DEF TurnInv, TurnTypes
  <2>. QED
    BY <2>1, <2>4, <2>5, ReconcilingKeeps
<1>4. CASE Ready
  <2>1. TurnTypes'
    BY <1>4 DEF TurnInv, TurnTypes, Ready, agent, observers
  <2>. QED
    BY <1>4, <2>1, ReconcilingKeeps DEF Ready, server, agent, observers
<1>. QED
  BY <1>1, <1>2, <1>3, <1>4

\* The event loop.
LEMMA ReachBoundaryKeeps ==
    ASSUME TurnInv, ReachBoundary
    PROVE  TurnInv'
<1>1. /\ Quiescent /\ phase # "down" /\ inbox # <<>> /\ Head(inbox).kind = "start"
      /\ UNCHANGED <<semantics, live, conn, phase, reply, subscribed, inbox, st, used, steady>>
  BY DEF ReachBoundary, Consuming, Boundary, Next1, agent, link, observers
<1>2. inbox[1].kind = "start"
  BY <1>1, ShiftFacts DEF TurnInv, TurnTypes
<1>. QED
  BY <1>1, <1>2, OthersKeepTurns

LEMMA ConsumeKeeps ==
    ASSUME TurnInv, Consume \/ Activate
    PROVE  TurnInv'
<1>1. inbox # <<>> => Next1 = inbox[1]
  BY DEF TurnInv, TurnTypes, Next1
<1>2. CASE Consume
  <2>1. /\ inbox # <<>> /\ phase # "down" /\ ~blocked' /\ semantics' = semantics
        /\ Reduce(Next1, semantics) /\ UNCHANGED <<live, conn, phase, reply>>
    BY <1>2 DEF Consume, Consuming, server, agent
  <2>2. Reduce(inbox[1], semantics')
    BY <1>1, <2>1
  <2>. QED
    BY <2>1, <2>2, ReduceKeeps
<1>3. CASE Activate
  <2>1. /\ inbox # <<>> /\ phase # "down" /\ inbox[1].kind = "start" /\ Quiescent
    BY <1>3 DEF TurnInv, AtBoundary, Activate
  <2>2. ~blocked' /\ Reduce(Next1, semantics') /\ UNCHANGED <<live, conn, phase, reply>>
    BY <1>3 DEF Activate, agent
  <2>3. Reduce(inbox[1], semantics')
    BY <1>1, <2>1, <2>2
  <2>. QED
    BY <2>1, <2>2, <2>3, ReduceKeeps
<1>. QED
  BY <1>2, <1>3

LEMMA TurnStep == TurnInv /\ [Next]_vars => TurnInv'
<1>. SUFFICES ASSUME TurnInv, [Next]_vars PROVE TurnInv'
  OBVIOUS
<1>1. CASE \/ \E content \in Contents \cup {Invalid} : Edit(content)
           \/ Watch \/ UNCHANGED vars
           \/ \E c \in Callers : Ask(c) \/ Load(c) \/ Publish(c) \/ Return(c)
           \/ \E t \in Threads : ServerLoads(t)
  BY <1>1, OthersKeepTurns
     DEF Edit, Watch, Ask, Load, Publish, Return, ServerLoads, vars, server, agent, link, observers
<1>2. CASE \E t \in Threads : Announce(t) \/ ServerWorks(t) \/ ServerEnds(t)
  BY <1>2, AnnounceKeeps, ServerWorksKeeps, ServerEndsKeeps
<1>3. CASE \E t \in Threads, u \in Turns : ServerStarts(t, u)
  BY <1>3, ServerStartsKeeps
<1>4. CASE Connect \/ Lose \/ ServerRestarts
  BY <1>4, ConnectionKeeps
<1>5. CASE List \/ (\E t \in Threads : Resume(t)) \/ Reconcile \/ Ready
  BY <1>5, ReconciliationKeeps
<1>6. CASE ReachBoundary
  BY <1>6, ReachBoundaryKeeps
<1>7. CASE Activate \/ Consume
  BY <1>7, ConsumeKeeps
<1>. QED
  BY <1>1, <1>2, <1>3, <1>4, <1>5, <1>6, <1>7 DEF Next

\* The items of a turn are normalized under one generation of the settings, on any number of
\* threads, turns and connections, with an inbox of any length.
THEOREM OnePolicyPerTurn == Spec => []TurnKeepsPolicy
<1>1. TurnInv => TurnKeepsPolicy
  <2>. SUFFICES ASSUME TurnInv, NEW t \in Threads, NEW u \in Turns, <<t, u>> \in steady
                PROVE  Cardinality(used[t][u]) <= 1
    BY DEF TurnKeepsPolicy
  <2>1. PICK settings : used[t][u] \subseteq {settings}
    BY DEF TurnInv, SteadyTurns, Running, TurnOver
  <2>2. IsFiniteSet({settings}) /\ Cardinality({settings}) = 1
    BY FS_Singleton
  <2>3. Cardinality(used[t][u]) <= Cardinality({settings})
    BY <2>1, <2>2, FS_Subset
  <2>. QED
    BY <2>2, <2>3
<1>. QED
  BY <1>1, TurnInit, TurnStep, PTL DEF Spec

-----------------------------------------------------------------------------
(***************************************************************************)
(* ConfigLayers.  A layer on top of two configurations, one with and one   *)
(* without the repository's, keeps the relation the two were in, and the   *)
(* repository's own layer establishes it.                                  *)
(***************************************************************************)
\* What a configuration enforces at least, compared with another one; a value of the wrong type
\* compares with nothing.
Tightens(strict, plain) ==
    /\ strict.observe = plain.observe /\ strict.mcp = plain.mcp
    /\ plain.paths # Wrong => plain.paths \subseteq strict.paths
    /\ plain.block # Wrong /\ plain.block => strict.block

\* A layer on top of both changes nothing about it.
LEMMA LayerKeeps ==
    ASSUME NEW strict, NEW plain, NEW layer, Tightens(strict, plain),
           WithLayer(strict, layer) # Refused, WithLayer(plain, layer) # Refused
    PROVE  Tightens(WithLayer(strict, layer), WithLayer(plain, layer))
<1>1. strict # Refused /\ plain # Refused /\ layer # Unparsable
  <2>1. \A config : config = Refused \/ layer = Unparsable => WithLayer(config, layer) = Refused
    BY LayerAssumption DEF WithLayer
  <2>. QED
    BY <2>1
<1>2. CASE layer = Absent
  BY <1>1, <1>2 DEF WithLayer
<1>3. CASE layer # Absent
  <2>1. WithLayer(strict, layer) = Merge(strict, layer) /\ WithLayer(plain, layer) = Merge(plain, layer)
    BY <1>1, <1>3 DEF WithLayer
  <2>. QED
    BY <2>1 DEF Merge, Settings, Tightens
<1>. QED
  BY <1>2, <1>3

\* A repository's file that is applied tightens what it is merged into.
LEMMA RepositoryTightens ==
    ASSUME NEW config, NEW layer
    PROVE  Tightens(WithRepository(config, layer), config)
<1>. DEFINE candidate == MergeRepository(config, layer)
<1>1. CASE WithRepository(config, layer) = config
  BY <1>1 DEF Tightens
<1>2. CASE WithRepository(config, layer) # config
  <2>1. WithRepository(config, layer) = candidate /\ WellFormed(candidate)
    BY <1>2 DEF WithRepository
  <2>2. candidate.paths # Wrong /\ candidate.block # Wrong
    BY <2>1 DEF WellFormed, Typed, Settings
  <2>3. candidate.observe = config.observe /\ candidate.mcp = config.mcp
    BY DEF MergeRepository, Merge, Settings
  <2>4. candidate.paths = IF "paths" \notin DOMAIN layer THEN config.paths
                          ELSE IF Wrong \in {layer.paths, config.paths} THEN Wrong
                          ELSE config.paths \cup layer.paths
    BY DEF MergeRepository, Merge, Settings
  <2>5. candidate.block = IF "block" \notin DOMAIN layer THEN config.block
                          ELSE IF Wrong \in {layer.block, config.block} THEN layer.block
                          ELSE config.block \/ layer.block
    BY DEF MergeRepository, Merge, Settings
  <2>6. config.paths # Wrong => config.paths \subseteq candidate.paths
    BY <2>2, <2>4
  <2>7. config.block # Wrong /\ config.block => candidate.block
    BY <2>2, <2>5
  <2>. HIDE DEF candidate
  <2>. QED
    BY <2>1, <2>3, <2>6, <2>7 DEF Tightens
<1>. QED
  BY <1>1, <1>2

\* The claim, for any files at all, of any content.
THEOREM OnlyTightens == RepositoryOnlyTightens
<1>. SUFFICES ASSUME layers.explicit # SameFile, Effective # Refused, OperatorOnly # Refused
              PROVE  /\ OperatorOnly.paths \subseteq Effective.paths
                     /\ OperatorOnly.block => Effective.block
                     /\ Effective.observe = OperatorOnly.observe /\ Effective.mcp = OperatorOnly.mcp
  BY DEF RepositoryOnlyTightens
<1>. DEFINE base == WithLayer(Defaults, layers.global)
            local == IF base = Refused THEN Refused ELSE WithRepository(base, layers.repository)
            mode == IF layers.mode \in {Absent, Unparsable} THEN layers.mode ELSE Preset(layers.mode)
            strict == WithLayer(WithLayer(local, layers.explicit), mode)
            plain == WithLayer(WithLayer(base, layers.explicit), mode)
<1>1. Effective = strict /\ strict # Refused
  BY DEF Effective, Resolve
<1>2. OperatorOnly = plain /\ plain # Refused /\ WellFormed(plain)
  <2>1. base # Refused => WithRepository(base, Absent) = base
    BY DEF WithRepository
  <2>2. OperatorOnly = IF plain = Refused THEN Refused ELSE IF WellFormed(plain) THEN plain ELSE Refused
    <3>1. OperatorOnly = Resolve(layers.global, Absent, layers.explicit, layers.mode)
      BY DEF OperatorOnly
    <3>2. (IF base = Refused THEN Refused ELSE WithRepository(base, Absent)) = base
      BY <2>1
    <3>. QED
      BY <3>1, <3>2 DEF Resolve
  <2>. QED
    BY <2>2
<1>3. WithLayer(local, layers.explicit) # Refused /\ WithLayer(base, layers.explicit) # Refused
  BY <1>1, <1>2 DEF WithLayer
<1>4. base # Refused
  BY <1>3 DEF WithLayer
<1>. HIDE DEF base, mode
<1>5. Tightens(local, base)
  BY <1>4, RepositoryTightens
<1>6. Tightens(strict, plain)
  <2>. HIDE DEF local
  <2>1. Tightens(WithLayer(local, layers.explicit), WithLayer(base, layers.explicit))
    BY <1>3, <1>5, LayerKeeps
  <2>. QED
    BY <1>1, <1>2, <2>1, LayerKeeps
<1>7. plain.paths # Wrong /\ plain.block # Wrong
  BY <1>2 DEF WellFormed, Typed, Settings
<1>. HIDE DEF strict, plain
<1>. QED
  BY <1>1, <1>2, <1>6, <1>7 DEF Tightens

-----------------------------------------------------------------------------
(***************************************************************************)
(* DaemonLifecycle.  Managers that start, stop, restart and upgrade appear *)
(* in the argument only as somebody who spawns and kills: nothing is needed *)
(* of what they believe.                                                   *)
(***************************************************************************)
Phases == Starting \cup {"unused", "failed", "serving", "stopping", "closed", "unlinked", "exited"}

\* The types the argument needs: what a daemon does, whom the lock and the socket file name.
NamesDaemons ==
    /\ daemon \in [Daemons -> Phases]
    /\ lock \in Daemons \cup {NoProcess}
    /\ socket \in Daemons \cup {NoSocket}

\* From the moment it has the lock until it gives it back or dies, a daemon is its holder.
HoldsLock ==
    \A p \in Daemons : daemon[p] \in {"locked", "cleared", "serving", "stopping", "closed", "unlinked"}
                           => lock = p

\* From Bind until its own Unlink, the socket file is its own.
HoldsSocket ==
    \A p \in Daemons : daemon[p] \in {"serving", "stopping", "closed"} => socket = p

OwnershipInv == NamesDaemons /\ HoldsLock /\ HoldsSocket

-----------------------------------------------------------------------------
(* Lemmas: one for each way in which daemons come, go and stay. *)

\* A killed process takes nobody's lock with it, and nobody's socket file.
LEMMA KillKeepsOwnership ==
    ASSUME OwnershipInv, NEW p, p # NoProcess, NEW exit \in {"failed", "exited"}, Kill(p, exit),
           socket' = socket
    PROVE  OwnershipInv'
<1>1. daemon' = [daemon EXCEPT ![p] = exit]
  BY DEF Kill, Move
<1>2. daemon' \in [Daemons -> Phases]
  BY <1>1 DEF OwnershipInv, NamesDaemons, Phases
<1>3. lock' \in Daemons \cup {NoProcess}
  BY DEF OwnershipInv, NamesDaemons, Kill
<1>4. \A q \in Daemons : q # p => daemon'[q] = daemon[q]
  BY <1>1 DEF OwnershipInv, NamesDaemons
<1>5. p \in Daemons => daemon'[p] = exit
  BY <1>1 DEF OwnershipInv, NamesDaemons
<1>6. HoldsLock'
  BY <1>4, <1>5 DEF OwnershipInv, HoldsLock, Kill
<1>7. HoldsSocket'
  BY <1>4, <1>5 DEF OwnershipInv, HoldsSocket
<1>. QED
  BY <1>2, <1>3, <1>6, <1>7 DEF OwnershipInv, NamesDaemons

\* A daemon that is spawned owns nothing yet.
LEMMA SpawnKeepsOwnership ==
    ASSUME OwnershipInv, NEW p \in Unused, daemon' = [daemon EXCEPT ![p] = "spawned"],
           UNCHANGED <<lock, socket>>
    PROVE  OwnershipInv'
BY DEF Unused, OwnershipInv, NamesDaemons, HoldsLock, HoldsSocket, Phases, Starting

\* What does not touch daemons, lock and socket keeps the invariant.
LEMMA OthersKeepOwnership ==
    ASSUME OwnershipInv, UNCHANGED <<daemon, lock, socket>> PROVE OwnershipInv'
BY DEF OwnershipInv, NamesDaemons, HoldsLock, HoldsSocket

-----------------------------------------------------------------------------
\* The steps of a daemon.
LEMMA DaemonStep ==
    ASSUME OwnershipInv, NEW p \in Daemons,
           Lock(p) \/ CheckSocket(p) \/ Bind(p) \/ PackageGone(p) \/ CloseServer(p) \/ Unlink(p)
             \/ DaemonDies(p) \/ Respawn(p)
    PROVE  OwnershipInv'
<1>. USE LifecycleAssumption DEF Move, Rest, OwnershipInv, NamesDaemons, HoldsLock, HoldsSocket,
                                 Phases, Starting
<1>1. CASE Lock(p)
  BY <1>1 DEF Lock
<1>2. CASE CheckSocket(p)
  BY <1>2 DEF CheckSocket
<1>3. CASE Bind(p)
  BY <1>3 DEF Bind
<1>4. CASE PackageGone(p) \/ CloseServer(p)
  BY <1>4 DEF PackageGone, CloseServer
<1>5. CASE Unlink(p)
  BY <1>5 DEF Unlink
<1>6. CASE DaemonDies(p)
  BY <1>6, KillKeepsOwnership DEF DaemonDies
<1>7. CASE Respawn(p)
  BY <1>7, SpawnKeepsOwnership DEF Respawn, Outside
<1>. QED
  BY <1>1, <1>2, <1>3, <1>4, <1>5, <1>6, <1>7

\* A restart of the unit kills its process and spawns the next one.
LEMMA ManagedStartStep ==
    ASSUME OwnershipInv, NEW m \in Managers, NEW p \in Daemons, ManagedStart(m, p)
    PROVE  OwnershipInv'
<1>1. socket' = socket /\ p \in Unused /\ daemon[p] = "unused"
  BY DEF ManagedStart, Unused
<1>2. CASE Active
  <2>1. daemon' = [daemon EXCEPT ![p] = "spawned", ![unit] = "exited"]
    BY <1>2 DEF ManagedStart
  <2>2. lock' = (IF lock = unit THEN NoProcess ELSE lock) /\ unit # NoProcess
    BY <1>2 DEF ManagedStart, Active
  <2>3. daemon' \in [Daemons -> Phases]
    BY <2>1 DEF OwnershipInv, NamesDaemons, Phases, Starting
  <2>4. \A q \in Daemons : q \notin {p, unit} => daemon'[q] = daemon[q]
    BY <2>1 DEF OwnershipInv, NamesDaemons
  <2>5. \A q \in Daemons \cap {p, unit} : daemon'[q] \in {"spawned", "exited"}
    BY <2>1 DEF OwnershipInv, NamesDaemons
  <2>6. HoldsLock'
    BY <2>2, <2>4, <2>5 DEF OwnershipInv, HoldsLock
  <2>7. HoldsSocket'
    BY <1>1, <2>4, <2>5 DEF OwnershipInv, HoldsSocket
  <2>. QED
    BY <1>1, <2>2, <2>3, <2>6, <2>7 DEF OwnershipInv, NamesDaemons
<1>3. CASE ~Active
  <2>1. daemon' = [daemon EXCEPT ![p] = "spawned"]
    BY <1>3 DEF ManagedStart, OwnershipInv, NamesDaemons
  <2>. QED
    BY <1>1, <1>3, <2>1, SpawnKeepsOwnership DEF ManagedStart
<1>. QED
  BY <1>2, <1>3

\* The steps of a manager.
LEMMA ManagerStep ==
    ASSUME OwnershipInv, NEW m \in Managers,
           Begin(m) \/ ManualStart(m) \/ Wait(m) \/ TimeOut(m) \/ AskStop(m) \/ AwaitStop(m)
             \/ ManagedStop(m) \/ ManagedLeave(m) \/ \E p \in Daemons : Spawn(m, p) \/ ManagedStart(m, p)
    PROVE  OwnershipInv'
<1>1. CASE Begin(m) \/ ManualStart(m) \/ Wait(m) \/ AwaitStop(m) \/ ManagedLeave(m)
  BY <1>1, OthersKeepOwnership DEF Begin, ManualStart, Wait, AwaitStop, ManagedLeave, Outside
<1>2. CASE TimeOut(m)
  BY <1>2, KillKeepsOwnership DEF TimeOut
<1>3. CASE AskStop(m)
  <2>1. ASSUME NEW p \in Answering, Move(p, "stopping"), UNCHANGED <<lock, socket>>
        PROVE  OwnershipInv'
    BY <2>1 DEF Answering, Move, OwnershipInv, NamesDaemons, HoldsLock, HoldsSocket, Phases
  <2>. QED
    BY <1>3, <2>1, OthersKeepOwnership DEF AskStop, Outside
<1>4. CASE ManagedStop(m)
  <2>1. CASE Active
    BY <1>4, <2>1, KillKeepsOwnership DEF ManagedStop, StopUnit, Active
  <2>2. CASE ~Active
    BY <1>4, <2>2, OthersKeepOwnership DEF ManagedStop, StopUnit
  <2>. QED
    BY <2>1, <2>2
<1>5. ASSUME NEW p \in Daemons, Spawn(m, p) PROVE OwnershipInv'
  BY <1>5, SpawnKeepsOwnership DEF Spawn, Outside
<1>6. ASSUME NEW p \in Daemons, ManagedStart(m, p) PROVE OwnershipInv'
  BY <1>6, ManagedStartStep
<1>. QED
  BY <1>1, <1>2, <1>3, <1>4, <1>5, <1>6

\* The socket leads to the daemon that serves, and its file is removed and taken over by nobody
\* else: DaemonServer.start() binds under the lock, close() unlinks its own before it unlocks.
THEOREM ServerIsReached == LifecycleSpec => []SocketReachesServer
<1>1. LifecycleInit => OwnershipInv
  BY DEF LifecycleInit, OwnershipInv, NamesDaemons, HoldsLock, HoldsSocket, Phases
<1>2. ASSUME OwnershipInv, [LifecycleNext]_daemonVars PROVE OwnershipInv'
  <2>1. CASE Upgrade
    BY <1>2, <2>1, OthersKeepOwnership DEF Upgrade
  <2>2. CASE UNCHANGED daemonVars
    BY <1>2, <2>2, OthersKeepOwnership DEF daemonVars
  <2>. QED
    BY <1>2, <2>1, <2>2, DaemonStep, ManagerStep DEF LifecycleNext
<1>3. OwnershipInv => SocketReachesServer
  BY DEF OwnershipInv, HoldsLock, HoldsSocket, SocketReachesServer
<1>. QED
  BY <1>1, <1>2, <1>3, PTL DEF LifecycleSpec

-----------------------------------------------------------------------------
(***************************************************************************)
(* SignalRecovery, the replay of a journal (hydrate()).  HydratedJournal   *)
(* is a recursive function; that it obeys its equation, and that the       *)
(* replay of one record more is one step more, is an induction on the      *)
(* length of the journal, by the least length at which it would fail.      *)
(***************************************************************************)

\* Of naturals, < is well-founded.
LEMMA LessIsLess == ASSUME NEW m \in Nat, NEW n \in Nat, m < n PROVE <<m, n>> \in OpToRel(<, Nat)
  BY DEF OpToRel

\* A set of naturals that is not empty has a least member.
LEMMA LeastMember ==
    ASSUME NEW S \in SUBSET Nat, S # {}
    PROVE  \E n \in S : \A m \in S : n <= m
  <1>1. PICK n \in S : \A m \in S : ~(<<m, n>> \in OpToRel(<, Nat))
    BY NatLessThanWellFounded, WFMin
  <1>2. \A m \in S : ~(m < n)
    BY <1>1, LessIsLess
  <1> QED
    BY <1>2

\* Before the first record.
Empty == [engine |-> Fresh, state |-> NoEvidence, due |-> {}]
\* run[m] is what hydrate() has after m records.
Runs(run, records, n) ==
    run = [m \in 0..n |-> IF m = 0 THEN Empty ELSE Replay(run[m - 1], records[m])]

\* A journal of any length can be replayed.
LEMMA RunExists ==
    ASSUME NEW records, NEW n \in Nat
    PROVE  \E run : Runs(run, records, n)
  <1> DEFINE Bad == {k \in Nat : ~\E run : Runs(run, records, k)}
  <1>1. ASSUME Bad # {} PROVE FALSE
    <2>1. PICK k \in Bad : \A m \in Bad : k <= m
      BY <1>1, LeastMember
    <2>2. CASE k = 0
      <3>1. Runs([m \in 0..0 |-> Empty], records, 0)
        BY DEF Runs
      <3> QED
        BY <2>2, <3>1
    <2>3. CASE k # 0
      <3>1. k \in Nat /\ k - 1 \in Nat /\ k - 1 \notin Bad
        BY <2>1, <2>3
      <3>2. PICK run : Runs(run, records, k - 1)
        BY <3>1
      <3>3. PICK more : more = [m \in 0..k |-> IF m = k THEN Replay(run[k - 1], records[k])
                                               ELSE run[m]]
        OBVIOUS
      <3>4. DOMAIN run = 0..(k - 1) /\ run[0] = Empty
            /\ \A m \in 1..(k - 1) : run[m] = Replay(run[m - 1], records[m])
        BY <3>1, <3>2 DEF Runs
      <3>5. ASSUME NEW m \in 0..k
            PROVE  more[m] = IF m = 0 THEN Empty ELSE Replay(more[m - 1], records[m])
        <4>1. CASE m = 0
          BY <3>1, <3>3, <3>4, <4>1
        <4>2. CASE m = k
          <5>1. more[m - 1] = run[k - 1] /\ more[m] = Replay(run[k - 1], records[k])
            BY <3>1, <3>3, <4>2
          <5> QED
            BY <2>3, <4>2, <5>1
        <4>3. CASE m # 0 /\ m # k
          <5>1. m \in 1..(k - 1) /\ more[m] = run[m] /\ more[m - 1] = run[m - 1]
            BY <3>1, <3>3, <4>3
          <5> QED
            BY <3>4, <4>3, <5>1
        <4> QED
          BY <4>1, <4>2, <4>3
      <3>6. Runs(more, records, k)
        BY <3>3, <3>5 DEF Runs
      <3> QED
        BY <3>6
    <2> QED
      BY <2>2, <2>3
  <1> QED
    BY <1>1

\* There is one way to do so.
LEMMA RunsAgree ==
    ASSUME NEW a, NEW b, NEW r, NEW s, NEW n \in Nat, NEW k \in Nat,
           Runs(a, r, n), Runs(b, s, k), n <= k, \A i \in 1..n : r[i] = s[i]
    PROVE  \A m \in 0..n : a[m] = b[m]
  <1> DEFINE Bad == {m \in 0..n : a[m] # b[m]}
  <1>1. ASSUME Bad # {} PROVE FALSE
    <2>1. PICK m \in Bad : \A l \in Bad : m <= l
      <3>1. Bad \in SUBSET Nat
        OBVIOUS
      <3> HIDE DEF Bad
      <3> QED
        BY <1>1, <3>1, LeastMember
    <2>2. a[m] = IF m = 0 THEN Empty ELSE Replay(a[m - 1], r[m])
      BY <2>1 DEF Runs
    <2>3. b[m] = IF m = 0 THEN Empty ELSE Replay(b[m - 1], s[m])
      BY <2>1 DEF Runs
    <2>4. m # 0
      BY <2>1, <2>2, <2>3
    <2>5. m - 1 \in 0..n /\ m - 1 \notin Bad /\ r[m] = s[m]
      BY <2>1, <2>4
    <2> QED
      BY <2>1, <2>2, <2>3, <2>5
  <1> QED
    BY <1>1

\* A replay is the last step of such a run.
LEMMA HydratedRuns ==
    ASSUME NEW records, NEW n \in Nat, Len(records) = n
    PROVE  \E run : Runs(run, records, n) /\ HydratedJournal(records) = run[n]
  <1>1. PICK run : Runs(run, records, n)
    BY RunExists
  <1> QED
    BY <1>1 DEF HydratedJournal, Runs, Empty

\* Nothing is replayed of an empty journal.
LEMMA HydratedEmpty == HydratedJournal(<<>>) = Empty
  <1>1. PICK run : Runs(run, <<>>, 0) /\ HydratedJournal(<<>>) = run[0]
    BY HydratedRuns
  <1> QED
    BY <1>1 DEF Runs

\* What is recorded is replayed last.
LEMMA HydratedAppend ==
    ASSUME NEW T, NEW records \in Seq(T), NEW r
    PROVE  HydratedJournal(Append(records, r)) = Replay(HydratedJournal(records), r)
  <1>1. PICK n \in Nat : n = Len(records)
    OBVIOUS
  <1>2. PICK more : more = Append(records, r)
    OBVIOUS
  <1>3. Len(more) = n + 1 /\ more[n + 1] = r /\ \A i \in 1..n : records[i] = more[i]
    <2>1. records \in Seq(T \cup {r})
      OBVIOUS
    <2> QED
      BY <1>1, <1>2, <2>1
  <1>4. PICK a : Runs(a, records, n) /\ HydratedJournal(records) = a[n]
    BY <1>1, HydratedRuns
  <1>5. PICK b : Runs(b, more, n + 1) /\ HydratedJournal(more) = b[n + 1]
    BY <1>3, HydratedRuns
  <1>6. b[n + 1] = Replay(b[n], more[n + 1])
    BY <1>5 DEF Runs
  <1>7. a[n] = b[n]
    BY <1>3, <1>4, <1>5, RunsAgree
  <1> QED
    BY <1>2, <1>3, <1>4, <1>5, <1>6, <1>7

-----------------------------------------------------------------------------
(***************************************************************************)
(* SignalEngine, the streaks.  What an event makes of a set S of streaks   *)
(* is R: R.now go on, R.out is announced.  Every operation and every       *)
(* family keep one contract, Moves: a streak that goes on is one of S or   *)
(* started with the event, a candidate is active exactly when its streak   *)
(* was not announced before, and what is announced as ended is gone.       *)
(***************************************************************************)

\* The statuses of a streak that goes on, and those of one that is over.
Goes == {"active", "cooled_down"}
Ends == {"stale", "resolved"}

\* The shape of a streak, of which its signal names family and key.
IsStreak(s) ==
    /\ DOMAIN s = {"family", "key", "signal", "turn", "epoch", "count", "on", "emitted"}
    /\ s.signal = <<s.family, s.key, s.signal[3]>> /\ s.emitted \in BOOLEAN
IsCandidate(c) == DOMAIN c = {"signal", "status", "source"}

\* All of the event's turn and connection.
At(S, e) == \A s \in S : s.turn = e.turn /\ s.epoch = e.epoch
\* No two under one signal.
OnePerSignal(S) == \A s, t \in S : s.signal = t.signal => s = t
\* Streaks that started before the event.
Older(S, e) == OnePerSignal(S) /\ \A s \in S : IsStreak(s) /\ s.signal[3] # e.id

Was(signal, S) == \E s \in S : s.signal = signal
WasTold(signal, S) == \E s \in S : s.signal = signal /\ s.emitted

\* What a candidate says of the streaks S before the event and N after it.
Announces(c, S, N) ==
    \/ c.status = "active" /\ Was(c.signal, N) /\ ~WasTold(c.signal, S)
    \/ c.status = "cooled_down" /\ Was(c.signal, N) /\ WasTold(c.signal, S)
    \/ c.status \in Ends /\ ~Was(c.signal, N) /\ WasTold(c.signal, S)

NowFrom(S, R, e) ==
    \A n \in R.now : /\ IsStreak(n)
                     /\ n.signal[3] = e.id \/ Was(n.signal, S)
                     /\ n.emitted <=> WasTold(n.signal, S) \/ Was(n.signal, R.out)
OutFrom(S, R, e) ==
    \A c \in R.out : IsCandidate(c) /\ Announces(c, S, R.now)

\* What an event makes of the streaks S: R.now goes on, R.out is announced.
Moves(S, R, e) ==
    NowFrom(S, R, e) /\ OutFrom(S, R, e) /\ OnePerSignal(R.now) /\ OnePerSignal(R.out)

\* Streaks may be left alone, all or some of them.
LEMMA KeepMoves ==
    ASSUME NEW e, NEW S, Older(S, e), NEW T \in SUBSET S
    PROVE  Moves(S, Keep(T), e)
  BY DEF Older, Moves, Keep, NowFrom, OutFrom, OnePerSignal, Was, WasTold

\* _finish(): those that were announced are announced as ended.
LEMMA EndMoves ==
    ASSUME NEW e, NEW S, Older(S, e), NEW T \in SUBSET S, NEW status \in Ends
    PROVE  Moves(S, End(T, status, e), e)
  <1> DEFINE R == End(T, status, e)
  <1>1. R.now = {} /\ R.out = {Candidate(s, status, e) : s \in {s \in T : s.emitted}}
    BY DEF End
  <1>2. ASSUME NEW c \in R.out
        PROVE  /\ IsCandidate(c) /\ c.status = status
               /\ \E s \in T : s.emitted /\ c = Candidate(s, status, e)
    BY <1>1 DEF Candidate, IsCandidate
  <1>3. OutFrom(S, R, e)
    <2> SUFFICES ASSUME NEW c \in R.out PROVE IsCandidate(c) /\ Announces(c, S, R.now)
      BY DEF OutFrom
    <2>1. WasTold(c.signal, S)
      BY <1>2 DEF WasTold, Candidate
    <2> QED
      BY <1>1, <1>2, <2>1 DEF Announces, Was
  <1>4. OnePerSignal(R.out)
    BY <1>2 DEF OnePerSignal, Candidate
  <1> QED
    BY <1>1, <1>3, <1>4 DEF Moves, NowFrom, OnePerSignal

\* A streak that is announced is the same one.
LEMMA ChangedStreak ==
    ASSUME NEW s, IsStreak(s)
    PROVE  LET n == [s EXCEPT !.emitted = TRUE]
           IN  /\ IsStreak(n) /\ n.signal = s.signal /\ n.emitted
               /\ n.family = s.family /\ n.key = s.key /\ n.turn = s.turn /\ n.epoch = s.epoch
  BY DEF IsStreak

\* The first candidate of a streak is active, the next ones are cooled down.
LEMMA RaisedMoves ==
    ASSUME NEW e, NEW S, Older(S, e), NEW s, NEW threshold, IsStreak(s),
           \/ s.signal[3] = e.id /\ ~s.emitted
           \/ \E t \in S : t.signal = s.signal /\ (t.emitted <=> s.emitted)
    PROVE  /\ Moves(S, Raised(s, threshold, e), e)
           /\ \A n \in Raised(s, threshold, e).now : 
                  /\ n.family = s.family /\ n.key = s.key
                  /\ n.turn = s.turn /\ n.epoch = s.epoch
  <1> DEFINE R == Raised(s, threshold, e)
  <1>1. WasTold(s.signal, S) <=> s.emitted
    BY DEF WasTold, Older, OnePerSignal, IsStreak
  <1>2. s.signal[3] = e.id \/ Was(s.signal, S)
    BY DEF Was
  <1>3. CASE s.count < threshold
    <2>1. R.now = {s} /\ R.out = {}
      BY <1>3 DEF Raised, Keep
    <2> QED
      BY <1>1, <1>2, <2>1 DEF Moves, NowFrom, OutFrom, OnePerSignal, Was
  <1>4. CASE ~(s.count < threshold)
    <2> DEFINE n == [s EXCEPT !.emitted = TRUE]
               c == Candidate(s, IF s.emitted THEN "cooled_down" ELSE "active", e)
    <2>1. R.now = {n} /\ R.out = {c}
      BY <1>4 DEF Raised
    <2>2. IsStreak(n) /\ n.signal = s.signal /\ n.emitted /\ n.family = s.family
          /\ n.key = s.key /\ n.turn = s.turn /\ n.epoch = s.epoch
      BY ChangedStreak
    <2>3. IsCandidate(c) /\ c.signal = s.signal
          /\ c.status = IF s.emitted THEN "cooled_down" ELSE "active"
      BY DEF IsCandidate, Candidate
    <2> HIDE DEF n, c, R
    <2>4. NowFrom(S, R, e)
      BY <1>2, <2>1, <2>2, <2>3 DEF NowFrom, Was
    <2>5. OutFrom(S, R, e)
      BY <1>1, <2>1, <2>2, <2>3 DEF OutFrom, Announces, Was
    <2> QED
      BY <2>1, <2>2, <2>4, <2>5 DEF Moves, OnePerSignal, R
  <1> QED
    BY <1>3, <1>4

\* Two results together.
LEMMA BothIs ==
    ASSUME NEW a, NEW b
    PROVE  Both(a, b).now = a.now \cup b.now /\ Both(a, b).out = a.out \cup b.out
  BY DEF Both, Together

\* A streak that counts one event more is the same one.
LEMMA Recounted ==
    ASSUME NEW s, IsStreak(s), NEW c, NEW o, NEW n, n = [s EXCEPT !.count = c, !.on = o]
    PROVE  /\ IsStreak(n) /\ n.signal = s.signal /\ (n.emitted <=> s.emitted)
           /\ n.family = s.family /\ n.key = s.key /\ n.turn = s.turn /\ n.epoch = s.epoch
  BY DEF IsStreak

\* So is one whose level changed.
LEMMA Recounted1 ==
    ASSUME NEW s, IsStreak(s), NEW c, NEW n, n = [s EXCEPT !.count = c]
    PROVE  /\ IsStreak(n) /\ n.signal = s.signal /\ (n.emitted <=> s.emitted)
           /\ n.family = s.family /\ n.key = s.key /\ n.turn = s.turn /\ n.epoch = s.epoch
  BY DEF IsStreak

\* A streak that starts was announced to nobody.
LEMMA NewStreak ==
    ASSUME NEW family, NEW key, NEW e, NEW count, NEW on, NEW n, n = New(family, key, e, count, on)
    PROVE  /\ IsStreak(n) /\ n.signal[3] = e.id /\ ~n.emitted
           /\ n.family = family /\ n.key = key /\ n.turn = e.turn /\ n.epoch = e.epoch
  BY DEF IsStreak, New

\* The streaks of one family that are not over.
Live(S, family, e) == Older(S, e) /\ At(S, e) /\ \A s \in S : s.family = family
Stays(R, family, e) == At(R.now, e) /\ \A n \in R.now : n.family = family

\* The streak of a key counts the event, or a new one starts.
LEMMA CountedMoves ==
    ASSUME NEW e, NEW S, NEW family, Live(S, family, e), NEW key, NEW on, NEW threshold
    PROVE  LET R == Counted(S, family, key, on, threshold, e)
           IN  /\ Moves({s \in S : s.key = key}, R, e) /\ Stays(R, family, e)
               /\ \A n \in R.now : n.key = key
  <1> DEFINE same == {s \in S : s.key = key}
             R == Counted(S, family, key, on, threshold, e)
  <1>1. Older(same, e)
    BY DEF Live, Older, OnePerSignal
  <1>2. CASE same = {}
    <2>0. PICK n : n = New(family, key, e, 1, on)
      OBVIOUS
    <2>1. R = Raised(n, threshold, e)
      BY <1>2, <2>0 DEF Counted
    <2>2. /\ IsStreak(n) /\ n.signal[3] = e.id /\ ~n.emitted
          /\ n.family = family /\ n.key = key /\ n.turn = e.turn /\ n.epoch = e.epoch
      BY <2>0, NewStreak
    <2> HIDE DEF R, same
    <2> QED
      BY <1>1, <2>1, <2>2, RaisedMoves DEF Stays, At, R, same
  <1>3. CASE same # {}
    <2>1. PICK s : s \in same /\ s = CHOOSE t \in same : TRUE
      BY <1>3
    <2>0. PICK c, o, n : c = s.count + 1 /\ o = s.on \cup on /\ n = [s EXCEPT !.count = c, !.on = o]
      OBVIOUS
    <2>2. R = Raised(n, threshold, e)
      BY <1>3, <2>0, <2>1 DEF Counted
    <2>3. IsStreak(s) /\ s.family = family /\ s.key = key /\ s.turn = e.turn /\ s.epoch = e.epoch
      BY <2>1 DEF Live, Older, At
    <2>4. /\ IsStreak(n) /\ n.signal = s.signal /\ (n.emitted <=> s.emitted)
          /\ n.family = s.family /\ n.key = s.key /\ n.turn = s.turn /\ n.epoch = s.epoch
      <3>1. n = [s EXCEPT !.count = c, !.on = o]
        BY <2>0
      <3>2. IsStreak(s)
        BY <2>3
      <3> QED
        BY <3>1, <3>2 DEF IsStreak
    <2> HIDE DEF R, same
    <2>5. \E t \in same : t.signal = n.signal /\ (t.emitted <=> n.emitted)
      BY <2>1, <2>4
    <2> QED
      BY <1>1, <2>2, <2>3, <2>4, <2>5, RaisedMoves DEF Stays, At, R, same
  <1> QED
    BY <1>2, <1>3

\* The streak of a key takes the level, or a new one starts.
LEMMA LevelledMoves ==
    ASSUME NEW e, NEW S, NEW family, Live(S, family, e), NEW key, NEW on, NEW level, NEW threshold
    PROVE  LET R == Levelled(S, family, key, on, level, threshold, e)
           IN  Moves({s \in S : s.key = key}, R, e) /\ Stays(R, family, e)
  <1> DEFINE same == {s \in S : s.key = key}
             R == Levelled(S, family, key, on, level, threshold, e)
  <1>1. Older(same, e)
    BY DEF Live, Older, OnePerSignal
  <1>2. CASE same = {}
    <2>0. PICK n : n = New(family, key, e, level, on)
      OBVIOUS
    <2>1. R = Raised(n, threshold, e)
      BY <1>2, <2>0 DEF Levelled
    <2>2. /\ IsStreak(n) /\ n.signal[3] = e.id /\ ~n.emitted
          /\ n.family = family /\ n.turn = e.turn /\ n.epoch = e.epoch
      BY <2>0, NewStreak
    <2> HIDE DEF R, same
    <2> QED
      BY <1>1, <2>1, <2>2, RaisedMoves DEF Stays, At, R, same
  <1>3. CASE same # {}
    <2>1. PICK s : s \in same /\ s = CHOOSE t \in same : TRUE
      BY <1>3
    <2>0. PICK n : n = [s EXCEPT !.count = level]
      OBVIOUS
    <2>2. R = Raised(n, threshold, e)
      BY <1>3, <2>0, <2>1 DEF Levelled
    <2>3. IsStreak(s) /\ s.family = family /\ s.turn = e.turn /\ s.epoch = e.epoch
      BY <2>1 DEF Live, Older, At
    <2>4. /\ IsStreak(n) /\ n.signal = s.signal /\ (n.emitted <=> s.emitted)
          /\ n.family = s.family /\ n.turn = s.turn /\ n.epoch = s.epoch
      BY <2>0, <2>3, Recounted1
    <2> HIDE DEF R, same
    <2>5. \E t \in same : t.signal = n.signal /\ (t.emitted <=> n.emitted)
      BY <2>1, <2>4
    <2> QED
      BY <1>1, <2>2, <2>3, <2>4, <2>5, RaisedMoves DEF Stays, At, R, same
  <1> QED
    BY <1>2, <1>3

\* Two parts of the streaks, of which only the second may start one.
LEMMA BothMove ==
    ASSUME NEW e, NEW S, Older(S, e), NEW A \in SUBSET S, NEW B \in SUBSET S, A \cap B = {},
           NEW a, NEW b, Moves(A, a, e), Moves(B, b, e),
           \A n \in a.now : n.signal[3] # e.id
    PROVE  Moves(S, Both(a, b), e)
  <1>1. PICK R : R = Both(a, b)
    OBVIOUS
  <1>2. R.now = a.now \cup b.now /\ R.out = a.out \cup b.out
    BY <1>1, BothIs
  <1>3. ASSUME NEW s \in S, NEW t \in S, s.signal = t.signal PROVE s = t
    BY <1>3 DEF Older, OnePerSignal
  <1>4. ASSUME NEW n \in a.now PROVE \E s \in A : s.signal = n.signal
    BY DEF Moves, NowFrom, Was
  <1>5. ASSUME NEW c \in a.out PROVE \E s \in A : s.signal = c.signal
    BY <1>4 DEF Moves, OutFrom, Announces, Was, WasTold
  <1>6. ASSUME NEW n \in b.now PROVE n.signal[3] = e.id \/ \E s \in B : s.signal = n.signal
    BY DEF Moves, NowFrom, Was
  <1>7. ASSUME NEW c \in b.out PROVE c.signal[3] = e.id \/ \E s \in B : s.signal = c.signal
    BY <1>6 DEF Moves, OutFrom, Announces, Was, WasTold
  <1>8. ASSUME NEW signal, Was(signal, A) PROVE signal[3] # e.id /\ ~Was(signal, B)
    BY <1>3, <1>8 DEF Older, Was
  <1>9. /\ \A n \in a.now : Was(n.signal, A)
        /\ \A c \in a.out : Was(c.signal, A)
        /\ \A n \in b.now : ~Was(n.signal, A)
        /\ \A c \in b.out : ~Was(c.signal, A)
    BY <1>4, <1>5, <1>6, <1>7, <1>8 DEF Was
  <1>10. ASSUME NEW n \in a.now
         PROVE  /\ WasTold(n.signal, S) <=> WasTold(n.signal, A)
                /\ Was(n.signal, R.out) <=> Was(n.signal, a.out)
    BY <1>2, <1>3, <1>9 DEF Was, WasTold
  <1>11. ASSUME NEW n \in b.now
         PROVE  /\ WasTold(n.signal, S) <=> WasTold(n.signal, B)
                /\ Was(n.signal, R.out) <=> Was(n.signal, b.out)
    <2>1. WasTold(n.signal, S) <=> WasTold(n.signal, B)
      BY <1>3, <1>6 DEF WasTold, Older
    <2> QED
      BY <1>2, <1>9, <2>1 DEF Was
  <1>12. ASSUME NEW c \in a.out
         PROVE  /\ WasTold(c.signal, S) <=> WasTold(c.signal, A)
                /\ Was(c.signal, R.now) <=> Was(c.signal, a.now)
    BY <1>2, <1>3, <1>9 DEF Was, WasTold
  <1>13. ASSUME NEW c \in b.out
         PROVE  /\ WasTold(c.signal, S) <=> WasTold(c.signal, B)
                /\ Was(c.signal, R.now) <=> Was(c.signal, b.now)
    <2>1. WasTold(c.signal, S) <=> WasTold(c.signal, B)
      BY <1>3, <1>7 DEF WasTold, Older
    <2> QED
      BY <1>2, <1>9, <2>1 DEF Was
  <1>14. NowFrom(S, R, e)
    BY <1>2, <1>10, <1>11 DEF Moves, NowFrom, Was
  <1>15. OutFrom(S, R, e)
    BY <1>2, <1>12, <1>13 DEF Moves, OutFrom, Announces
  <1>16. OnePerSignal(R.now)
    BY <1>2, <1>9 DEF Moves, OnePerSignal
  <1>17. OnePerSignal(R.out)
    BY <1>2, <1>9 DEF Moves, OnePerSignal
  <1> QED
    BY <1>1, <1>14, <1>15, <1>16, <1>17 DEF Moves

\* Any number of parts, none of which goes on under a signal of another.
LEMMA TogetherMove ==
    ASSUME NEW e, NEW S, Older(S, e), NEW I, NEW T, NEW R,
           \A i \in I : T[i] \in SUBSET S /\ Moves(T[i], R[i], e),
           \A i, j \in I : i # j =>
               /\ T[i] \cap T[j] = {}
               /\ \A n \in R[i].now, m \in R[j].now : n.signal # m.signal,
           NEW X,
           \A n : n \in X.now <=> \E i \in I : n \in R[i].now,
           \A c : c \in X.out <=> \E i \in I : c \in R[i].out
    PROVE  Moves(S, X, e)
  <1>2. /\ \A n : n \in X.now <=> \E i \in I : n \in R[i].now
        /\ \A c : c \in X.out <=> \E i \in I : c \in R[i].out
    OBVIOUS
  <1>3. ASSUME NEW s \in S, NEW t \in S, s.signal = t.signal PROVE s = t
    BY <1>3 DEF Older, OnePerSignal
  <1>4. ASSUME NEW i \in I, NEW n \in R[i].now
        PROVE  n.signal[3] = e.id \/ Was(n.signal, T[i])
    BY DEF Moves, NowFrom
  <1>5. ASSUME NEW i \in I, NEW c \in R[i].out
        PROVE  Was(c.signal, R[i].now) \/ Was(c.signal, T[i])
    BY DEF Moves, OutFrom, Announces, Was, WasTold
  <1>6. ASSUME NEW i \in I, NEW j \in I, NEW signal, Was(signal, T[i]), Was(signal, T[j])
        PROVE  i = j
    BY <1>3, <1>6 DEF Was
  <1>7. ASSUME NEW i \in I, NEW signal, Was(signal, T[i]) PROVE signal[3] # e.id
    BY <1>7 DEF Was, Older
  <1> DEFINE Mine(signal, i) == Was(signal, R[i].now) \/ Was(signal, T[i])
  <1>8. ASSUME NEW i \in I, NEW j \in I, NEW signal, Mine(signal, i), Mine(signal, j)
        PROVE  i = j
    <2>1. CASE Was(signal, R[i].now) /\ Was(signal, R[j].now)
      BY <2>1 DEF Was
    <2>2. CASE Was(signal, R[i].now) /\ Was(signal, T[j])
      <3>1. Was(signal, T[i])
        BY <1>4, <1>7, <2>2 DEF Was
      <3> QED
        BY <1>6, <2>2, <3>1
    <2>3. CASE Was(signal, T[i]) /\ Was(signal, R[j].now)
      <3>1. Was(signal, T[j])
        BY <1>4, <1>7, <2>3 DEF Was
      <3> QED
        BY <1>6, <2>3, <3>1
    <2>4. CASE Was(signal, T[i]) /\ Was(signal, T[j])
      BY <1>6, <2>4
    <2> QED
      BY <1>8, <2>1, <2>2, <2>3, <2>4
  <1>9. ASSUME NEW i \in I, NEW signal, Mine(signal, i)
        PROVE  /\ Was(signal, X.now) <=> Was(signal, R[i].now)
               /\ Was(signal, X.out) <=> Was(signal, R[i].out)
    <2>1. ASSUME NEW j \in I, NEW n \in R[j].now, n.signal = signal PROVE i = j
      BY <1>8, <1>9, <2>1 DEF Was
    <2>2. ASSUME NEW j \in I, NEW c \in R[j].out, c.signal = signal PROVE i = j
      BY <1>5, <1>8, <1>9, <2>2 DEF Was
    <2> QED
      BY <1>2, <2>1, <2>2 DEF Was
  <1>10. ASSUME NEW i \in I, NEW signal, Mine(signal, i)
         PROVE  WasTold(signal, S) <=> WasTold(signal, T[i])
    <2>1. CASE Was(signal, T[i])
      BY <1>3, <2>1 DEF Was, WasTold
    <2>2. CASE ~Was(signal, T[i])
      <3>1. signal[3] = e.id
        BY <1>4, <1>10, <2>2 DEF Was
      <3> QED
        BY <3>1 DEF WasTold, Older
    <2> QED
      BY <2>1, <2>2
  <1>11. NowFrom(S, X, e)
    <2> SUFFICES ASSUME NEW n \in X.now
                 PROVE  /\ IsStreak(n)
                        /\ n.signal[3] = e.id \/ Was(n.signal, S)
                        /\ n.emitted <=> WasTold(n.signal, S) \/ Was(n.signal, X.out)
      BY DEF NowFrom
    <2>1. PICK i \in I : n \in R[i].now
      BY <1>2
    <2>2. Mine(n.signal, i)
      BY <2>1 DEF Was
    <2>3. /\ IsStreak(n)
          /\ n.signal[3] = e.id \/ Was(n.signal, T[i])
          /\ n.emitted <=> WasTold(n.signal, T[i]) \/ Was(n.signal, R[i].out)
      BY <2>1 DEF Moves, NowFrom
    <2>4. Was(n.signal, T[i]) => Was(n.signal, S)
      BY DEF Was
    <2> QED
      BY <1>9, <1>10, <2>2, <2>3, <2>4
  <1>12. OutFrom(S, X, e)
    <2> SUFFICES ASSUME NEW c \in X.out PROVE IsCandidate(c) /\ Announces(c, S, X.now)
      BY DEF OutFrom
    <2>1. PICK i \in I : c \in R[i].out
      BY <1>2
    <2>2. Mine(c.signal, i)
      BY <1>5, <2>1
    <2>3. IsCandidate(c) /\ Announces(c, T[i], R[i].now)
      BY <2>1 DEF Moves, OutFrom
    <2> QED
      BY <1>9, <1>10, <2>2, <2>3 DEF Announces
  <1>13. OnePerSignal(X.now)
    <2> SUFFICES ASSUME NEW n \in X.now, NEW m \in X.now, n.signal = m.signal PROVE n = m
      BY DEF OnePerSignal
    <2>1. PICK i \in I : n \in R[i].now
      BY <1>2
    <2>2. PICK j \in I : m \in R[j].now
      BY <1>2
    <2>3. i = j
      BY <2>1, <2>2
    <2> QED
      BY <2>1, <2>2, <2>3 DEF Moves, OnePerSignal
  <1>14. OnePerSignal(X.out)
    <2> SUFFICES ASSUME NEW n \in X.out, NEW m \in X.out, n.signal = m.signal PROVE n = m
      BY DEF OnePerSignal
    <2>1. PICK i \in I : n \in R[i].out
      BY <1>2
    <2>2. PICK j \in I : m \in R[j].out
      BY <1>2
    <2>3. i = j
      BY <1>5, <1>8, <2>1, <2>2
    <2> QED
      BY <2>1, <2>2, <2>3 DEF Moves, OnePerSignal
  <1> QED
    BY <1>11, <1>12, <1>13, <1>14 DEF Moves

\* The streaks that are left out end in silence.
LEMMA WiderMove ==
    ASSUME NEW e, NEW S, Older(S, e), NEW T \in SUBSET S, NEW R, Moves(T, R, e)
    PROVE  Moves(S, R, e)
  <1> DEFINE K == Keep({})
  <1>1. Older({}, e) /\ K.now = {} /\ K.out = {}
    BY DEF Older, OnePerSignal, Keep
  <1>2. Moves({}, K, e)
    BY <1>1, KeepMoves
  <1> HIDE DEF K
  <1>3. PICK X : X = Both(K, R)
    OBVIOUS
  <1>4. Moves(S, X, e)
    BY <1>1, <1>2, <1>3, BothMove
  <1>5. X.now = R.now /\ X.out = R.out
    <2>1. X.now = K.now \cup R.now /\ X.out = K.out \cup R.out
      BY <1>3, BothIs
    <2>2. {} \cup R.now = R.now /\ {} \cup R.out = R.out
      OBVIOUS
    <2> QED
      BY <1>1, <2>1, <2>2
  <1>6. NowFrom(S, R, e) /\ OutFrom(S, R, e)
    BY <1>4, <1>5 DEF Moves, NowFrom, OutFrom
  <1>7. OnePerSignal(R.now) /\ OnePerSignal(R.out)
    BY <1>4, <1>5 DEF Moves
  <1> QED
    BY <1>6, <1>7 DEF Moves

\* Streaks of a family that are kept or ended stay in it.
LEMMA PartStays ==
    ASSUME NEW e, NEW S, NEW family, Live(S, family, e), NEW T \in SUBSET S, NEW status
    PROVE  /\ Stays(Keep(T), family, e) /\ Stays(End(T, status, e), family, e)
           /\ Older(T, e) /\ Live(T, family, e)
  BY DEF Live, Stays, Keep, End, At, Older, OnePerSignal

\* Two results of a family are of the family.
LEMMA BothStay ==
    ASSUME NEW e, NEW family, NEW a, NEW b, Stays(a, family, e), Stays(b, family, e)
    PROVE  Stays(Both(a, b), family, e)
  <1>1. PICK R : R = Both(a, b)
    OBVIOUS
  <1>2. R.now = a.now \cup b.now
    BY <1>1, BothIs
  <1> QED
    BY <1>1, <1>2 DEF Stays, At

-----------------------------------------------------------------------------
(***************************************************************************)
(* The families, one by one, and what update() makes of all of them.       *)
(***************************************************************************)

\* Keeping and ending all streaks of a family are moves of it.
LEMMA KeepOrEnd ==
    ASSUME NEW e, NEW S, NEW family, Live(S, family, e)
    PROVE  /\ Moves(S, Keep(S), e) /\ Stays(Keep(S), family, e)
           /\ \A status \in Ends : /\ Moves(S, End(S, status, e), e)
                                   /\ Stays(End(S, status, e), family, e)
  <1>1. Older(S, e) /\ S \in SUBSET S
    BY DEF Live
  <1> QED
    BY <1>1, KeepMoves, EndMoves, PartStays

\* The one streak of a family gathers resources, or a new one starts.
LEMMA GatheredMoves ==
    ASSUME NEW e, NEW S, NEW family, Live(S, family, e), NEW new, NEW threshold
    PROVE  LET R == Gathered(S, family, new, threshold, e)
           IN  Moves(S, R, e) /\ Stays(R, family, e)
  <1>1. PICK old, wanted : old = UNION {s.on : s \in S} /\ wanted = old \cup new
    OBVIOUS
  <1>2. PICK on : on = IF Cardinality(wanted) <= ScopeLimit THEN wanted
                       ELSE CHOOSE T \in SUBSET wanted :
                                old \subseteq T /\ Cardinality(T) = ScopeLimit
    OBVIOUS
  <1>3. PICK R : R = Gathered(S, family, new, threshold, e)
    OBVIOUS
  <1>4. PICK count : count = Cardinality(on)
    OBVIOUS
  <1>5. R = IF new \subseteq old \/ on = old THEN Keep(S)
            ELSE Raised(IF S = {} THEN New(family, <<family>>, e, count, on)
                        ELSE [(CHOOSE s \in S : TRUE) EXCEPT !.count = count, !.on = on],
                        threshold, e)
    BY <1>1, <1>2, <1>3, <1>4 DEF Gathered
  <1>6. Older(S, e)
    BY DEF Live
  <1> SUFFICES Moves(S, R, e) /\ Stays(R, family, e)
    BY <1>3
  <1>7. CASE new \subseteq old \/ on = old
    <2>1. R = Keep(S)
      BY <1>7, <1>5
    <2> QED
      BY <2>1, KeepOrEnd
  <1>8. CASE ~(new \subseteq old \/ on = old) /\ S = {}
    <2>0. PICK n : n = New(family, <<family>>, e, count, on)
      OBVIOUS
    <2>1. R = Raised(n, threshold, e)
      BY <1>8, <1>5, <2>0
    <2>2. /\ IsStreak(n) /\ n.signal[3] = e.id /\ ~n.emitted
          /\ n.family = family /\ n.turn = e.turn /\ n.epoch = e.epoch
      BY <2>0, NewStreak
    <2> QED
      BY <1>6, <2>1, <2>2, RaisedMoves DEF Stays, At
  <1>9. CASE ~(new \subseteq old \/ on = old) /\ S # {}
    <2>1. PICK s : s \in S /\ s = CHOOSE t \in S : TRUE
      BY <1>9
    <2>2. PICK n : n = [s EXCEPT !.count = count, !.on = on]
      OBVIOUS
    <2>3. R = Raised(n, threshold, e)
      BY <1>9, <1>5, <2>1, <2>2
    <2>4. IsStreak(s) /\ s.family = family /\ s.turn = e.turn /\ s.epoch = e.epoch
      BY <2>1 DEF Live, Older, At
    <2>5. /\ IsStreak(n) /\ n.signal = s.signal /\ (n.emitted <=> s.emitted)
          /\ n.family = s.family /\ n.key = s.key /\ n.turn = s.turn /\ n.epoch = s.epoch
      BY <2>2, <2>4 DEF IsStreak
    <2>6. \E t \in S : t.signal = n.signal /\ (t.emitted <=> n.emitted)
      BY <2>1, <2>5
    <2> QED
      BY <1>6, <2>3, <2>4, <2>5, <2>6, RaisedMoves DEF Stays, At
  <1> QED
    BY <1>7, <1>8, <1>9

\* What the streaks of other keys become, and those of one key.
LEMMA KeyMoves ==
    ASSUME NEW e, NEW S, NEW family, Live(S, family, e), NEW key, NEW a, NEW b,
           NEW A \in SUBSET {s \in S : s.key # key},
           Moves(A, a, e), Stays(a, family, e), \A n \in a.now : n.signal[3] # e.id,
           Moves({s \in S : s.key = key}, b, e), Stays(b, family, e)
    PROVE  Moves(S, Both(a, b), e) /\ Stays(Both(a, b), family, e)
  <1> DEFINE B == {s \in S : s.key = key}
  <1>1. Older(S, e) /\ A \in SUBSET S /\ B \in SUBSET S /\ A \cap B = {}
    BY DEF Live
  <1> HIDE DEF B
  <1>2. Moves(B, b, e)
    BY DEF B
  <1>3. Moves(S, Both(a, b), e)
    BY <1>1, <1>2, BothMove
  <1> QED
    BY <1>3, BothStay

\* The streaks of other keys end.
LEMMA EndedOthers ==
    ASSUME NEW e, NEW S, NEW family, Live(S, family, e), NEW key, NEW status \in Ends, NEW b,
           Moves({s \in S : s.key = key}, b, e), Stays(b, family, e)
    PROVE  LET R == Both(End({s \in S : s.key # key}, status, e), b)
           IN  Moves(S, R, e) /\ Stays(R, family, e)
  <1>1. PICK A : A = {s \in S : s.key # key}
    OBVIOUS
  <1>2. A \in SUBSET S /\ A \in SUBSET {s \in S : s.key # key}
    BY <1>1
  <1>3. PICK a : a = End(A, status, e)
    OBVIOUS
  <1>4. Older(A, e) /\ Stays(a, family, e) /\ A \in SUBSET A /\ a.now = {}
    BY <1>2, <1>3, PartStays DEF End
  <1>5. Moves(A, a, e)
    BY <1>3, <1>4, EndMoves
  <1>6. Moves(S, Both(a, b), e) /\ Stays(Both(a, b), family, e)
    BY <1>2, <1>4, <1>5, KeyMoves
  <1> QED
    BY <1>1, <1>3, <1>6

\* The streaks of other keys stay.
LEMMA KeptOthers ==
    ASSUME NEW e, NEW S, NEW family, Live(S, family, e), NEW key, NEW b,
           Moves({s \in S : s.key = key}, b, e), Stays(b, family, e)
    PROVE  LET R == Both(Keep({s \in S : s.key # key}), b)
           IN  Moves(S, R, e) /\ Stays(R, family, e)
  <1>1. PICK A : A = {s \in S : s.key # key}
    OBVIOUS
  <1>2. A \in SUBSET S /\ A \in SUBSET {s \in S : s.key # key}
    BY <1>1
  <1>3. PICK a : a = Keep(A)
    OBVIOUS
  <1>4. Older(A, e) /\ Stays(a, family, e) /\ A \in SUBSET A /\ a.now = A
    BY <1>2, <1>3, PartStays DEF Keep
  <1>5. Moves(A, a, e)
    BY <1>3, <1>4, KeepMoves
  <1>6. Moves(S, Both(a, b), e) /\ Stays(Both(a, b), family, e)
    <2>1. \A n \in a.now : n.signal[3] # e.id
      BY <1>4 DEF Older
    <2> QED
      BY <1>2, <1>4, <1>5, <2>1, KeyMoves
  <1> QED
    BY <1>1, <1>3, <1>6

\* Failures of one operation.
LEMMA FailuresMove ==
    ASSUME NEW e, NEW S, Live(S, "failures", e)
    PROVE  Moves(S, Failures(S, e), e) /\ Stays(Failures(S, e), "failures", e)
  <1>1. PICK key : key = Equivalence(e)
    OBVIOUS
  <1>2. PICK b : b = Counted(S, "failures", key, e.on, FailureThreshold, e)
    OBVIOUS
  <1>3. Moves({s \in S : s.key = key}, b, e) /\ Stays(b, "failures", e)
    BY <1>2, CountedMoves
  <1>4. "stale" \in Ends /\ "resolved" \in Ends
    BY DEF Ends
  <1>5. PICK R : R = Both(End({s \in S : s.key # key}, "stale", e), b)
    OBVIOUS
  <1>6. Moves(S, R, e) /\ Stays(R, "failures", e)
    BY <1>3, <1>4, <1>5, EndedOthers
  <1>7. Failures(S, e) \in {Keep(S), End(S, "stale", e), End(S, "resolved", e), R}
    BY <1>1, <1>2, <1>5 DEF Failures
  <1> QED
    BY <1>4, <1>6, <1>7, KeepOrEnd

\* Calls of one tool with the same arguments.
LEMMA ToolsMove ==
    ASSUME NEW e, NEW S, Live(S, "tools", e)
    PROVE  Moves(S, RepeatedTool(S, e), e) /\ Stays(RepeatedTool(S, e), "tools", e)
  <1>1. PICK key : key = ToolKey(e)
    OBVIOUS
  <1>2. PICK b : b = Counted(S, "tools", key, e.on, ToolThreshold, e)
    OBVIOUS
  <1>3. Moves({s \in S : s.key = key}, b, e) /\ Stays(b, "tools", e)
    BY <1>2, CountedMoves
  <1>4. "stale" \in Ends
    BY DEF Ends
  <1>5. PICK R : R = Both(End({s \in S : s.key # key}, "stale", e), b)
    OBVIOUS
  <1>6. Moves(S, R, e) /\ Stays(R, "tools", e)
    BY <1>3, <1>4, <1>5, EndedOthers
  <1>7. RepeatedTool(S, e) \in {Keep(S), End(S, "stale", e), R}
    BY <1>1, <1>2, <1>5 DEF RepeatedTool
  <1> QED
    BY <1>4, <1>6, <1>7, KeepOrEnd

\* Reads of what is known.
LEMMA ReadsMove ==
    ASSUME NEW e, NEW S, Live(S, "reads", e), NEW frontier
    PROVE  Moves(S, Reads(S, frontier, e), e) /\ Stays(Reads(S, frontier, e), "reads", e)
  <1>1. PICK key : key = <<"known-resources">>
    OBVIOUS
  <1>2. PICK b : b = Counted(S, "reads", key, e.on, ReadThreshold, e)
    OBVIOUS
  <1>3. Moves({s \in S : s.key = key}, b, e) /\ Stays(b, "reads", e)
    BY <1>2, CountedMoves
  <1>4. "stale" \in Ends
    BY DEF Ends
  <1>5. Moves(S, b, e)
    <2>1. PICK T : T = {s \in S : s.key = key}
      OBVIOUS
    <2>2. Older(S, e) /\ T \in SUBSET S
      BY <2>1 DEF Live
    <2> QED
      BY <1>3, <2>1, <2>2, WiderMove
  <1>6. Reads(S, frontier, e) \in {Keep(S), End(S, "stale", e), b}
    BY <1>1, <1>2 DEF Reads
  <1> QED
    BY <1>3, <1>4, <1>5, <1>6, KeepOrEnd

\* Blocks by deterministic gates: the oldest streak makes room.
LEMMA BlocksMove ==
    ASSUME NEW e, NEW S, Live(S, "blocks", e)
    PROVE  Moves(S, Blocks(S, e), e) /\ Stays(Blocks(S, e), "blocks", e)
  <1>1. CASE e.kind # "deterministic_gate_block" \/ e.on = {}
    <2>1. Blocks(S, e) = Keep(S)
      BY <1>1 DEF Blocks
    <2> QED
      BY <2>1, KeepOrEnd
  <1>2. CASE ~(e.kind # "deterministic_gate_block" \/ e.on = {})
    <2>1. PICK key : key = <<"block", e.on>>
      OBVIOUS
    <2>2. PICK full \in BOOLEAN : full <=> Cardinality(S) >= BlockLimit /\ \A s \in S : s.key # key
      OBVIOUS
    <2>3. PICK first : first = {s \in S : full /\ \A r \in S : s.signal[3] <= r.signal[3]}
      OBVIOUS
    <2>4. PICK K : K = {s \in S \ first : s.key # key}
      OBVIOUS
    <2>5. PICK b : b = Counted(S, "blocks", key, e.on, 2, e)
      OBVIOUS
    <2>6. PICK a : a = Both(Keep(K), End(first, "stale", e))
      OBVIOUS
    <2>7. Blocks(S, e) = Both(a, b)
      <3>1. Blocks(S, e) =
              LET ful == Cardinality(S) >= BlockLimit /\ \A s \in S : s.key # key
                  fst == {s \in S : ful /\ \A r \in S : s.signal[3] <= r.signal[3]}
              IN  Both(Both(Keep({s \in S \ fst : s.key # key}), End(fst, "stale", e)), b)
        BY <1>2, <2>1, <2>5 DEF Blocks
      <3>2. first = {s \in S : (Cardinality(S) >= BlockLimit /\ \A t \in S : t.key # key)
                                /\ \A r \in S : s.signal[3] <= r.signal[3]}
        BY <2>2, <2>3
      <3> QED
        BY <2>4, <2>6, <3>1, <3>2
    <2>8. Moves({s \in S : s.key = key}, b, e) /\ Stays(b, "blocks", e)
      BY <2>5, CountedMoves
    <2>9. PICK A : A = K \cup first
      OBVIOUS
    <2>10. /\ A \in SUBSET S /\ K \in SUBSET S /\ first \in SUBSET S
           /\ K \in SUBSET A /\ first \in SUBSET A /\ K \cap first = {}
           /\ A \in SUBSET {s \in S : s.key # key}
      BY <2>2, <2>3, <2>4, <2>9
    <2>11. Older(A, e) /\ Older(K, e) /\ Older(first, e) /\ "stale" \in Ends
      BY <2>10, PartStays DEF Ends
    <2>12. PICK k, f : k = Keep(K) /\ f = End(first, "stale", e)
      OBVIOUS
    <2>13. k.now = K /\ f.now = {}
      BY <2>12 DEF Keep, End
    <2>14. Moves(K, k, e) /\ Moves(first, f, e)
      BY <2>11, <2>12, KeepMoves, EndMoves
    <2>15. \A n \in k.now : n.signal[3] # e.id
      BY <2>11, <2>13 DEF Older
    <2>16. Moves(A, a, e)
      BY <2>6, <2>10, <2>11, <2>12, <2>14, <2>15, BothMove
    <2>17. a.now = K
      <3>1. a.now = k.now \cup f.now
        BY <2>6, <2>12, BothIs
      <3> QED
        BY <2>13, <3>1
    <2>18. Stays(a, "blocks", e)
      BY <2>10, <2>17 DEF Live, Stays, At
    <2>19. Moves(S, Both(a, b), e) /\ Stays(Both(a, b), "blocks", e)
      <3>1. \A n \in a.now : n.signal[3] # e.id
        BY <2>11, <2>17 DEF Older
      <3> QED
        BY <2>8, <2>10, <2>16, <2>18, <3>1, KeyMoves
    <2> QED
      BY <2>7, <2>19
  <1> QED
    BY <1>1, <1>2

\* Files beyond the scope of the prompt.
LEMMA ScopeMoves ==
    ASSUME NEW e, NEW S, Live(S, "scope", e), NEW scope
    PROVE  Moves(S, ScopeGrowth(S, scope, e), e) /\ Stays(ScopeGrowth(S, scope, e), "scope", e)
  <1>1. PICK b : b = Gathered(S, "scope", e.files \ Within(e.files, scope.paths), ScopeThreshold, e)
    OBVIOUS
  <1>2. Moves(S, b, e) /\ Stays(b, "scope", e)
    BY <1>1, GatheredMoves
  <1>3. ScopeGrowth(S, scope, e) \in {Keep(S), End(S, "stale", e), b}
    BY <1>1 DEF ScopeGrowth, Edits
  <1>4. "stale" \in Ends
    BY DEF Ends
  <1> QED
    BY <1>2, <1>3, <1>4, KeepOrEnd

\* What a test leaves unvalidated starts a streak that was never announced.
LEMMA StartsAfresh ==
    ASSUME NEW e, NEW n, IsStreak(n), n.signal[3] = e.id, ~n.emitted
    PROVE  Moves({}, Keep({n}), e)
  <1>1. PICK R : R = Keep({n})
    OBVIOUS
  <1>2. R.now = {n} /\ R.out = {}
    BY <1>1 DEF Keep
  <1> QED
    BY <1>1, <1>2 DEF Moves, NowFrom, OutFrom, OnePerSignal, Was, WasTold

\* A passed test takes files out of the streak, and may end it.
LEMMA ValidatedMoves ==
    ASSUME NEW e, NEW S, Live(S, "edits", e), S # {}
    PROVE  Moves(S, Validated(S, e), e) /\ Stays(Validated(S, e), "edits", e)
  <1>1. PICK s : s \in S /\ s = CHOOSE t \in S : TRUE
    OBVIOUS
  <1>2. PICK left : left = s.on \ Within(s.on, e.scopes)
    OBVIOUS
  <1>3. PICK size : size = Cardinality(left)
    OBVIOUS
  <1>4. PICK n : n = [s EXCEPT !.count = size, !.on = left]
    OBVIOUS
  <1>5. PICK more : more = IF left = {} THEN Keep({})
                           ELSE Keep({New("edits", <<"edits">>, e, size, left)})
    OBVIOUS
  <1>6. Validated(S, e) \in {Keep(S), Raised(n, EditThreshold, e),
                             Both(End(S, "resolved", e), more)}
    BY <1>1, <1>2, <1>3, <1>4, <1>5 DEF Validated
  <1>7. Older(S, e) /\ "resolved" \in Ends /\ S \in SUBSET S
    BY DEF Live, Ends
  <1>8. Moves(S, Raised(n, EditThreshold, e), e) /\ Stays(Raised(n, EditThreshold, e), "edits", e)
    <2>1. IsStreak(s) /\ s.family = "edits" /\ s.turn = e.turn /\ s.epoch = e.epoch
      BY <1>1 DEF Live, Older, At
    <2>2. /\ IsStreak(n) /\ n.signal = s.signal /\ (n.emitted <=> s.emitted)
          /\ n.family = s.family /\ n.key = s.key /\ n.turn = s.turn /\ n.epoch = s.epoch
      BY <1>4, <2>1 DEF IsStreak
    <2>3. \E t \in S : t.signal = n.signal /\ (t.emitted <=> n.emitted)
      BY <1>1, <2>2
    <2> QED
      BY <1>7, <2>1, <2>2, <2>3, RaisedMoves DEF Stays, At
  <1>9. Moves({}, more, e) /\ Stays(more, "edits", e)
    <2>1. CASE left = {}
      <3>1. more = Keep({}) /\ Older({}, e)
        BY <1>5, <2>1 DEF Older, OnePerSignal
      <3> QED
        BY <3>1, KeepMoves DEF Stays, Keep, At
    <2>2. CASE left # {}
      <3>1. PICK m : m = New("edits", <<"edits">>, e, size, left)
        OBVIOUS
      <3>2. more = Keep({m})
        BY <1>5, <2>2, <3>1
      <3>3. /\ IsStreak(m) /\ m.signal[3] = e.id /\ ~m.emitted
            /\ m.family = "edits" /\ m.turn = e.turn /\ m.epoch = e.epoch
        BY <3>1, NewStreak
      <3>4. Moves({}, more, e)
        BY <3>2, <3>3, StartsAfresh
      <3> QED
        BY <3>2, <3>3, <3>4 DEF Stays, Keep, At
    <2> QED
      BY <2>1, <2>2
  <1>10. PICK a : a = End(S, "resolved", e)
    OBVIOUS
  <1>11. a.now = {} /\ Moves(S, a, e) /\ Stays(a, "edits", e)
    BY <1>7, <1>10, KeepOrEnd DEF End
  <1>12. Moves(S, Both(a, more), e)
    BY <1>7, <1>9, <1>11, BothMove
  <1>13. Stays(Both(a, more), "edits", e)
    BY <1>9, <1>11, BothStay
  <1> QED
    BY <1>6, <1>8, <1>10, <1>12, <1>13, KeepOrEnd

\* Edits without validation.
LEMMA EditsMove ==
    ASSUME NEW e, NEW S, Live(S, "edits", e)
    PROVE  Moves(S, UnvalidatedEdits(S, e), e) /\ Stays(UnvalidatedEdits(S, e), "edits", e)
  <1>1. PICK b : b = Gathered(S, "edits", e.files, EditThreshold, e)
    OBVIOUS
  <1>2. Moves(S, b, e) /\ Stays(b, "edits", e)
    BY <1>1, GatheredMoves
  <1>3. \/ UnvalidatedEdits(S, e) \in {Keep(S), b}
        \/ S # {} /\ UnvalidatedEdits(S, e) = Validated(S, e)
    BY <1>1 DEF UnvalidatedEdits, Edits
  <1> QED
    BY <1>2, <1>3, ValidatedMoves, KeepOrEnd

\* Actions linked to stale hypotheses: one streak for every hypothesis.
LEMMA ReuseMoves ==
    ASSUME NEW e, NEW S, Live(S, "reuse", e), NEW stale
    PROVE  Moves(S, StaleReuse(S, e, stale), e) /\ Stays(StaleReuse(S, e, stale), "reuse", e)
  <1>1. CASE e.kind \notin CausalActions
    <2>1. StaleReuse(S, e, stale) = Keep(S)
      BY <1>1 DEF StaleReuse
    <2> QED
      BY <2>1, KeepOrEnd
  <1>2. CASE e.kind \in CausalActions
    <2>1. PICK linked : linked = e.refs \cap stale
      OBVIOUS
    <2>2. PICK one : one = [h \in linked |->
                              Counted(S, "reuse", <<"reuse", h>>, {ToString(h)} \cup e.on, 1, e)]
      OBVIOUS
    <2>3. PICK T : T = [h \in linked |-> {s \in S : s.key = <<"reuse", h>>}]
      OBVIOUS
    <2>4. PICK A, b : /\ A = {s \in S : \A h \in linked : s.key # <<"reuse", h>>}
                      /\ b = Together({one[h] : h \in linked})
      OBVIOUS
    <2>5. StaleReuse(S, e, stale) = Both(Keep(A), b)
      <3>1. {one[h] : h \in linked} =
              {Counted(S, "reuse", <<"reuse", h>>, {ToString(h)} \cup e.on, 1, e) : h \in linked}
        BY <2>2
      <3>2. StaleReuse(S, e, stale) =
              Both(Keep({s \in S : \A h \in linked : s.key # <<"reuse", h>>}),
                   Together({Counted(S, "reuse", <<"reuse", h>>, {ToString(h)} \cup e.on, 1, e)
                                : h \in linked}))
        BY <1>2, <2>1 DEF StaleReuse
      <3> QED
        BY <2>4, <3>1, <3>2
    <2>6. ASSUME NEW h \in linked
          PROVE  /\ T[h] \in SUBSET S /\ Moves(T[h], one[h], e) /\ Stays(one[h], "reuse", e)
                 /\ \A n \in one[h].now : n.key = <<"reuse", h>>
      <3>1. PICK key, on : key = <<"reuse", h>> /\ on = {ToString(h)} \cup e.on
        OBVIOUS
      <3>2. PICK r : r = Counted(S, "reuse", key, on, 1, e)
        OBVIOUS
      <3>3. T[h] = {s \in S : s.key = key} /\ one[h] = r
        BY <2>2, <2>3, <3>1, <3>2
      <3>4. /\ Moves({s \in S : s.key = key}, r, e) /\ Stays(r, "reuse", e)
            /\ \A n \in r.now : n.key = key
        BY <3>2, CountedMoves
      <3>5. T[h] \in SUBSET S
        BY <3>3
      <3> QED
        BY <3>1, <3>3, <3>4, <3>5
    <2>7. ASSUME NEW h \in linked, NEW g \in linked, h # g
          PROVE  T[h] \cap T[g] = {} /\ \A n \in one[h].now, m \in one[g].now : n.signal # m.signal
      <3>1. <<"reuse", h>> # <<"reuse", g>>
        BY <2>7
      <3>2. T[h] \cap T[g] = {}
        BY <2>3, <3>1
      <3>3. ASSUME NEW n \in one[h].now, NEW m \in one[g].now, n.signal = m.signal PROVE FALSE
        <4>1. n.key = <<"reuse", h>> /\ m.key = <<"reuse", g>>
          BY <2>6
        <4>2. IsStreak(n) /\ IsStreak(m)
          BY <2>6 DEF Moves, NowFrom
        <4>3. n.signal[2] = n.key /\ m.signal[2] = m.key
          BY <4>2 DEF IsStreak
        <4> QED
          BY <3>1, <3>3, <4>1, <4>3
      <3> QED
        BY <3>2, <3>3
    <2>8. PICK B : B = UNION {T[h] : h \in linked}
      OBVIOUS
    <2>9. /\ A \in SUBSET S /\ B \in SUBSET S /\ A \cap B = {}
          /\ \A h \in linked : T[h] \in SUBSET B
      BY <2>3, <2>4, <2>8
    <2>10. Older(S, e) /\ Older(A, e) /\ Older(B, e)
      BY <2>9, PartStays DEF Live
    <2>11. Moves(B, b, e)
      <3>1. \A h \in linked : T[h] \in SUBSET B /\ Moves(T[h], one[h], e)
        BY <2>6, <2>9
      <3>2. \A h, g \in linked : h # g =>
               /\ T[h] \cap T[g] = {}
               /\ \A n \in one[h].now, m \in one[g].now : n.signal # m.signal
        BY <2>7
      <3>3. /\ \A n : n \in b.now <=> \E h \in linked : n \in one[h].now
            /\ \A c : c \in b.out <=> \E h \in linked : c \in one[h].out
        BY <2>4 DEF Together
      <3> QED
        BY <2>10, <3>1, <3>2, <3>3, TogetherMove
    <2>12. PICK a : a = Keep(A)
      OBVIOUS
    <2>13. a.now = A /\ Moves(A, a, e) /\ Stays(a, "reuse", e)
      <3>1. A \in SUBSET A
        OBVIOUS
      <3> QED
        BY <2>9, <2>10, <2>12, <3>1, KeepMoves, PartStays DEF Keep
    <2>14. \A n \in a.now : n.signal[3] # e.id
      BY <2>10, <2>13 DEF Older
    <2>15. Moves(S, Both(a, b), e)
      BY <2>9, <2>10, <2>11, <2>13, <2>14, BothMove
    <2>16. Stays(b, "reuse", e)
      <3>1. \A n \in b.now : \E h \in linked : n \in one[h].now
        BY <2>4 DEF Together
      <3> QED
        BY <2>6, <3>1 DEF Stays, At
    <2> QED
      BY <2>5, <2>12, <2>13, <2>15, <2>16, BothStay
  <1> QED
    BY <1>1, <1>2

\* The use of the context window.
LEMMA ContextMoves ==
    ASSUME NEW e, NEW S, Live(S, "context", e)
    PROVE  Moves(S, ContextBudget(S, e), e) /\ Stays(ContextBudget(S, e), "context", e)
  <1>1. PICK key, on : key = <<"context-window">> /\ on = {"context-window"}
    OBVIOUS
  <1>2. PICK b : b = Levelled(S, "context", key, on, e.level, ContextThreshold, e)
    OBVIOUS
  <1>3. Moves({s \in S : s.key = key}, b, e) /\ Stays(b, "context", e)
    BY <1>2, LevelledMoves
  <1>4. Moves(S, b, e)
    <2>1. PICK T : T = {s \in S : s.key = key}
      OBVIOUS
    <2>2. Older(S, e) /\ T \in SUBSET S
      BY <2>1 DEF Live
    <2> QED
      BY <1>3, <2>1, <2>2, WiderMove
  <1>5. ContextBudget(S, e) \in {Keep(S), End(S, "resolved", e), b}
    BY <1>1, <1>2 DEF ContextBudget
  <1>6. "resolved" \in Ends
    BY DEF Ends
  <1> QED
    BY <1>3, <1>4, <1>5, <1>6, KeepOrEnd

\* Durations against their baseline.
LEMMA DurationMoves ==
    ASSUME NEW e, NEW S, Live(S, "duration", e), NEW B
    PROVE  Moves(S, DurationBudget(S, B, e), e) /\ Stays(DurationBudget(S, B, e), "duration", e)
  <1>1. PICK key : key = Equivalence(e)
    OBVIOUS
  <1>2. PICK same : same = {s \in S : s.key = key}
    OBVIOUS
  <1>3. PICK b : b = Levelled(S, "duration", key, e.on, Percent(B, e), DurationFactor, e)
    OBVIOUS
  <1>4. Moves(same, b, e) /\ Stays(b, "duration", e)
    BY <1>2, <1>3, LevelledMoves
  <1>5. PICK d : d = End(same, "resolved", e)
    OBVIOUS
  <1>6. Moves(same, d, e) /\ Stays(d, "duration", e)
    <2>1. same \in SUBSET S /\ same \in SUBSET same /\ "resolved" \in Ends
      BY <1>2 DEF Ends
    <2>2. Older(same, e)
      BY <2>1, PartStays
    <2> QED
      BY <1>5, <2>1, <2>2, EndMoves, PartStays
  <1>7. PICK K : K = {s \in S : s.key # key}
    OBVIOUS
  <1>8. S \ same = K
    BY <1>2, <1>7
  <1>9. DurationBudget(S, B, e) \in {Keep(S), Both(Keep(K), b), Both(Keep(K), d)}
    BY <1>1, <1>2, <1>3, <1>5, <1>8 DEF DurationBudget
  <1>10. /\ Moves(S, Both(Keep(K), b), e) /\ Stays(Both(Keep(K), b), "duration", e)
         /\ Moves(S, Both(Keep(K), d), e) /\ Stays(Both(Keep(K), d), "duration", e)
    BY <1>2, <1>4, <1>6, <1>7, KeptOthers
  <1> QED
    BY <1>9, <1>10, KeepOrEnd

\* Every family keeps the contract.
LEMMA JudgedMoves ==
    ASSUME NEW e, NEW rest, NEW stale, NEW family \in Families, Older(rest.streaks, e),
           At(rest.streaks, e)
    PROVE  LET R == Judged(family, rest, e, stale)
           IN  /\ Moves({s \in rest.streaks : s.family = family}, R, e)
               /\ Stays(R, family, e)
  <1>1. PICK S : S = {s \in rest.streaks : s.family = family}
    OBVIOUS
  <1>2. Live(S, family, e)
    BY <1>1 DEF Live, Older, OnePerSignal, At
  <1>3. PICK R : R = Judged(family, rest, e, stale)
    OBVIOUS
  <1> SUFFICES Moves(S, R, e) /\ Stays(R, family, e)
    BY <1>1, <1>3
  <1>4. CASE family = "failures"
    BY <1>1, <1>2, <1>3, <1>4, FailuresMove DEF Judged
  <1>5. CASE family = "tools"
    BY <1>1, <1>2, <1>3, <1>5, ToolsMove DEF Judged
  <1>6. CASE family = "reads"
    BY <1>1, <1>2, <1>3, <1>6, ReadsMove DEF Judged
  <1>7. CASE family = "blocks"
    BY <1>1, <1>2, <1>3, <1>7, BlocksMove DEF Judged
  <1>8. CASE family = "scope"
    BY <1>1, <1>2, <1>3, <1>8, ScopeMoves DEF Judged
  <1>9. CASE family = "edits"
    BY <1>1, <1>2, <1>3, <1>9, EditsMove DEF Judged
  <1>10. CASE family = "reuse"
    BY <1>1, <1>2, <1>3, <1>10, ReuseMoves DEF Judged
  <1>11. CASE family = "context"
    BY <1>1, <1>2, <1>3, <1>11, ContextMoves DEF Judged
  <1>12. CASE family = "duration"
    BY <1>1, <1>2, <1>3, <1>12, DurationMoves DEF Judged
  <1> QED
    BY <1>4, <1>5, <1>6, <1>7, <1>8, <1>9, <1>10, <1>11, <1>12 DEF Families

\* update(): the streaks move as announced, whatever the event.
LEMMA UpdateMoves ==
    ASSUME NEW e, NEW g, NEW stale, NEW u, u = Update(g, e, stale),
           e.id # None, e.id \notin g.seen, Older(g.streaks, e),
           \A s \in g.streaks : /\ s.family \in Families
                                /\ ~Over(s, e) => s.turn = e.turn /\ s.epoch = e.epoch
    PROVE  /\ Moves(g.streaks, [now |-> u.engine.streaks, out |-> u.out], e)
           /\ At(u.engine.streaks, e)
           /\ \A s \in u.engine.streaks : s.family \in Families
  <1>1. PICK rest : rest = Remaining(g, e)
    OBVIOUS
  <1>2. PICK B : B = rest.streaks
    OBVIOUS
  <1>3. PICK A : A = g.streaks \ B
    OBVIOUS
  <1>4. PICK X : X = Together(Results(rest, e, stale))
    OBVIOUS
  <1>5. PICK a : a = End(A, "stale", e)
    OBVIOUS
  <1>6. u.engine.streaks = X.now /\ u.out = a.out \cup X.out
    BY <1>1, <1>2, <1>3, <1>4, <1>5 DEF Update
  <1>7. B = {s \in g.streaks : ~Over(s, e)}
    BY <1>1, <1>2 DEF Remaining
  <1>8. /\ A \in SUBSET g.streaks /\ B \in SUBSET g.streaks /\ A \cap B = {}
        /\ Older(A, e) /\ Older(B, e) /\ At(B, e)
    BY <1>3, <1>7 DEF Older, OnePerSignal, At
  <1>9. PICK F : F = IF e.kind \in Terminal THEN {} ELSE Families
    OBVIOUS
  <1>10. PICK R, T : /\ R = [f \in F |-> Judged(f, rest, e, stale)]
                     /\ T = [f \in F |-> {s \in B : s.family = f}]
    OBVIOUS
  <1>11. ASSUME NEW f \in F
         PROVE  T[f] \in SUBSET B /\ Moves(T[f], R[f], e) /\ Stays(R[f], f, e)
    <2>1. f \in Families
      BY <1>9
    <2>2. Moves({s \in rest.streaks : s.family = f}, Judged(f, rest, e, stale), e)
          /\ Stays(Judged(f, rest, e, stale), f, e)
      BY <1>2, <1>8, <2>1, JudgedMoves
    <2> QED
      BY <1>2, <1>10, <2>2
  <1>12. ASSUME NEW f \in F, NEW h \in F, f # h
         PROVE  T[f] \cap T[h] = {} /\ \A n \in R[f].now, m \in R[h].now : n.signal # m.signal
    <2>1. T[f] \cap T[h] = {}
      BY <1>10, <1>12
    <2>2. ASSUME NEW n \in R[f].now, NEW m \in R[h].now, n.signal = m.signal PROVE FALSE
      <3>1. n.family = f /\ m.family = h
        BY <1>11 DEF Stays
      <3>2. IsStreak(n) /\ IsStreak(m)
        BY <1>11 DEF Moves, NowFrom
      <3>3. n.signal[1] = n.family /\ m.signal[1] = m.family
        BY <3>2 DEF IsStreak
      <3> QED
        BY <1>12, <2>2, <3>1, <3>3
    <2> QED
      BY <2>1, <2>2
  <1>13. /\ \A n : n \in X.now <=> \E f \in F : n \in R[f].now
         /\ \A c : c \in X.out <=> \E f \in F : c \in R[f].out
    BY <1>4, <1>9, <1>10 DEF Together, Results
  <1>14. Moves(B, X, e)
    <2>1. \A f \in F : T[f] \in SUBSET B /\ Moves(T[f], R[f], e)
      BY <1>11
    <2>2. \A f, h \in F : f # h =>
             /\ T[f] \cap T[h] = {}
             /\ \A n \in R[f].now, m \in R[h].now : n.signal # m.signal
      BY <1>12
    <2> QED
      BY <1>8, <1>13, <2>1, <2>2, TogetherMove
  <1>15. Moves(A, a, e) /\ a.now = {}
    <2>1. A \in SUBSET A /\ "stale" \in Ends
      BY DEF Ends
    <2> QED
      BY <1>5, <1>8, <2>1, EndMoves DEF End
  <1>16. PICK W : W = Both(a, X)
    OBVIOUS
  <1>17. Moves(g.streaks, W, e)
    BY <1>8, <1>14, <1>15, <1>16, BothMove
  <1>18. W.now = u.engine.streaks /\ W.out = u.out
    <2>1. W.now = a.now \cup X.now /\ W.out = a.out \cup X.out
      BY <1>16, BothIs
    <2>2. {} \cup X.now = X.now
      OBVIOUS
    <2> QED
      BY <1>6, <1>15, <2>1, <2>2
  <1>19. PICK V : V = [now |-> u.engine.streaks, out |-> u.out]
    OBVIOUS
  <1>20. V.now = W.now /\ V.out = W.out
    BY <1>18, <1>19
  <1>21. Moves(g.streaks, V, e)
    <2>1. NowFrom(g.streaks, V, e) /\ OutFrom(g.streaks, V, e)
      BY <1>17, <1>20 DEF Moves, NowFrom, OutFrom
    <2> QED
      BY <1>17, <1>20, <2>1 DEF Moves
  <1>22. \A n \in X.now : n.turn = e.turn /\ n.epoch = e.epoch /\ n.family \in Families
    BY <1>9, <1>11, <1>13 DEF Stays, At
  <1> QED
    BY <1>6, <1>19, <1>21, <1>22 DEF At

-----------------------------------------------------------------------------
(***************************************************************************)
(* ThreadEvidence: what is satisfied stands, whatever event is reduced.    *)
(***************************************************************************)

\* The shape of ThreadState.
StateFields == {"goal", "items", "conditions", "stale", "touched", "edits", "running",
                "validation", "history", "doubts"}
IsState(s) == s = [x \in StateFields |-> s[x]]
Held(s) ==
    /\ IsState(s) /\ Stands(s)
    /\ \A c \in DOMAIN s.conditions : DOMAIN s.conditions[c] = {"status", "by"}

\* Items are only added and conditions left alone.
Grows(s, t) ==
    /\ IsState(t) /\ t.conditions = s.conditions
    /\ \A i \in DOMAIN s.items : i \in DOMAIN t.items /\ t.items[i] = s.items[i]

\* What rests on evidence still does when items are only added.
LEMMA GrowingHolds == ASSUME NEW s, NEW t, Held(s), Grows(s, t) PROVE Held(t)
  <1>1. ASSUME NEW i, IsEvidence(s, i) PROVE IsEvidence(t, i)
    BY <1>1 DEF Grows, IsEvidence
  <1>2. Stands(t)
    <2> SUFFICES ASSUME NEW c \in DOMAIN t.conditions, t.conditions[c].status = "satisfied"
                 PROVE  \E i \in t.conditions[c].by : IsEvidence(t, i)
      BY DEF Stands
    <2>1. PICK i \in s.conditions[c].by : IsEvidence(s, i)
      BY DEF Held, Stands, Grows
    <2> QED
      BY <1>1, <2>1 DEF Grows
  <1> QED
    BY <1>2 DEF Held, Grows

\* Two additions are one.
LEMMA GrowsTwice == ASSUME NEW s, NEW t, NEW r, Grows(s, t), Grows(t, r) PROVE Grows(s, r)
  BY DEF Grows

\* setdefault() adds an item or nothing.
LEMMA AddGrows ==
    ASSUME NEW s, IsState(s), NEW id, NEW item PROVE Grows(s, Add(s, id, item))
  <1>1. PICK t : t = Add(s, id, item)
    OBVIOUS
  <1>2. DOMAIN s = StateFields
    BY DEF IsState
  <1>3. t.items = Put(s.items, id, item) /\ t.conditions = s.conditions
    BY <1>1, <1>2 DEF Add, StateFields
  <1>4. IsState(t)
    BY <1>1, <1>2 DEF Add, IsState
  <1>5. \A i \in DOMAIN s.items : i \in DOMAIN t.items /\ t.items[i] = s.items[i]
    BY <1>3 DEF Put
  <1> QED
    BY <1>1, <1>3, <1>4, <1>5 DEF Grows

\* A change of any field but these two.
LEMMA ElsewhereGrows ==
    ASSUME NEW s, IsState(s), NEW t, IsState(t),
           t.items = s.items, t.conditions = s.conditions
    PROVE  Grows(s, t)
  BY DEF Grows

\* _inconsistent() leaves items and conditions alone.
LEMMA DoubtGrows ==
    ASSUME NEW s, IsState(s), NEW what PROVE Grows(s, Doubt(s, what))
  <1>1. PICK t : t = [s EXCEPT !.doubts = @ \cup {what}, !.history = "partial"]
    OBVIOUS
  <1>2. Doubt(s, what) \in {s, t}
    BY <1>1 DEF Doubt
  <1>3. DOMAIN s = StateFields
    BY DEF IsState
  <1>4. IsState(t) /\ t.items = s.items /\ t.conditions = s.conditions
    BY <1>1, <1>3 DEF IsState, StateFields
  <1> QED
    BY <1>2, <1>4, ElsewhereGrows

\* So what is satisfied stands.
LEMMA DoubtHolds == ASSUME NEW s, Held(s), NEW what PROVE Held(Doubt(s, what))
  <1>1. PICK d : d = Doubt(s, what)
    OBVIOUS
  <1>2. IsState(s)
    BY DEF Held
  <1>3. Grows(s, d)
    BY <1>1, <1>2, DoubtGrows
  <1> QED
    BY <1>1, <1>3, GrowingHolds

\* So does _workspace().
LEMMA TouchGrows == ASSUME NEW s, IsState(s), NEW e PROVE Grows(s, Touch(s, e))
  <1>1. PICK t : t = Touch(s, e)
    OBVIOUS
  <1>2. DOMAIN s = StateFields
    BY DEF IsState
  <1>3. IsState(t) /\ t.items = s.items /\ t.conditions = s.conditions
    BY <1>1, <1>2 DEF IsState, StateFields, Touch
  <1> QED
    BY <1>1, <1>3, ElsewhereGrows

\* So does _coverage().
LEMMA CoverageGrows == ASSUME NEW s, IsState(s), NEW e PROVE Grows(s, Coverage(s, e))
  <1>1. PICK t, r : /\ t = [s EXCEPT !.history = "partial"]
                    /\ r = [s EXCEPT !.history = "complete"]
    OBVIOUS
  <1>2. Coverage(s, e) \in {s, t, r}
    BY <1>1 DEF Coverage
  <1>3. DOMAIN s = StateFields
    BY DEF IsState
  <1>4. /\ IsState(t) /\ t.items = s.items /\ t.conditions = s.conditions
        /\ IsState(r) /\ r.items = s.items /\ r.conditions = s.conditions
    BY <1>1, <1>3 DEF IsState, StateFields
  <1> QED
    BY <1>2, <1>4, ElsewhereGrows

\* A goal that is replaced becomes an item.
LEMMA GoalGrows == ASSUME NEW s, IsState(s), NEW e PROVE Grows(s, Goal(s, e))
  <1>1. PICK said : said = IF s.goal = None THEN s
                           ELSE Add(s, s.goal, Item("goal", "superseded", {}))
    OBVIOUS
  <1>2. Grows(s, said) /\ IsState(said)
    BY <1>1, AddGrows, ElsewhereGrows DEF Grows
  <1>3. PICK t : t = [said EXCEPT !.goal = e.id]
    OBVIOUS
  <1>4. DOMAIN said = StateFields
    BY <1>2 DEF IsState
  <1>5. IsState(t) /\ t.items = said.items /\ t.conditions = said.conditions
    BY <1>2, <1>3, <1>4 DEF IsState, StateFields
  <1>6. Goal(s, e) = t
    BY <1>1, <1>3 DEF Goal
  <1> QED
    BY <1>2, <1>5, <1>6, ElsewhereGrows, GrowsTwice

\* A hypothesis becomes an item.
LEMMA HypothesisGrows == ASSUME NEW s, IsState(s), NEW e PROVE Grows(s, Hypothesis(s, e))
  <1>1. PICK stale \in BOOLEAN : stale <=> e.refs \cap s.stale # {}
    OBVIOUS
  <1>2. PICK item : item = Item("hypothesis", IF stale THEN "stale" ELSE "active", e.refs)
    OBVIOUS
  <1>3. PICK r : r = Add(s, e.id, item)
    OBVIOUS
  <1>4. Grows(s, r) /\ IsState(r)
    BY <1>3, AddGrows DEF Grows
  <1>5. PICK t : t = [r EXCEPT !.stale = IF stale THEN @ \cup {e.id} ELSE @]
    OBVIOUS
  <1>6. DOMAIN r = StateFields
    BY <1>4 DEF IsState
  <1>7. IsState(t) /\ t.items = r.items /\ t.conditions = r.conditions
    BY <1>4, <1>5, <1>6 DEF IsState, StateFields
  <1>8. Hypothesis(s, e) = t
    BY <1>1, <1>2, <1>3, <1>5 DEF Hypothesis
  <1> QED
    BY <1>4, <1>7, <1>8, ElsewhereGrows, GrowsTwice

\* An outcome becomes an item.
LEMMA OutcomeGrows == ASSUME NEW s, IsState(s), NEW e PROVE Grows(s, Outcome(s, e))
  <1>1. PICK r : r = Add(s, e.id, Item("observation", "active", {}))
    OBVIOUS
  <1>2. Grows(s, r) /\ IsState(r)
    BY <1>1, AddGrows DEF Grows
  <1>3. PICK t : t = Outcome(s, e)
    OBVIOUS
  <1>4. DOMAIN r = StateFields
    BY <1>2 DEF IsState
  <1>5. IsState(t) /\ t.items = r.items /\ t.conditions = r.conditions
    BY <1>1, <1>3, <1>4 DEF IsState, StateFields, Outcome
  <1> QED
    BY <1>2, <1>3, <1>5, ElsewhereGrows, GrowsTwice

\* A new condition is unmet, a known one is left alone.
LEMMA ConditionHolds == ASSUME NEW s, Held(s), NEW e PROVE Held(Condition(s, e))
  <1>1. CASE e.condition \in DOMAIN s.conditions
    <2>1. PICK w : w = <<"conflicting condition", e.condition>>
      OBVIOUS
    <2> QED
      BY <1>1, <2>1, DoubtHolds DEF Condition
  <1>2. CASE e.condition \notin DOMAIN s.conditions
    <2>1. PICK t : t = Condition(s, e)
      OBVIOUS
    <2>2. PICK unmet : unmet = [status |-> "unmet", by |-> {}]
      OBVIOUS
    <2>3. t = [s EXCEPT !.conditions = Put(@, e.condition, unmet)]
      BY <1>2, <2>1, <2>2 DEF Condition
    <2>4. DOMAIN s = StateFields
      BY DEF Held, IsState
    <2>5. IsState(t) /\ t.items = s.items /\ t.conditions = Put(s.conditions, e.condition, unmet)
      BY <2>3, <2>4 DEF IsState, StateFields
    <2>6. ASSUME NEW c \in DOMAIN t.conditions
          PROVE  \/ c \in DOMAIN s.conditions /\ t.conditions[c] = s.conditions[c]
                 \/ t.conditions[c] = unmet
      BY <2>5 DEF Put
    <2>7. unmet.status # "satisfied" /\ DOMAIN unmet = {"status", "by"}
      BY <2>2
    <2>8. \A i : IsEvidence(t, i) <=> IsEvidence(s, i)
      BY <2>5 DEF IsEvidence
    <2> QED
      BY <2>1, <2>5, <2>6, <2>7, <2>8 DEF Held, Stands
  <1> QED
    BY <1>1, <1>2

\* A condition is satisfied by evidence that is active, or not at all.
LEMMA SatisfyHolds == ASSUME NEW s, Held(s), NEW e PROVE Held(Satisfy(s, e))
  <1>1. CASE ~IsEvidence(s, e.target) \/ e.condition \notin DOMAIN s.conditions
    <2>1. PICK v, w : /\ v = <<"unknown evidence", e.target>>
                      /\ w = <<"unknown condition", e.condition>>
      OBVIOUS
    <2>2. Satisfy(s, e) \in {Doubt(s, v), Doubt(s, w)}
      BY <1>1, <2>1 DEF Satisfy
    <2> QED
      BY <2>2, DoubtHolds
  <1>2. CASE IsEvidence(s, e.target) /\ e.condition \in DOMAIN s.conditions
    <2>1. PICK r : r = Add(s, e.id, Item("fact", "active", {e.target}))
      OBVIOUS
    <2>2. Grows(s, r) /\ IsState(r) /\ Held(r)
      BY <2>1, AddGrows, GrowingHolds DEF Grows, Held
    <2>3. PICK t : t = Satisfy(s, e)
      OBVIOUS
    <2>4. PICK met : met = [status |-> "satisfied",
                            by |-> r.conditions[e.condition].by \cup {e.target}]
      OBVIOUS
    <2>5. t = [r EXCEPT !.conditions[e.condition] = met]
      BY <1>2, <2>1, <2>3, <2>4 DEF Satisfy
    <2>6. DOMAIN r = StateFields
      BY <2>2 DEF IsState
    <2>7. /\ IsState(t) /\ t.items = r.items
          /\ t.conditions = [r.conditions EXCEPT ![e.condition] = met]
      BY <2>2, <2>5, <2>6 DEF IsState, StateFields
    <2>8. DOMAIN t.conditions = DOMAIN r.conditions
      BY <2>7
    <2>9. ASSUME NEW c \in DOMAIN t.conditions
          PROVE  t.conditions[c] = IF c = e.condition THEN met ELSE r.conditions[c]
      BY <2>7, <2>8
    <2>10. \A i : IsEvidence(t, i) <=> IsEvidence(r, i)
      BY <2>7 DEF IsEvidence
    <2>11. IsEvidence(t, e.target) /\ e.target \in met.by
      BY <1>2, <2>2, <2>4, <2>10 DEF Grows, IsEvidence
    <2>12. DOMAIN met = {"status", "by"}
      BY <2>4
    <2> QED
      BY <2>2, <2>3, <2>7, <2>8, <2>9, <2>10, <2>11, <2>12 DEF Held, Stands
  <1> QED
    BY <1>1, <1>2

\* With the evidence, every condition that rests on it goes.
LEMMA InvalidateHolds == ASSUME NEW s, Held(s), NEW e PROVE Held(Invalidate(s, e))
  <1>1. CASE e.target \notin DOMAIN s.items
    <2>1. PICK w : w = <<"unknown evidence", e.target>>
      OBVIOUS
    <2> QED
      BY <1>1, <2>1, DoubtHolds DEF Invalidate
  <1>2. CASE e.target \in DOMAIN s.items
    <2>1. PICK gone : gone = RestsOn(s, e.target)
      OBVIOUS
    <2>2. PICK t : t = Invalidate(s, e)
      OBVIOUS
    <2>3. DOMAIN s = StateFields
      BY DEF Held, IsState
    <2>4. /\ IsState(t)
          /\ t.items = [i \in DOMAIN s.items |->
                           IF i \in gone THEN [s.items[i] EXCEPT !.status = "stale"]
                           ELSE s.items[i]]
          /\ t.conditions = [c \in DOMAIN s.conditions |->
                                IF s.conditions[c].by \cap gone # {}
                                THEN [s.conditions[c] EXCEPT !.status = "invalidated"]
                                ELSE s.conditions[c]]
      BY <1>2, <2>1, <2>2, <2>3 DEF IsState, StateFields, Invalidate
    <2>5. ASSUME NEW c \in DOMAIN s.conditions
          PROVE  /\ DOMAIN t.conditions[c] = {"status", "by"}
                 /\ s.conditions[c].by \cap gone # {} => t.conditions[c].status = "invalidated"
                 /\ s.conditions[c].by \cap gone = {} => t.conditions[c] = s.conditions[c]
      BY <2>4 DEF Held
    <2>6. ASSUME NEW i, i \notin gone, IsEvidence(s, i) PROVE IsEvidence(t, i)
      BY <2>4, <2>6 DEF IsEvidence
    <2>7. DOMAIN t.conditions = DOMAIN s.conditions
      BY <2>4
    <2>8. Stands(t)
      <3> SUFFICES ASSUME NEW c \in DOMAIN s.conditions, t.conditions[c].status = "satisfied"
                   PROVE  \E i \in t.conditions[c].by : IsEvidence(t, i)
        BY <2>7 DEF Stands
      <3>1. s.conditions[c].by \cap gone = {} /\ t.conditions[c] = s.conditions[c]
        BY <2>5
      <3>2. PICK i \in s.conditions[c].by : IsEvidence(s, i)
        BY <3>1 DEF Held, Stands
      <3> QED
        BY <2>6, <3>1, <3>2
    <2> QED
      BY <2>2, <2>4, <2>5, <2>7, <2>8 DEF Held
  <1> QED
    BY <1>1, <1>2

\* _semantic(), kind by kind.
LEMMA SemanticHolds == ASSUME NEW s, Held(s), NEW e PROVE Held(Semantic(s, e))
  <1>1. IsState(s) /\ DOMAIN s = StateFields
    BY DEF Held, IsState
  <1>2. PICK r, t : /\ r = [s EXCEPT !.running = @ \cup ({e.operation} \ {None})]
                    /\ t = [s EXCEPT !.running = {}]
    OBVIOUS
  <1>3. /\ IsState(r) /\ r.items = s.items /\ r.conditions = s.conditions
        /\ IsState(t) /\ t.items = s.items /\ t.conditions = s.conditions
    BY <1>1, <1>2 DEF IsState, StateFields
  <1>4. Held(r) /\ Held(t)
    BY <1>1, <1>3, ElsewhereGrows, GrowingHolds
  <1>5. /\ Held(Goal(s, e)) /\ Held(Hypothesis(s, e)) /\ Held(Outcome(s, e))
        /\ Held(Condition(s, e)) /\ Held(Satisfy(s, e)) /\ Held(Invalidate(s, e))
    BY <1>1, GoalGrows, HypothesisGrows, OutcomeGrows, ConditionHolds, SatisfyHolds,
       InvalidateHolds, GrowingHolds
  <1>6. Semantic(s, e) \in {s, r, t, Goal(s, e), Hypothesis(s, e), Outcome(s, e), Condition(s, e),
                            Satisfy(s, e), Invalidate(s, e)}
    BY <1>2 DEF Semantic, Starts, Observations
  <1> QED
    BY <1>4, <1>5, <1>6

\* Whatever event comes, what is satisfied stands.
LEMMA ReduceHolds == ASSUME NEW s, Held(s), NEW e PROVE Held(ReduceEvidence(s, e))
  <1>1. PICK a : a = Touch(s, e)
    OBVIOUS
  <1>2. Held(a)
    BY <1>1, TouchGrows, GrowingHolds DEF Held
  <1>3. PICK b : b = Semantic(a, e)
    OBVIOUS
  <1>4. Held(b)
    BY <1>2, <1>3, SemanticHolds
  <1> QED
    BY <1>1, <1>3, <1>4, CoverageGrows, GrowingHolds DEF Held, ReduceEvidence

\* An event of a control says nothing of the evidence.
LEMMA ReduceIdle ==
    ASSUME NEW s, IsState(s), NEW e, e.kind = "control_terminal", e.files = {}
    PROVE  ReduceEvidence(s, e) = s
  <1>1. Touch(s, e) = s
    <2>1. DOMAIN s = StateFields
      BY DEF IsState
    <2>2. s.touched \cup e.files = s.touched
      OBVIOUS
    <2>3. Touch(s, e) = [s EXCEPT !.touched = s.touched, !.edits = s.edits]
      BY <2>2 DEF Touch
    <2> QED
      BY <2>1, <2>3 DEF IsState
  <1>2. Semantic(s, e) = s
    BY DEF Semantic, Starts, Observations
  <1>3. Coverage(s, e) = s
    BY DEF Coverage
  <1> QED
    BY <1>1, <1>2, <1>3 DEF ReduceEvidence

-----------------------------------------------------------------------------
(***************************************************************************)
(* SignalEngine, the rest: update() depends on what was seen only in that  *)
(* it takes an event once, and what it keeps is of the event's turn and    *)
(* connection.                                                             *)
(***************************************************************************)

\* The shape of SignalEngine's state.
EngineFields == {"streaks", "frontier", "scope", "baselines", "seen"}
IsEngine(g) == g = [x \in EngineFields |-> g[x]]

\* Two engines that have seen different events.
Same(g, h) ==
    /\ g.streaks = h.streaks /\ g.frontier = h.frontier /\ g.scope = h.scope
    /\ g.baselines = h.baselines

\* The event is new to the engine.
Novel(g, e) == e.id # None /\ e.id \notin g.seen

\* What update() sets.
Updated(u, g, e, rest, result) ==
    /\ IsEngine(u.engine)
    /\ u.engine.streaks = result.now
    /\ u.engine.frontier = Expanded(rest.frontier, e)
    /\ u.engine.scope = Declared(rest.scope, e)
    /\ u.engine.baselines = Sampled(rest.baselines, e)
    /\ u.engine.seen = g.seen \cup {e.id}
    /\ u.out = End(g.streaks \ rest.streaks, "stale", e).out \cup result.out

\* What update() returns for an event it has not seen.
LEMMA UpdateIs ==
    ASSUME NEW g, NEW e, NEW stale, NEW u, NEW rest, NEW result, Novel(g, e),
           u = Update(g, e, stale), rest = Remaining(g, e),
           result = Together(Results(rest, e, stale))
    PROVE  Updated(u, g, e, rest, result)
  <1>1. PICK h : h = u.engine
    OBVIOUS
  <1>2. /\ h = [streaks |-> result.now, frontier |-> Expanded(rest.frontier, e),
                scope |-> Declared(rest.scope, e), baselines |-> Sampled(rest.baselines, e),
                seen |-> g.seen \cup {e.id}]
        /\ u.out = End(g.streaks \ rest.streaks, "stale", e).out \cup result.out
    BY <1>1 DEF Update, Novel
  <1>3. IsEngine(h)
    BY <1>2 DEF IsEngine, EngineFields
  <1> QED
    BY <1>1, <1>2, <1>3 DEF Updated

\* What was seen decides nothing but whether an event is new.
LEMMA SameUpdate ==
    ASSUME NEW g, NEW h, Same(g, h), NEW e, Novel(g, e), Novel(h, e),
           NEW stale, NEW u, u = Update(g, e, stale), NEW v, v = Update(h, e, stale)
    PROVE  Same(u.engine, v.engine) /\ u.out = v.out
  <1>1. PICK rest, X : rest = Remaining(g, e) /\ X = Together(Results(rest, e, stale))
    OBVIOUS
  <1>2. rest = Remaining(h, e)
    BY <1>1 DEF Remaining, Same
  <1>3. Updated(u, g, e, rest, X)
    BY <1>1, UpdateIs
  <1>4. Updated(v, h, e, rest, X)
    BY <1>1, <1>2, UpdateIs
  <1> QED
    BY <1>3, <1>4 DEF Same, Updated

\* Of the event's turn and connection.
AtEvent(r, e) == r.turn = e.turn /\ r.epoch = e.epoch
Kin(g, e) ==
    /\ g.frontier # None => AtEvent(g.frontier, e)
    /\ g.scope # None => AtEvent(g.scope, e)
    /\ \A b \in g.baselines : AtEvent(b, e)

\* The frontier is of the event's target,
LEMMA ExpandedKin ==
    ASSUME NEW e, NEW f, f # None => AtEvent(f, e), NEW r, r = Expanded(f, e), r # None
    PROVE  AtEvent(r, e)
  <1>1. CASE Observation(e) \in {None} \cup Known(f)
    BY <1>1 DEF Expanded
  <1>2. CASE ~(Observation(e) \in {None} \cup Known(f))
    BY <1>2 DEF Expanded, AtEvent
  <1> QED
    BY <1>1, <1>2

\* so is the scope,
LEMMA DeclaredKin ==
    ASSUME NEW e, NEW f, f # None => AtEvent(f, e), NEW r, r = Declared(f, e), r # None
    PROVE  AtEvent(r, e)
  <1>1. r = f \/ r = [turn |-> e.turn, epoch |-> e.epoch, paths |-> e.scopes]
    BY DEF Declared
  <1> QED
    BY <1>1 DEF AtEvent

\* and so are the baselines.
LEMMA SampledKin ==
    ASSUME NEW e, NEW B, \A b \in B : AtEvent(b, e), NEW b \in Sampled(B, e)
    PROVE  AtEvent(b, e)
  <1>1. CASE ~Timed(e) \/ Slow(B, e)
    BY <1>1 DEF Sampled
  <1>2. CASE ~(~Timed(e) \/ Slow(B, e))
    <2>1. PICK values : values = Append(Baseline(B, e), e.level)
      OBVIOUS
    <2>2. PICK new : new = [key |-> Equivalence(e), turn |-> e.turn, epoch |-> e.epoch,
                     values |-> IF Len(values) > BaselineLimit THEN Tail(values) ELSE values]
      OBVIOUS
    <2>3. b \in B \/ b = new
      BY <1>2, <2>1, <2>2 DEF Sampled
    <2> QED
      BY <2>2, <2>3 DEF AtEvent
  <1> QED
    BY <1>1, <1>2

\* What the engine keeps after an event is of the event's target.
LEMMA UpdateKin ==
    ASSUME NEW g, NEW e, Novel(g, e), NEW stale, NEW u,
           u = Update(g, e, stale),
           g.frontier # None /\ ~Over(g.frontier, e) => AtEvent(g.frontier, e),
           g.scope # None /\ ~Over(g.scope, e) => AtEvent(g.scope, e),
           \A b \in g.baselines : ~Over(b, e) => AtEvent(b, e)
    PROVE  Kin(u.engine, e)
  <1>1. PICK rest, X : rest = Remaining(g, e) /\ X = Together(Results(rest, e, stale))
    OBVIOUS
  <1>2. /\ rest.frontier # None => AtEvent(rest.frontier, e)
        /\ rest.scope # None => AtEvent(rest.scope, e)
        /\ \A b \in rest.baselines : AtEvent(b, e)
    BY <1>1 DEF Remaining, Kept
  <1>3. Updated(u, g, e, rest, X)
    BY <1>1, UpdateIs
  <1> QED
    BY <1>2, <1>3, ExpandedKin, DeclaredKin, SampledKin DEF Kin, Updated

\* The kinds no family counts.
Quiet == {"control_terminal", "reviewer_decision"} \cup Terminal

\* Of these kinds no family takes notice.
LEMMA JudgedQuiet ==
    ASSUME NEW e, e.kind \in Quiet, NEW rest, NEW stale, NEW family \in Families
    PROVE  Judged(family, rest, e, stale) = Keep({s \in rest.streaks : s.family = family})
  <1>1. PICK S : S = {s \in rest.streaks : s.family = family}
    OBVIOUS
  <1>2. /\ e.kind \notin Outcomes /\ e.kind \notin FrontierResets \cup {"tool_result"}
        /\ e.kind # "tool_result" /\ e.kind # "deterministic_gate_block"
        /\ e.kind # "user_prompt" /\ e.kind # "test_result" /\ e.kind # "token_usage"
        /\ e.kind \notin CausalActions /\ ~Edits(e) /\ ~Timed(e)
    BY DEF Quiet, Terminal, Outcomes, FrontierResets, CausalActions, Edits, Timed
  <1>3. Observation(e) = None
    BY <1>2 DEF Observation
  <1> SUFFICES Judged(family, rest, e, stale) = Keep(S)
    BY <1>1
  <1>4. Failures(S, e) = Keep(S)
    BY <1>2 DEF Failures
  <1>5. RepeatedTool(S, e) = Keep(S)
    BY <1>2 DEF RepeatedTool
  <1>6. Reads(S, rest.frontier, e) = Keep(S)
    BY <1>2, <1>3 DEF Reads
  <1>7. Blocks(S, e) = Keep(S)
    BY <1>2 DEF Blocks
  <1>8. ScopeGrowth(S, rest.scope, e) = Keep(S)
    BY <1>2 DEF ScopeGrowth
  <1>9. UnvalidatedEdits(S, e) = Keep(S)
    BY <1>2 DEF UnvalidatedEdits
  <1>10. StaleReuse(S, e, stale) = Keep(S)
    BY <1>2 DEF StaleReuse
  <1>11. ContextBudget(S, e) = Keep(S)
    BY <1>2 DEF ContextBudget
  <1>12. DurationBudget(S, rest.baselines, e) = Keep(S)
    BY <1>2 DEF DurationBudget
  <1> QED
    BY <1>1, <1>4, <1>5, <1>6, <1>7, <1>8, <1>9, <1>10, <1>11, <1>12 DEF Judged, Families

\* What is left when the event only ends what is over.
OnlyEnds(u, g, e) ==
    /\ u.engine.streaks = {s \in g.streaks : ~Over(s, e)}
    /\ u.engine.frontier = Kept(g.frontier, e) /\ u.engine.scope = Kept(g.scope, e)
    /\ u.engine.baselines = {b \in g.baselines : ~Over(b, e)}
    /\ u.out = End(g.streaks \ u.engine.streaks, "stale", e).out

\* Events of controls, reviews and boundaries only end what they are not about.
LEMMA QuietUpdate ==
    ASSUME NEW g, NEW e, Novel(g, e), NEW stale, NEW u,
           u = Update(g, e, stale), e.kind \in Quiet, \A s \in g.streaks : s.family \in Families
    PROVE  OnlyEnds(u, g, e)
  <1>1. PICK rest, X : rest = Remaining(g, e) /\ X = Together(Results(rest, e, stale))
    OBVIOUS
  <1>2. /\ rest.streaks = {s \in g.streaks : ~Over(s, e)}
        /\ rest.frontier = Kept(g.frontier, e) /\ rest.scope = Kept(g.scope, e)
        /\ rest.baselines = {b \in g.baselines : ~Over(b, e)}
    BY <1>1 DEF Remaining
  <1>3. X.out = {} /\ X.now = rest.streaks
    <2>1. CASE e.kind \in Terminal
      <3>1. X.out = {} /\ X.now = {}
        BY <1>1, <2>1 DEF Results, Together
      <3>2. rest.streaks = {}
        BY <1>2, <2>1 DEF Over
      <3> QED
        BY <3>1, <3>2
    <2>2. CASE e.kind \notin Terminal
      <3>1. PICK K : K = [f \in Families |-> {s \in rest.streaks : s.family = f}]
        OBVIOUS
      <3>2. Results(rest, e, stale) = {Keep(K[f]) : f \in Families}
        <4>1. \A f \in Families : Judged(f, rest, e, stale) = Keep(K[f])
          BY <3>1, JudgedQuiet
        <4>2. Results(rest, e, stale) = {Judged(f, rest, e, stale) : f \in Families}
          BY <2>2 DEF Results
        <4> QED
          BY <4>1, <4>2
      <3>3. X.out = UNION {Keep(K[f]).out : f \in Families}
            /\ X.now = UNION {Keep(K[f]).now : f \in Families}
        BY <1>1, <3>2 DEF Together
      <3>4. \A f \in Families : Keep(K[f]).out = {} /\ Keep(K[f]).now = K[f]
        BY DEF Keep
      <3>5. X.out = {} /\ X.now = UNION {K[f] : f \in Families}
        BY <3>3, <3>4
      <3>6. \A s \in rest.streaks : s.family \in Families
        BY <1>2
      <3> QED
        BY <3>1, <3>5, <3>6
    <2> QED
      BY <2>1, <2>2
  <1>4. Updated(u, g, e, rest, X)
    BY <1>1, UpdateIs
  <1>5. e.kind # "tool_result" /\ e.kind # "user_prompt" /\ e.kind \notin Outcomes
    BY DEF Quiet, Terminal, Outcomes
  <1>6. /\ Expanded(rest.frontier, e) = rest.frontier /\ Declared(rest.scope, e) = rest.scope
        /\ Sampled(rest.baselines, e) = rest.baselines
    BY <1>5 DEF Expanded, Observation, Declared, Sampled, Timed
  <1> QED
    BY <1>2, <1>3, <1>4, <1>6 DEF Updated, OnlyEnds

-----------------------------------------------------------------------------
(***************************************************************************)
(* SignalRecovery, the journal J against what a replay of it gives, as one *)
(* more record is journaled and replayed.                                  *)
(***************************************************************************)

\* Events and candidates in the order of the journal, and those told of a signal.
IsLog(J) == J \in Seq({J[i] : i \in DOMAIN J})
EventsOf(J) == {i \in DOMAIN J : IsEvent(J[i])}
CandidatesOf(J) == DOMAIN J \ EventsOf(J)
Count(J) == Cardinality(EventsOf(J))
ToldIn(J, signal) == {i \in CandidatesOf(J) : J[i].signal = signal}

\* A journal and one record more.
LEMMA LogAppend ==
    ASSUME NEW J, IsLog(J), NEW r, NEW K, K = Append(J, r)
    PROVE  /\ IsLog(K) /\ Len(J) \in Nat /\ DOMAIN J = 1..Len(J)
           /\ DOMAIN K = 1..(Len(J) + 1) /\ K[Len(J) + 1] = r
           /\ \A i \in DOMAIN J : K[i] = J[i]
  <1>1. PICK T : T = {J[i] : i \in DOMAIN J}
    OBVIOUS
  <1>2. J \in Seq(T) /\ J \in Seq(T \cup {r})
    BY <1>1 DEF IsLog
  <1>3. /\ Len(J) \in Nat /\ DOMAIN J = 1..Len(J)
        /\ DOMAIN K = 1..(Len(J) + 1) /\ K[Len(J) + 1] = r
        /\ \A i \in DOMAIN J : K[i] = J[i]
    BY <1>2
  <1>4. PICK R : R = {K[i] : i \in DOMAIN K}
    OBVIOUS
  <1>5. K \in Seq(R)
    <2>1. Len(K) = Len(J) + 1 /\ K \in Seq(T \cup {r})
      BY <1>2
    <2> QED
      BY <1>3, <1>4, <2>1
  <1> QED
    BY <1>3, <1>4, <1>5 DEF IsLog

\* It has finitely many events.
LEMMA LogFinite ==
    ASSUME NEW J, IsLog(J) PROVE IsFiniteSet(EventsOf(J)) /\ Count(J) \in Nat
  <1>1. Len(J) \in Nat /\ DOMAIN J = 1..Len(J)
    BY DEF IsLog
  <1>2. IsFiniteSet(1..Len(J))
    BY <1>1, FS_Interval
  <1>3. EventsOf(J) \subseteq 1..Len(J)
    BY <1>1 DEF EventsOf
  <1>4. IsFiniteSet(EventsOf(J))
    BY <1>2, <1>3, FS_Subset
  <1> QED
    BY <1>4, FS_CardinalityType DEF Count

\* The journals J and K, of which K has one event more.
OneEventMore(J, K) ==
    /\ Count(K) = Count(J) + 1 /\ CandidatesOf(K) = CandidatesOf(J)
    /\ \A signal : ToldIn(K, signal) = ToldIn(J, signal)
    /\ \A i \in CandidatesOf(J) : K[i] = J[i]

\* An event more leaves the candidates alone.
LEMMA EventAppended ==
    ASSUME NEW J, IsLog(J), NEW r, IsEvent(r), NEW K, K = Append(J, r)
    PROVE  OneEventMore(J, K)
  <1>1. PICK m \in Nat : m = Len(J) + 1
    BY LogAppend
  <1>2. DOMAIN J = 1..(m - 1) /\ DOMAIN K = 1..m /\ K[m] = r /\ \A i \in 1..(m - 1) : K[i] = J[i]
    BY <1>1, LogAppend
  <1>3. EventsOf(K) = EventsOf(J) \cup {m} /\ m \notin EventsOf(J)
    BY <1>1, <1>2 DEF EventsOf
  <1>4. Count(K) = Count(J) + 1
    BY <1>3, LogFinite, FS_AddElement DEF Count
  <1>5. CandidatesOf(K) = CandidatesOf(J) /\ CandidatesOf(J) \subseteq 1..(m - 1)
    BY <1>2, <1>3 DEF CandidatesOf
  <1> QED
    BY <1>2, <1>4, <1>5 DEF ToldIn, OneEventMore

\* The same for a candidate r, the m-th record.
OneCandidateMore(J, K, r, m) ==
    /\ Count(K) = Count(J) /\ CandidatesOf(K) = CandidatesOf(J) \cup {m}
    /\ ToldIn(K, r.signal) = ToldIn(J, r.signal) \cup {m}
    /\ \A signal : signal # r.signal => ToldIn(K, signal) = ToldIn(J, signal)
    /\ K[m] = r /\ m \in Nat /\ CandidatesOf(J) \subseteq 1..(m - 1)
    /\ \A i \in CandidatesOf(J) : K[i] = J[i]

\* A candidate more is told of its signal only.
LEMMA CandidateAppended ==
    ASSUME NEW J, IsLog(J), NEW r, ~IsEvent(r), NEW K, K = Append(J, r),
           NEW m, m = Len(J) + 1
    PROVE  OneCandidateMore(J, K, r, m)
  <1>1. /\ m \in Nat /\ DOMAIN J = 1..(m - 1) /\ DOMAIN K = 1..m /\ K[m] = r
        /\ \A i \in 1..(m - 1) : K[i] = J[i]
    BY LogAppend
  <1>2. EventsOf(K) = EventsOf(J) /\ m \notin EventsOf(K)
    BY <1>1 DEF EventsOf
  <1>3. CandidatesOf(K) = CandidatesOf(J) \cup {m} /\ CandidatesOf(J) \subseteq 1..(m - 1)
    BY <1>1, <1>2 DEF CandidatesOf
  <1> QED
    BY <1>1, <1>2, <1>3 DEF Count, ToldIn, OneCandidateMore

\* What a replay has, against the journal it is of.
Shaped(J, g) ==
    /\ IsEngine(g) /\ g.seen \subseteq 1..Count(J) /\ OnePerSignal(g.streaks)
    /\ \A s \in g.streaks : /\ IsStreak(s) /\ s.family \in Families
                            /\ s.signal[3] \in 1..Count(J)
DueFits(J, got) ==
    /\ OnePerSignal(got.due)
    /\ \A c \in got.due :
          /\ IsCandidate(c) /\ c.status \in Goes \cup Ends /\ c.signal[3] \in 1..Count(J)
          /\ c.status = "active" <=> ToldIn(J, c.signal) = {}
          /\ \A i \in ToldIn(J, c.signal) : J[i].status \in Goes
          /\ c.status \in Ends => ~Was(c.signal, got.engine.streaks)
ToldFits(J, got) ==
    /\ \A i \in CandidatesOf(J) : J[i].signal[3] \in 1..Count(J)
    /\ \A s \in got.engine.streaks :
          /\ s.emitted <=> ToldIn(J, s.signal) # {} \/ Was(s.signal, got.due)
          /\ \A i \in ToldIn(J, s.signal) : J[i].status \in Goes
IsReplay(got) == DOMAIN got = {"engine", "state", "due"}
Fits(J, got) == IsReplay(got) /\ Shaped(J, got.engine) /\ DueFits(J, got) /\ ToldFits(J, got)

\* AnnouncedOnce, of any journal.
Once(J) ==
    \A i \in CandidatesOf(J) :
        /\ (\A j \in ToldIn(J, J[i].signal) : i <= j) <=> J[i].status = "active"
        /\ (\E j \in ToldIn(J, J[i].signal) : i < j) => J[i].status \in Goes

\* The next event is new to the engine and to every streak.
LEMMA FreshId ==
    ASSUME NEW J, IsLog(J), NEW g, Shaped(J, g), NEW e, e.id = Count(J) + 1, None \notin Nat
    PROVE  Novel(g, e) /\ Older(g.streaks, e)
  <1>1. Count(J) \in Nat
    BY LogFinite
  <1> QED
    BY <1>1 DEF Shaped, Novel, Older

\* An event that an engine of the journal takes, what it hears missing or not.
LEMMA EventShapes ==
    ASSUME NEW J, IsLog(J), NEW g, Shaped(J, g), None \notin Nat,
           NEW e, IsEvent(e), e.id = Count(J) + 1,
           \A s \in g.streaks : ~Over(s, e) => AtEvent(s, e),
           NEW K, K = Append(J, e), NEW stale, NEW u, u = Update(g, e, stale)
    PROVE  /\ Shaped(K, u.engine) /\ At(u.engine.streaks, e)
           /\ \A c \in u.out : IsCandidate(c)
  <1>1. PICK V : V = [now |-> u.engine.streaks, out |-> u.out]
    OBVIOUS
  <1>2. PICK S, N : S = g.streaks /\ N = u.engine.streaks
    OBVIOUS
  <1>3. Count(J) \in Nat /\ Count(K) = Count(J) + 1
    BY EventAppended, LogFinite DEF OneEventMore
  <1>4. Novel(g, e) /\ Older(S, e)
    BY <1>2, FreshId
  <1>5. Moves(S, V, e) /\ At(N, e) /\ \A n \in N : n.family \in Families
    BY <1>1, <1>2, <1>4, UpdateMoves DEF Novel, Shaped, AtEvent
  <1>6. V.now = N /\ V.out = u.out
    BY <1>1, <1>2
  <1>7. \A n \in N : n.signal[3] = e.id \/ Was(n.signal, S)
    BY <1>5, <1>6 DEF Moves, NowFrom
  <1>8. \A signal : Was(signal, S) => signal[3] \in 1..Count(K)
    BY <1>2, <1>3 DEF Shaped, Was
  <1>9. PICK rest, X : rest = Remaining(g, e) /\ X = Together(Results(rest, e, stale))
    OBVIOUS
  <1>10. Updated(u, g, e, rest, X)
    BY <1>4, <1>9, UpdateIs
  <1>11. IsEngine(u.engine) /\ u.engine.seen \subseteq 1..Count(K)
    BY <1>3, <1>10 DEF Updated, Shaped
  <1>12. OnePerSignal(N) /\ \A n \in N : IsStreak(n)
    BY <1>5, <1>6 DEF Moves, NowFrom
  <1>13. \A n \in N : n.signal[3] \in 1..Count(K)
    BY <1>3, <1>7, <1>8
  <1>14. \A c \in u.out : IsCandidate(c)
    BY <1>5, <1>6 DEF Moves, OutFrom
  <1> QED
    BY <1>2, <1>5, <1>11, <1>12, <1>13, <1>14 DEF Shaped

\* An event that is journaled when nothing is missing.
LEMMA EventFits ==
    ASSUME NEW J, IsLog(J), NEW got, Fits(J, got), got.due = {}, None \notin Nat,
           NEW e, IsEvent(e), e.id = Count(J) + 1,
           \A s \in got.engine.streaks : ~Over(s, e) => AtEvent(s, e),
           NEW K, K = Append(J, e), NEW more, more = Replay(got, e)
    PROVE  Fits(K, more) /\ At(more.engine.streaks, e)
  <1>1. PICK stale, u, V : /\ stale = ReduceEvidence(got.state, e).stale
                           /\ u = Update(got.engine, e, stale)
                           /\ V = [now |-> u.engine.streaks, out |-> u.out]
    OBVIOUS
  <1>2. PICK S, N : S = got.engine.streaks /\ N = u.engine.streaks
    OBVIOUS
  <1>3. more.engine = u.engine /\ more.due = u.out /\ IsReplay(more)
    <2>1. got.due \cup u.out = u.out
      OBVIOUS
    <2> QED
      BY <1>1, <2>1 DEF Replay, IsReplay
  <1>0. OneEventMore(J, K)
    BY EventAppended
  <1>4. /\ Count(J) \in Nat /\ Count(K) = Count(J) + 1 /\ CandidatesOf(K) = CandidatesOf(J)
        /\ \A signal : ToldIn(K, signal) = ToldIn(J, signal)
        /\ \A i \in CandidatesOf(J) : K[i] = J[i]
    BY <1>0, LogFinite DEF OneEventMore
  <1>5. Novel(got.engine, e) /\ Older(S, e)
    BY <1>2, FreshId DEF Fits
  <1>6. Moves(S, V, e) /\ At(N, e) /\ \A n \in N : n.family \in Families
    BY <1>1, <1>2, <1>5, UpdateMoves DEF Novel, Fits, Shaped, AtEvent
  <1>7. V.now = N /\ V.out = u.out
    BY <1>1, <1>2
  <1>8. \A i \in CandidatesOf(J) : J[i].signal[3] # e.id
    <2>1. \A i \in CandidatesOf(J) : J[i].signal[3] \in 1..Count(J)
      BY DEF Fits, ToldFits
    <2> QED
      BY <1>4, <2>1
  <1>9. ASSUME NEW signal, signal[3] = e.id PROVE ToldIn(K, signal) = {}
    <2>1. ToldIn(J, signal) = {}
      BY <1>8, <1>9 DEF ToldIn
    <2> QED
      BY <1>4, <2>1
  <1>10. ASSUME NEW s \in S
         PROVE  /\ s.emitted <=> ToldIn(K, s.signal) # {}
                /\ \A i \in ToldIn(K, s.signal) : K[i].status \in Goes
    <2>1. ToldIn(K, s.signal) = ToldIn(J, s.signal) /\ ToldIn(J, s.signal) \subseteq CandidatesOf(J)
      BY <1>4 DEF ToldIn
    <2> QED
      BY <1>2, <1>4, <2>1 DEF Fits, ToldFits, Was
  <1>11. ASSUME NEW signal, signal[3] = e.id \/ Was(signal, S)
         PROVE  /\ ToldIn(K, signal) # {} <=> WasTold(signal, S)
                /\ \A i \in ToldIn(K, signal) : K[i].status \in Goes
    BY <1>5, <1>9, <1>10, <1>11 DEF Was, WasTold, Older, OnePerSignal
  <1>12. \A n \in N : n.signal[3] = e.id \/ Was(n.signal, S)
    BY <1>6, <1>7 DEF Moves, NowFrom
  <1>13. \A signal : Was(signal, S) => signal[3] \in 1..Count(K)
    BY <1>2, <1>4 DEF Fits, Shaped, Was
  <1>14. Shaped(K, u.engine)
    BY <1>1, EventShapes DEF Fits
  <1>15. ToldFits(K, more)
    <2>1. ASSUME NEW i \in CandidatesOf(K) PROVE K[i].signal[3] \in 1..Count(K)
      <3>1. i \in CandidatesOf(J) /\ K[i] = J[i]
        BY <1>4
      <3>2. J[i].signal[3] \in 1..Count(J)
        BY <3>1 DEF Fits, ToldFits
      <3> QED
        BY <1>4, <3>1, <3>2
    <2>2. ASSUME NEW n \in N
          PROVE  /\ n.emitted <=> ToldIn(K, n.signal) # {} \/ Was(n.signal, u.out)
                 /\ \A i \in ToldIn(K, n.signal) : K[i].status \in Goes
      BY <1>6, <1>7, <1>11, <1>12 DEF Moves, NowFrom
    <2> QED
      BY <1>2, <1>3, <2>1, <2>2 DEF ToldFits
  <1>16. DueFits(K, more)
    <2>1. OnePerSignal(u.out)
      BY <1>6, <1>7 DEF Moves
    <2>2. ASSUME NEW c \in u.out
          PROVE  /\ IsCandidate(c) /\ c.status \in Goes \cup Ends /\ c.signal[3] \in 1..Count(K)
                 /\ c.status = "active" <=> ToldIn(K, c.signal) = {}
                 /\ \A i \in ToldIn(K, c.signal) : K[i].status \in Goes
                 /\ c.status \in Ends => ~Was(c.signal, N)
      <3>1. IsCandidate(c) /\ Announces(c, S, N)
        BY <1>6, <1>7 DEF Moves, OutFrom
      <3>2. c.signal[3] = e.id \/ Was(c.signal, S)
        BY <1>12, <3>1 DEF Announces, Was, WasTold
      <3>3. /\ ToldIn(K, c.signal) # {} <=> WasTold(c.signal, S)
            /\ \A i \in ToldIn(K, c.signal) : K[i].status \in Goes
        BY <1>11, <3>2
      <3>4. c.signal[3] \in 1..Count(K)
        BY <1>4, <1>13, <3>2
      <3> QED
        BY <3>1, <3>3, <3>4 DEF Announces, Goes, Ends
    <2> QED
      BY <1>2, <1>3, <2>1, <2>2 DEF DueFits
  <1> QED
    BY <1>2, <1>3, <1>6, <1>14, <1>15, <1>16 DEF Fits

\* A candidate that was missing is journaled.
LEMMA CandidateFits ==
    ASSUME NEW J, IsLog(J), NEW got, Fits(J, got), NEW c \in got.due,
           NEW K, K = Append(J, c), NEW more, more = Replay(got, c)
    PROVE  Fits(K, more)
  <1>1. PICK m : m = Len(J) + 1
    OBVIOUS
  <1>2. ~IsEvent(c)
    BY DEF Fits, DueFits, IsCandidate, IsEvent
  <1>3. OneCandidateMore(J, K, c, m)
    BY <1>1, <1>2, CandidateAppended
  <1>4. PICK g, D : g = got.engine /\ D = got.due
    OBVIOUS
  <1>5. more.engine = g /\ more.due = D \ {c} /\ IsReplay(more)
    BY <1>2, <1>4 DEF Replay, Fits, IsReplay
  <1>6. Shaped(K, g)
    BY <1>3, <1>4 DEF OneCandidateMore, Fits, Shaped
  <1>7. ASSUME NEW signal, signal # c.signal
        PROVE  /\ ToldIn(K, signal) = ToldIn(J, signal)
               /\ \A i \in ToldIn(K, signal) : i \in ToldIn(J, signal) /\ K[i] = J[i]
    <2>1. ToldIn(K, signal) = ToldIn(J, signal) /\ ToldIn(J, signal) \subseteq CandidatesOf(J)
      BY <1>3, <1>7 DEF OneCandidateMore, ToldIn
    <2> QED
      BY <1>3, <2>1 DEF OneCandidateMore
  <1>8. DueFits(K, more)
    <2>1. OnePerSignal(D \ {c}) /\ \A d \in D \ {c} : d.signal # c.signal
      BY <1>4 DEF Fits, DueFits, OnePerSignal
    <2>2. ASSUME NEW d \in D \ {c}
          PROVE  /\ IsCandidate(d) /\ d.status \in Goes \cup Ends /\ d.signal[3] \in 1..Count(K)
                 /\ d.status = "active" <=> ToldIn(K, d.signal) = {}
                 /\ \A i \in ToldIn(K, d.signal) : K[i].status \in Goes
                 /\ d.status \in Ends => ~Was(d.signal, g.streaks)
      <3>1. d.signal # c.signal
        BY <2>1
      <3>2. /\ IsCandidate(d) /\ d.status \in Goes \cup Ends /\ d.signal[3] \in 1..Count(J)
            /\ d.status = "active" <=> ToldIn(J, d.signal) = {}
            /\ \A i \in ToldIn(J, d.signal) : J[i].status \in Goes
            /\ d.status \in Ends => ~Was(d.signal, g.streaks)
        BY <1>4 DEF Fits, DueFits
      <3> QED
        BY <1>3, <1>7, <3>1, <3>2 DEF OneCandidateMore
    <2> QED
      BY <1>5, <2>1, <2>2 DEF DueFits
  <1>9. ToldFits(K, more)
    <2>1. /\ IsCandidate(c) /\ c.status \in Goes \cup Ends /\ c.signal[3] \in 1..Count(J)
          /\ \A i \in ToldIn(J, c.signal) : J[i].status \in Goes
          /\ c.status \in Ends => ~Was(c.signal, g.streaks)
      BY <1>4 DEF Fits, DueFits
    <2>2. ASSUME NEW i \in CandidatesOf(K) PROVE K[i].signal[3] \in 1..Count(K)
      <3>1. \A j \in CandidatesOf(J) : J[j].signal[3] \in 1..Count(J)
        BY DEF Fits, ToldFits
      <3> QED
        BY <1>3, <2>1, <3>1 DEF OneCandidateMore
    <2>3. ASSUME NEW s \in g.streaks
          PROVE  /\ s.emitted <=> ToldIn(K, s.signal) # {} \/ Was(s.signal, D \ {c})
                 /\ \A i \in ToldIn(K, s.signal) : K[i].status \in Goes
      <3>1. /\ s.emitted <=> ToldIn(J, s.signal) # {} \/ Was(s.signal, D)
            /\ \A i \in ToldIn(J, s.signal) : J[i].status \in Goes
        BY <1>4 DEF Fits, ToldFits
      <3>2. CASE s.signal = c.signal
        <4>1. c.status \in Goes
          BY <2>1, <3>2 DEF Was
        <4>2. ToldIn(K, s.signal) = ToldIn(J, s.signal) \cup {m} /\ K[m] = c
          BY <1>3, <3>2 DEF OneCandidateMore
        <4>3. \A i \in ToldIn(J, s.signal) : K[i] = J[i]
          BY <1>3 DEF OneCandidateMore, ToldIn
        <4>4. s.emitted
          BY <1>4, <3>1, <3>2 DEF Was
        <4> QED
          BY <3>1, <4>1, <4>2, <4>3, <4>4
      <3>3. CASE s.signal # c.signal
        <4>1. Was(s.signal, D) <=> Was(s.signal, D \ {c})
          BY <3>3 DEF Was
        <4> QED
          BY <1>7, <3>1, <3>3, <4>1
      <3> QED
        BY <3>2, <3>3
    <2> QED
      BY <1>5, <2>2, <2>3 DEF ToldFits
  <1> QED
    BY <1>4, <1>5, <1>6, <1>8, <1>9 DEF Fits

\* It is the last of its signal, and the first if it is active.
LEMMA CandidateOnce ==
    ASSUME NEW J, IsLog(J), NEW got, Fits(J, got), NEW c \in got.due, Once(J),
           NEW K, K = Append(J, c)
    PROVE  Once(K)
  <1>1. PICK m : m = Len(J) + 1
    OBVIOUS
  <1>2. /\ ~IsEvent(c) /\ (c.status = "active" <=> ToldIn(J, c.signal) = {})
        /\ \A i \in ToldIn(J, c.signal) : J[i].status \in Goes
    <2>1. /\ IsCandidate(c) /\ (c.status = "active" <=> ToldIn(J, c.signal) = {})
          /\ \A i \in ToldIn(J, c.signal) : J[i].status \in Goes
      BY DEF Fits, DueFits
    <2> QED
      BY <2>1 DEF IsCandidate, IsEvent
  <1>3. OneCandidateMore(J, K, c, m)
    BY <1>1, <1>2, CandidateAppended
  <1>4. CandidatesOf(K) = CandidatesOf(J) \cup {m} /\ K[m] = c /\ m \in Nat
    BY <1>3 DEF OneCandidateMore
  <1>5. \A i \in CandidatesOf(J) : i \in Nat /\ i < m /\ K[i] = J[i]
    <2>1. CandidatesOf(J) \subseteq 1..(m - 1) /\ \A i \in CandidatesOf(J) : K[i] = J[i]
      BY <1>3 DEF OneCandidateMore
    <2>2. \A i \in 1..(m - 1) : i \in Nat /\ i < m
      BY <1>4
    <2> QED
      BY <2>1, <2>2
  <1>6. \A signal : ToldIn(J, signal) \subseteq CandidatesOf(J)
    BY DEF ToldIn
  <1>7. PICK told : told = ToldIn(J, c.signal)
    OBVIOUS
  <1>8. ToldIn(K, c.signal) = told \cup {m}
    BY <1>3, <1>7 DEF OneCandidateMore
  <1> SUFFICES ASSUME NEW i \in CandidatesOf(K)
               PROVE  /\ (\A j \in ToldIn(K, K[i].signal) : i <= j) <=> K[i].status = "active"
                      /\ (\E j \in ToldIn(K, K[i].signal) : i < j) => K[i].status \in Goes
    BY DEF Once
  <1>9. CASE i = m
    <2>1. \A j \in told : j < m /\ j \in Nat
      BY <1>5, <1>6, <1>7
    <2>2. (\A j \in told \cup {m} : m <= j) <=> told = {}
      BY <1>4, <2>1
    <2>3. ~\E j \in told \cup {m} : m < j
      BY <1>4, <2>1
    <2> QED
      BY <1>2, <1>4, <1>7, <1>8, <1>9, <2>2, <2>3
  <1>10. CASE i # m
    <2>1. i \in CandidatesOf(J) /\ K[i] = J[i] /\ i < m /\ i \in Nat
      BY <1>4, <1>5, <1>10
    <2>2. /\ (\A j \in ToldIn(J, J[i].signal) : i <= j) <=> J[i].status = "active"
          /\ (\E j \in ToldIn(J, J[i].signal) : i < j) => J[i].status \in Goes
      BY <2>1 DEF Once
    <2>3. CASE J[i].signal = c.signal
      <3>1. i \in told
        BY <1>7, <2>1, <2>3 DEF ToldIn
      <3>2. J[i].status \in Goes
        BY <1>2, <1>7, <3>1
      <3>3. (\A j \in told \cup {m} : i <= j) <=> (\A j \in told : i <= j)
        BY <1>4, <2>1
      <3> QED
        BY <1>7, <1>8, <2>1, <2>2, <2>3, <3>2, <3>3
    <2>4. CASE J[i].signal # c.signal
      <3>1. ToldIn(K, J[i].signal) = ToldIn(J, J[i].signal)
        BY <1>3, <2>4 DEF OneCandidateMore
      <3> QED
        BY <2>1, <2>2, <3>1
    <2> QED
      BY <2>3, <2>4
  <1> QED
    BY <1>9, <1>10

\* An event changes nothing of what was told.
LEMMA EventOnce ==
    ASSUME NEW J, IsLog(J), Once(J), NEW e, IsEvent(e), NEW K, K = Append(J, e)
    PROVE  Once(K)
  <1>1. OneEventMore(J, K)
    BY EventAppended
  <1>2. /\ CandidatesOf(K) = CandidatesOf(J) /\ \A i \in CandidatesOf(J) : K[i] = J[i]
        /\ \A signal : ToldIn(K, signal) = ToldIn(J, signal)
    BY <1>1 DEF OneEventMore
  <1> QED
    BY <1>2 DEF Once

\* All that the engine keeps is of turn t and connection p.
Sited(g, t, p) ==
    /\ \A s \in g.streaks : s.turn = t /\ s.epoch = p
    /\ g.frontier # None => g.frontier.turn = t /\ g.frontier.epoch = p
    /\ g.scope # None => g.scope.turn = t /\ g.scope.epoch = p
    /\ \A b \in g.baselines : b.turn = t /\ b.epoch = p

\* An event of the turn and the connection the engine is at.
LEMMA ThereSited ==
    ASSUME NEW g, NEW e, NEW stale, NEW u, Novel(g, e), u = Update(g, e, stale),
           Sited(g, e.turn, e.epoch), At(u.engine.streaks, e)
    PROVE  Sited(u.engine, e.turn, e.epoch)
  <1>1. /\ g.frontier # None /\ ~Over(g.frontier, e) => AtEvent(g.frontier, e)
        /\ g.scope # None /\ ~Over(g.scope, e) => AtEvent(g.scope, e)
        /\ \A b \in g.baselines : ~Over(b, e) => AtEvent(b, e)
    BY DEF Sited, AtEvent
  <1>2. Kin(u.engine, e)
    BY <1>1, UpdateKin
  <1> QED
    BY <1>2 DEF Kin, AtEvent, At, Sited

\* Everything the engine keeps ends with the event.
AllOver(g, e) ==
    /\ \A s \in g.streaks : Over(s, e)
    /\ g.frontier # None => Over(g.frontier, e)
    /\ g.scope # None => Over(g.scope, e)
    /\ \A b \in g.baselines : Over(b, e)

\* The engine keeps nothing.
Bare(g) == g.streaks = {} /\ g.frontier = None /\ g.scope = None /\ g.baselines = {}

\* A boundary leaves nothing.
LEMMA NothingLeft ==
    ASSUME NEW g, NEW e, NEW stale, NEW u, Novel(g, e), u = Update(g, e, stale), e.kind \in Quiet,
           \A s \in g.streaks : s.family \in Families, AllOver(g, e)
    PROVE  Bare(u.engine)
  <1>1. OnlyEnds(u, g, e)
    BY QuietUpdate
  <1>2. /\ u.engine.streaks = {} /\ u.engine.frontier = None /\ u.engine.scope = None
        /\ u.engine.baselines = {}
    BY <1>1 DEF AllOver, Kept, OnlyEnds
  <1> QED
    BY <1>2 DEF Bare

\* An event of a control of this turn changes nothing.
LEMMA ControlUpdate ==
    ASSUME NEW g, NEW e, NEW stale, NEW u, Novel(g, e), u = Update(g, e, stale),
           e.kind = "control_terminal", \A s \in g.streaks : s.family \in Families,
           Sited(g, e.turn, e.epoch)
    PROVE  Same(u.engine, g) /\ u.out = {}
  <1>1. e.kind \in Quiet /\ e.kind \notin Terminal
    BY DEF Quiet, Terminal
  <1>2. OnlyEnds(u, g, e)
    BY <1>1, QuietUpdate
  <1>3. \A r : r.turn = e.turn /\ r.epoch = e.epoch => ~Over(r, e)
    BY <1>1 DEF Over, TargetChanged
  <1>4. /\ u.engine.streaks = g.streaks /\ u.engine.baselines = g.baselines
        /\ u.engine.frontier = g.frontier /\ u.engine.scope = g.scope
    BY <1>2, <1>3 DEF Sited, Kept, OnlyEnds
  <1>5. g.streaks \ u.engine.streaks = {}
    BY <1>4
  <1>6. u.out = {}
    BY <1>2, <1>5 DEF End, OnlyEnds
  <1> QED
    BY <1>4, <1>6 DEF Same

\* A replay of one record more that is the same but for what was seen.
Unmoved(K, more, got) ==
    /\ Fits(K, more) /\ Same(more.engine, got.engine) /\ more.state = got.state
    /\ more.due = got.due

\* So it may be journaled whatever is missing.
LEMMA ControlFits ==
    ASSUME NEW J, IsLog(J), NEW got, Fits(J, got), None \notin Nat, Held(got.state),
           NEW e, IsEvent(e), e.id = Count(J) + 1, e.kind = "control_terminal", e.files = {},
           Sited(got.engine, e.turn, e.epoch),
           NEW K, K = Append(J, e), NEW more, more = Replay(got, e)
    PROVE  Unmoved(K, more, got)
  <1>1. PICK stale, u, g : /\ stale = ReduceEvidence(got.state, e).stale /\ g = got.engine
                           /\ u = Update(g, e, stale)
    OBVIOUS
  <1>2. Novel(g, e)
    BY <1>1, FreshId DEF Fits
  <1>3. \A s \in g.streaks : s.family \in Families
    BY <1>1 DEF Fits, Shaped
  <1>4. Same(u.engine, g) /\ u.out = {}
    BY <1>1, <1>2, <1>3, ControlUpdate
  <1>5. ReduceEvidence(got.state, e) = got.state
    BY ReduceIdle DEF Held
  <1>6. /\ more.engine = u.engine /\ more.due = got.due \cup u.out
        /\ more.state = ReduceEvidence(got.state, e) /\ IsReplay(more)
    BY <1>1 DEF Replay, IsReplay
  <1>7. more.due = got.due
    BY <1>4, <1>6
  <1>8. OneEventMore(J, K)
    BY EventAppended
  <1>9. /\ Count(J) \in Nat /\ Count(K) = Count(J) + 1 /\ CandidatesOf(K) = CandidatesOf(J)
        /\ \A signal : ToldIn(K, signal) = ToldIn(J, signal)
        /\ \A i \in CandidatesOf(J) : K[i] = J[i]
    BY <1>8, LogFinite DEF OneEventMore
  <1>10. \A signal : \A i \in ToldIn(K, signal) : i \in ToldIn(J, signal) /\ K[i] = J[i]
    BY <1>9 DEF ToldIn
  <1>11. 1..Count(J) \subseteq 1..Count(K)
    BY <1>9
  <1>12. Shaped(K, u.engine)
    <2>1. PICK rest, X : rest = Remaining(g, e) /\ X = Together(Results(rest, e, stale))
      OBVIOUS
    <2>2. Updated(u, g, e, rest, X)
      BY <1>1, <1>2, <2>1, UpdateIs
    <2>3. IsEngine(u.engine) /\ u.engine.seen \subseteq 1..Count(K)
      BY <1>1, <1>9, <2>2 DEF Updated, Fits, Shaped
    <2> QED
      BY <1>1, <1>4, <1>11, <2>3 DEF Same, Fits, Shaped
  <1>13. DueFits(K, more)
    <2>1. OnePerSignal(got.due)
      BY DEF Fits, DueFits
    <2>2. ASSUME NEW c \in got.due
          PROVE  /\ IsCandidate(c) /\ c.status \in Goes \cup Ends /\ c.signal[3] \in 1..Count(K)
                 /\ c.status = "active" <=> ToldIn(K, c.signal) = {}
                 /\ \A i \in ToldIn(K, c.signal) : K[i].status \in Goes
                 /\ c.status \in Ends => ~Was(c.signal, g.streaks)
      <3>1. /\ IsCandidate(c) /\ c.status \in Goes \cup Ends /\ c.signal[3] \in 1..Count(J)
            /\ c.status = "active" <=> ToldIn(J, c.signal) = {}
            /\ \A i \in ToldIn(J, c.signal) : J[i].status \in Goes
            /\ c.status \in Ends => ~Was(c.signal, g.streaks)
        BY <1>1 DEF Fits, DueFits
      <3> QED
        BY <1>9, <1>10, <1>11, <3>1
    <2>3. more.engine.streaks = g.streaks
      BY <1>4, <1>6 DEF Same
    <2> QED
      BY <1>7, <2>1, <2>2, <2>3 DEF DueFits
  <1>14. ToldFits(K, more)
    <2>1. \A i \in CandidatesOf(J) : J[i].signal[3] \in 1..Count(J)
      BY DEF Fits, ToldFits
    <2>2. ASSUME NEW i \in CandidatesOf(K) PROVE K[i].signal[3] \in 1..Count(K)
      <3>1. K[i] = J[i] /\ J[i].signal[3] \in 1..Count(J)
        BY <1>9, <2>1
      <3> QED
        BY <1>11, <3>1
    <2>3. ASSUME NEW s \in g.streaks
          PROVE  /\ s.emitted <=> ToldIn(K, s.signal) # {} \/ Was(s.signal, got.due)
                 /\ \A i \in ToldIn(K, s.signal) : K[i].status \in Goes
      <3>1. /\ s.emitted <=> ToldIn(J, s.signal) # {} \/ Was(s.signal, got.due)
            /\ \A i \in ToldIn(J, s.signal) : J[i].status \in Goes
        BY <1>1 DEF Fits, ToldFits
      <3> QED
        BY <1>9, <1>10, <3>1
    <2>4. more.engine.streaks = g.streaks
      BY <1>4, <1>6 DEF Same
    <2> QED
      BY <1>7, <2>2, <2>3, <2>4 DEF ToldFits
  <1> QED
    BY <1>1, <1>4, <1>5, <1>6, <1>7, <1>12, <1>13, <1>14 DEF Fits, Unmoved

-----------------------------------------------------------------------------
(***************************************************************************)
(* SignalRecovery, the actions.                                            *)
(***************************************************************************)

\* An empty journal.
LEMMA Start ==
    /\ IsLog(<<>>) /\ Held(NoEvidence) /\ IsReplay(Empty) /\ Fits(<<>>, Empty) /\ Once(<<>>)
    /\ IsEngine(Fresh) /\ Bare(Fresh)
  <1>1. IsLog(<<>>)
    BY DEF IsLog
  <1>2. Held(NoEvidence)
    <2>1. PICK s : s = NoEvidence
      OBVIOUS
    <2>2. IsState(s)
      BY <2>1 DEF NoEvidence, IsState, StateFields
    <2>3. DOMAIN s.conditions = {}
      BY <2>1 DEF NoEvidence
    <2> QED
      BY <2>1, <2>2, <2>3 DEF Held, Stands
  <1>3. IsReplay(Empty) /\ Empty.engine = Fresh /\ Empty.due = {}
    BY DEF IsReplay, Empty
  <1>4. PICK g : g = Fresh
    OBVIOUS
  <1>5. /\ g.streaks = {} /\ g.frontier = None /\ g.scope = None /\ g.baselines = {}
        /\ g.seen = {} /\ IsEngine(g)
    BY <1>4 DEF Fresh, IsEngine, EngineFields
  <1>6. EventsOf(<<>>) = {} /\ CandidatesOf(<<>>) = {}
    BY DEF EventsOf, CandidatesOf
  <1>7. Fits(<<>>, Empty)
    BY <1>3, <1>4, <1>5, <1>6
       DEF Fits, Shaped, DueFits, ToldFits, OnePerSignal
  <1>8. Once(<<>>)
    BY <1>6 DEF Once
  <1>9. Bare(g)
    BY <1>5 DEF Bare
  <1> QED
    BY <1>1, <1>2, <1>3, <1>4, <1>5, <1>7, <1>8, <1>9

\* The journal grows by a record, its replay by a step.
LEMMA OneMore ==
    ASSUME NEW J, IsLog(J), NEW r, NEW K, K = Append(J, r)
    PROVE  IsLog(K) /\ HydratedJournal(K) = Replay(HydratedJournal(J), r)
  <1>1. PICK T : T = {J[i] : i \in DOMAIN J}
    OBVIOUS
  <1> QED
    BY <1>1, LogAppend, HydratedAppend DEF IsLog

\* What is satisfied stands in every replay.
LEMMA ReplayHolds ==
    ASSUME NEW got, IsReplay(got), Held(got.state), NEW r, NEW more, more = Replay(got, r)
    PROVE  IsReplay(more) /\ Held(more.state)
  <1>1. CASE IsEvent(r)
    BY <1>1, ReduceHolds DEF Replay, IsReplay
  <1>2. CASE ~IsEvent(r)
    BY <1>2 DEF Replay, IsReplay
  <1> QED
    BY <1>1, <1>2

\* The evidence alone.
EvidenceInv ==
    /\ IsLog(journal) /\ Held(state)
    /\ IsReplay(HydratedJournal(journal)) /\ Held(HydratedJournal(journal).state)

\* Live or replayed, what is satisfied stands.
LEMMA EvidenceStep == ASSUME EvidenceInv, [SignalNext]_signalVars PROVE EvidenceInv'
  <1>1. ASSUME NEW r, journal' = Append(journal, r), Held(state') PROVE EvidenceInv'
    <2>1. IsLog(journal') /\ HydratedJournal(journal') = Replay(HydratedJournal(journal), r)
      BY <1>1, OneMore DEF EvidenceInv
    <2>2. IsReplay(HydratedJournal(journal')) /\ Held(HydratedJournal(journal').state)
      BY <2>1, ReplayHolds DEF EvidenceInv
    <2> QED
      BY <1>1, <2>1, <2>2 DEF EvidenceInv
  <1>2. ASSUME journal' = journal, Held(state') PROVE EvidenceInv'
    BY <1>2 DEF EvidenceInv
  <1>3. ASSUME NEW e, Record(e) PROVE EvidenceInv'
    BY <1>1, <1>3, ReduceHolds DEF Record, EvidenceInv
  <1>4. CASE Agent
    BY <1>3, <1>4 DEF Agent, Observe, EndTurn, Reconnect, LateReview
  <1>5. CASE Derive
    BY <1>1, <1>5 DEF Derive, EvidenceInv
  <1>6. CASE Telemetry
    BY <1>1, <1>6 DEF Telemetry, EvidenceInv
  <1>7. CASE Crash
    BY <1>2, <1>7, Start DEF Crash
  <1>8. CASE Boot
    BY <1>2, <1>8 DEF Boot, EvidenceInv
  <1>9. CASE UNCHANGED signalVars
    BY <1>2, <1>9 DEF signalVars, EvidenceInv
  <1> QED
    BY <1>4, <1>5, <1>6, <1>7, <1>8, <1>9 DEF SignalNext, Daemon

\* Verified conditions rest on evidence that nothing invalidated, in the live state of
\* ThreadStateReducer and after any number of crashes and replays.
THEOREM SatisfiedHolds == SignalSpec => []SatisfiedStands
  <1>1. SignalInit => EvidenceInv
    <2> SUFFICES ASSUME SignalInit PROVE EvidenceInv
      OBVIOUS
    <2>1. IsReplay(Empty) /\ Empty.state = NoEvidence
      BY Start DEF Empty
    <2> QED
      BY <2>1, Start, HydratedEmpty DEF SignalInit, EvidenceInv
  <1>2. EvidenceInv /\ [SignalNext]_signalVars => EvidenceInv'
    BY EvidenceStep
  <1>3. EvidenceInv => SatisfiedStands
    BY DEF EvidenceInv, Held, SatisfiedStands
  <1> QED
    BY <1>1, <1>2, <1>3, PTL DEF SignalSpec

\* Late, of any journal; none since its last boundary.
LateIn(J) ==
    {i \in EventsOf(J) :
        /\ J[i].kind = "control_terminal"
        /\ \E j \in EventsOf(J) :
              /\ j < i /\ J[j].kind \notin Terminal
              /\ J[j].turn > J[i].turn \/ J[j].epoch > J[i].epoch}
SettledIn(J) == \A i \in LateIn(J) : \E j \in EventsOf(J) : i < j /\ J[j].kind \in Terminal

\* An engine of the journal J that is at turn t and connection p: if it keeps anything, then
\* because of an event of those.
Rooted(J, g, t, p) ==
    Bare(g) \/ \E i \in EventsOf(J) : J[i].kind \notin Terminal /\ J[i].turn = t /\ J[i].epoch = p
Placed(J, g, t, p) == Shaped(J, g) /\ Sited(g, t, p) /\ Rooted(J, g, t, p)

\* What no telemetry disturbs: the shape of both engines, and that the evidence is the same.
RecoveryBase ==
    /\ IsLog(journal) /\ turn \in Nat /\ epoch \in Nat
    /\ \A x \in targets : x[1] \in Nat /\ x[2] \in Nat /\ x[1] <= turn /\ x[2] <= epoch
    /\ IsReplay(HydratedJournal(journal)) /\ Held(HydratedJournal(journal).state)
    /\ Placed(journal, HydratedJournal(journal).engine, turn, epoch)
    /\ \A c \in HydratedJournal(journal).due \cup due : IsCandidate(c)
    /\ up => Placed(journal, engine, turn, epoch) /\ state = HydratedJournal(journal).state

\* Engines agree unless telemetry came late since the last boundary,
EnginesAgree ==
    up /\ SettledIn(journal) => Same(engine, HydratedJournal(journal).engine)

\* and what is journaled and missing is as it should be unless it ever came late.
ToldRight ==
    LateIn(journal) = {} =>
       /\ Fits(journal, HydratedJournal(journal)) /\ Once(journal)
       /\ up => due = HydratedJournal(journal).due

RecoveryInv == RecoveryBase /\ EnginesAgree /\ ToldRight

\* The events of a journal keep their places when a record more is journaled,
LEMMA EventsStay ==
    ASSUME NEW J, IsLog(J), NEW r, NEW K, K = Append(J, r)
    PROVE  \A i \in EventsOf(J) : i \in EventsOf(K) /\ K[i] = J[i] /\ i < Len(J) + 1
  BY LogAppend DEF EventsOf

\* and if it is an event then it is the last one.
LEMMA EventsEnd ==
    ASSUME NEW J, IsLog(J), NEW r, IsEvent(r), NEW K, K = Append(J, r)
    PROVE  Len(J) + 1 \in EventsOf(K) /\ K[Len(J) + 1] = r
  BY LogAppend DEF EventsOf

\* A record more: what was late stays late, and only a boundary settles it.
LEMMA LateStays ==
    ASSUME NEW J, IsLog(J), NEW r, NEW K, K = Append(J, r)
    PROVE  /\ LateIn(J) \subseteq LateIn(K)
           /\ SettledIn(K) /\ (IsEvent(r) => r.kind \notin Terminal) => SettledIn(J)
  <1>1. PICK m \in Nat : m = Len(J) + 1
    BY LogAppend
  <1>2. DOMAIN J = 1..(m - 1) /\ DOMAIN K = 1..m /\ K[m] = r /\ \A i \in 1..(m - 1) : K[i] = J[i]
    BY <1>1, LogAppend
  <1>3. /\ \A i \in EventsOf(J) : i \in EventsOf(K) /\ K[i] = J[i] /\ i < m
        /\ \A i \in EventsOf(K) : i \in EventsOf(J) \/ (i = m /\ IsEvent(r))
    BY <1>2 DEF EventsOf
  <1>4. LateIn(J) \subseteq LateIn(K)
    BY <1>3 DEF LateIn
  <1>5. ASSUME SettledIn(K), IsEvent(r) => r.kind \notin Terminal PROVE SettledIn(J)
    <2> SUFFICES ASSUME NEW i \in LateIn(J)
                 PROVE  \E j \in EventsOf(J) : i < j /\ J[j].kind \in Terminal
      BY DEF SettledIn
    <2>1. PICK j \in EventsOf(K) : i < j /\ K[j].kind \in Terminal
      BY <1>4, <1>5 DEF SettledIn
    <2>2. j \in EventsOf(J)
      BY <1>2, <1>3, <1>5, <2>1
    <2> QED
      BY <1>3, <2>1, <2>2
  <1> QED
    BY <1>1, <1>2, <1>3, <1>4, <1>5

\* Nor does a record more move an engine that does not hear it.
LEMMA PlacedStays ==
    ASSUME NEW J, IsLog(J), NEW r, NEW K, K = Append(J, r), NEW g, NEW t, NEW p, Placed(J, g, t, p)
    PROVE  Placed(K, g, t, p)
  <1>1. Count(J) \in Nat /\ Count(K) \in Nat /\ Count(J) <= Count(K)
    <2>1. Count(J) \in Nat
      BY LogFinite
    <2>2. CASE IsEvent(r)
      <3>1. OneEventMore(J, K)
        BY <2>2, EventAppended
      <3> QED
        BY <2>1, <3>1 DEF OneEventMore
    <2>3. CASE ~IsEvent(r)
      <3>1. PICK m : m = Len(J) + 1
        OBVIOUS
      <3>2. OneCandidateMore(J, K, r, m)
        BY <2>3, <3>1, CandidateAppended
      <3> QED
        BY <2>1, <3>2 DEF OneCandidateMore
    <2> QED
      BY <2>2, <2>3
  <1>2. 1..Count(J) \subseteq 1..Count(K)
    BY <1>1
  <1>3. Shaped(K, g)
    BY <1>2 DEF Placed, Shaped
  <1>4. Rooted(K, g, t, p)
    <2>1. \A i \in EventsOf(J) : i \in EventsOf(K) /\ K[i] = J[i]
      BY LogAppend DEF EventsOf
    <2>2. CASE Bare(g)
      BY <2>2 DEF Rooted
    <2>3. CASE ~Bare(g)
      <3>1. PICK i \in EventsOf(J) : J[i].kind \notin Terminal /\ J[i].turn = t /\ J[i].epoch = p
        BY <2>3 DEF Placed, Rooted
      <3> QED
        BY <2>1, <3>1 DEF Rooted
    <2> QED
      BY <2>2, <2>3
  <1> QED
    BY <1>3, <1>4 DEF Placed

\* An engine that is at a turn and a connection, and an event: what it keeps through it is of them.
LEMMA SitedFits ==
    ASSUME NEW g, NEW t \in Nat, NEW p \in Nat, Sited(g, t, p), None \notin Nat,
           NEW e, e.epoch \in Nat
    PROVE  \A s \in g.streaks : ~Over(s, e) => AtEvent(s, e)
  BY DEF Sited, Over, TargetChanged, AtEvent

\* What an event says besides what it is about.
LEMMA NowIs ==
    ASSUME NEW e, DOMAIN e = DOMAIN Blank, NEW n, n = Now(e)
    PROVE  /\ IsEvent(n) /\ DOMAIN n = DOMAIN Blank /\ n.id = Count(journal) + 1
           /\ n.turn = turn /\ n.epoch = epoch /\ n.kind = e.kind /\ n.files = e.files
  <1>1. Count(journal) + 1 = NextId
    BY DEF Count, EventsOf, NextId, Events
  <1>2. {"id", "kind", "turn", "epoch", "files"} \subseteq DOMAIN Blank
    BY DEF Blank
  <1> QED
    BY <1>1, <1>2 DEF Now, IsEvent

\* An event that only says its kind.
LEMMA PlainIs ==
    ASSUME NEW kind, NEW n, n = Plain(kind)
    PROVE  /\ IsEvent(n) /\ DOMAIN n = DOMAIN Blank /\ n.id = Count(journal) + 1
           /\ n.turn = turn /\ n.epoch = epoch /\ n.kind = kind /\ n.files = {}
  <1>1. PICK e : e = [Blank EXCEPT !.kind = kind]
    OBVIOUS
  <1>2. DOMAIN e = DOMAIN Blank /\ e.kind = kind /\ e.files = {}
    BY <1>1 DEF Blank
  <1> QED
    BY <1>1, <1>2, NowIs DEF Plain

\* _record(): the live engine and the replay take the same step, and what they agreed on or
\* told right before they agree on and tell right after.
LEMMA RecordStep ==
    ASSUME RecoveryInv, NEW e, Record(e), IsEvent(e), e.id = Count(journal) + 1, e.epoch \in Nat,
           NEW J, J = journal, NEW K, K = journal', NEW got, got = HydratedJournal(journal),
           NEW more, more = HydratedJournal(journal'), NEW stale, stale = state'.stale
    PROVE  /\ K = Append(J, e) /\ IsLog(J) /\ IsLog(K) /\ up /\ up' /\ IsReplay(more)
           /\ Held(more.state) /\ state' = more.state
           /\ Novel(engine, e) /\ Novel(got.engine, e)
           /\ Shaped(K, engine') /\ At(engine'.streaks, e)
           /\ Shaped(K, more.engine) /\ At(more.engine.streaks, e)
           /\ engine' = Update(engine, e, stale).engine
           /\ more.engine = Update(got.engine, e, stale).engine
           /\ \A c \in more.due \cup due' : IsCandidate(c)
           /\ Same(engine, got.engine) => Same(engine', more.engine)
           /\ ToldRight'
  <1>1. /\ up /\ up' /\ due = {} /\ K = Append(J, e) /\ state' = ReduceEvidence(state, e)
        /\ engine' = Update(engine, e, stale).engine /\ due' = Update(engine, e, stale).out
    BY DEF Record
  <1>2. /\ IsLog(J) /\ IsReplay(got) /\ Held(got.state) /\ state = got.state
        /\ Placed(J, got.engine, turn, epoch) /\ Placed(J, engine, turn, epoch)
        /\ \A c \in got.due : IsCandidate(c)
        /\ turn \in Nat /\ epoch \in Nat /\ e.id = Count(J) + 1
    BY <1>1 DEF RecoveryInv, RecoveryBase
  <1>3. None \notin Nat
    BY RecoveryAssumption
  <1>4. IsLog(K) /\ more = Replay(got, e)
    BY <1>1, <1>2, OneMore
  <1>5. IsReplay(more) /\ Held(more.state)
    BY <1>2, <1>4, ReplayHolds
  <1>6. PICK u, v : u = Update(got.engine, e, stale) /\ v = Update(engine, e, stale)
    OBVIOUS
  <1>7. /\ more.engine = u.engine /\ more.due = got.due \cup u.out /\ more.state = state'
    BY <1>1, <1>2, <1>4, <1>6 DEF Replay
  <1>8. /\ \A s \in engine.streaks : ~Over(s, e) => AtEvent(s, e)
        /\ \A s \in got.engine.streaks : ~Over(s, e) => AtEvent(s, e)
    BY <1>2, <1>3, SitedFits DEF Placed
  <1>9. /\ Shaped(K, v.engine) /\ At(v.engine.streaks, e)
        /\ \A c \in v.out : IsCandidate(c)
    BY <1>1, <1>2, <1>3, <1>6, <1>8, EventShapes DEF Placed
  <1>10. /\ Shaped(K, u.engine) /\ At(u.engine.streaks, e)
         /\ \A c \in u.out : IsCandidate(c)
    BY <1>1, <1>2, <1>3, <1>6, <1>8, EventShapes DEF Placed
  <1>11. Novel(engine, e) /\ Novel(got.engine, e)
    BY <1>2, <1>3, FreshId DEF Placed
  <1>12. ASSUME Same(engine, got.engine) PROVE Same(v.engine, u.engine) /\ v.out = u.out
    BY <1>6, <1>11, <1>12, SameUpdate
  <1>13. ASSUME LateIn(K) = {}
         PROVE  Fits(K, more) /\ Once(K) /\ due' = more.due
    <2>1. LateIn(J) = {}
      BY <1>1, <1>2, <1>13, LateStays
    <2>2. Fits(J, got) /\ Once(J) /\ got.due = {}
      BY <1>1, <2>1 DEF RecoveryInv, ToldRight
    <2>3. Same(engine, got.engine)
      BY <1>1, <2>1 DEF RecoveryInv, EnginesAgree, SettledIn
    <2>4. Fits(K, more)
      BY <1>1, <1>2, <1>3, <1>4, <1>8, <2>2, EventFits
    <2>5. Once(K)
      BY <1>1, <1>2, <2>2, EventOnce
    <2>6. v.out = u.out /\ more.due = u.out
      BY <1>7, <1>12, <2>2, <2>3
    <2> QED
      BY <1>1, <1>6, <2>4, <2>5, <2>6
  <1>14. ToldRight'
    BY <1>13 DEF ToldRight
  <1>15. \A c \in more.due \cup due' : IsCandidate(c)
    BY <1>1, <1>2, <1>6, <1>7, <1>9, <1>10
  <1> QED
    BY <1>1, <1>2, <1>4, <1>5, <1>6, <1>7, <1>9, <1>10, <1>11, <1>12, <1>14, <1>15

\* What controls may still carry is never ahead of the agent.
LEMMA TargetsFollow ==
    ASSUME RecoveryBase, NEW t \in Nat, NEW p \in Nat, turn <= t, epoch <= p, MoveTo(t, p)
    PROVE  /\ turn' \in Nat /\ epoch' \in Nat
           /\ \A x \in targets' : x[1] \in Nat /\ x[2] \in Nat /\ x[1] <= turn' /\ x[2] <= epoch'
  <1>1. turn' = t /\ epoch' = p /\ targets' = targets \cup {<<t, p>>}
    BY DEF MoveTo
  <1>2. turn \in Nat /\ epoch \in Nat
    BY DEF RecoveryBase
  <1> SUFFICES ASSUME NEW x \in targets'
               PROVE  x[1] \in Nat /\ x[2] \in Nat /\ x[1] <= turn' /\ x[2] <= epoch'
    BY <1>1
  <1>3. CASE x \in targets
    <2>1. x[1] \in Nat /\ x[2] \in Nat /\ x[1] <= turn /\ x[2] <= epoch
      BY <1>3 DEF RecoveryBase
    <2> QED
      BY <1>1, <1>2, <2>1
  <1>4. CASE x = <<t, p>>
    BY <1>1, <1>4
  <1> QED
    BY <1>1, <1>3, <1>4

\* A boundary, or an event of a turn that is over: neither engine keeps anything.
LEMMA BoundaryStep ==
    ASSUME RecoveryInv, NEW e, Record(e), IsEvent(e), e.id = Count(journal) + 1, e.epoch \in Nat,
           e.kind \in Quiet, e.kind \in Terminal \/ e.turn # turn,
           NEW t \in Nat, NEW p \in Nat, turn <= t, epoch <= p, MoveTo(t, p)
    PROVE  RecoveryInv'
  <1>1. PICK J, K, got, more, stale :
             /\ J = journal /\ K = journal' /\ got = HydratedJournal(journal)
             /\ more = HydratedJournal(journal') /\ stale = state'.stale
    OBVIOUS
  <1>2. /\ IsLog(K) /\ up' /\ IsReplay(more) /\ Held(more.state) /\ state' = more.state
        /\ Novel(engine, e) /\ Novel(got.engine, e)
        /\ Shaped(K, engine') /\ Shaped(K, more.engine)
        /\ engine' = Update(engine, e, stale).engine
        /\ more.engine = Update(got.engine, e, stale).engine
        /\ \A c \in more.due \cup due' : IsCandidate(c)
        /\ ToldRight'
    BY <1>1, RecordStep
  <1>3. /\ Placed(J, got.engine, turn, epoch) /\ Placed(J, engine, turn, epoch)
    BY <1>1 DEF RecoveryInv, RecoveryBase, Record
  <1>4. \A x : x.turn = turn => Over(x, e)
    BY DEF Over, TargetChanged
  <1>5. AllOver(engine, e) /\ AllOver(got.engine, e)
    BY <1>3, <1>4 DEF AllOver, Placed, Sited
  <1>6. Bare(engine')
    <2>1. PICK u : u = Update(engine, e, stale)
      OBVIOUS
    <2>2. \A s \in engine.streaks : s.family \in Families
      BY <1>3 DEF Placed, Shaped
    <2> QED
      BY <1>2, <1>5, <2>1, <2>2, NothingLeft
  <1>7. Bare(more.engine)
    <2>1. PICK u : u = Update(got.engine, e, stale)
      OBVIOUS
    <2>2. \A s \in got.engine.streaks : s.family \in Families
      BY <1>3 DEF Placed, Shaped
    <2> QED
      BY <1>2, <1>5, <2>1, <2>2, NothingLeft
  <1>8. Placed(K, engine', t, p) /\ Placed(K, more.engine, t, p)
    BY <1>2, <1>6, <1>7 DEF Placed, Rooted, Bare, Sited
  <1>9. Same(engine', more.engine)
    BY <1>6, <1>7 DEF Bare, Same
  <1>10. turn' = t /\ epoch' = p
    BY DEF MoveTo
  <1>11. RecoveryBase'
    BY <1>1, <1>2, <1>8, <1>10, TargetsFollow DEF RecoveryBase, RecoveryInv
  <1> QED
    BY <1>1, <1>2, <1>9, <1>11 DEF RecoveryInv, EnginesAgree

\* An event of this turn on this connection.
LEMMA ObserveStep ==
    ASSUME RecoveryInv, NEW e \in Alphabet, Observe(e)
    PROVE  RecoveryInv'
  <1>1. PICK n : n = Now(e)
    OBVIOUS
  <1>2. /\ IsEvent(n) /\ n.id = Count(journal) + 1 /\ n.turn = turn /\ n.epoch = epoch
    BY <1>1, NowIs, RecoveryAssumption
  <1>3. /\ turn \in Nat /\ epoch \in Nat /\ Record(n) /\ MoveTo(turn, epoch)
    BY <1>1 DEF Observe, RecoveryInv, RecoveryBase
  <1>4. turn <= turn /\ epoch <= epoch
    BY <1>3
  <1>5. CASE n.kind \in Terminal
    <2>1. n.kind \in Quiet
      BY <1>5 DEF Quiet
    <2> QED
      BY <1>2, <1>3, <1>4, <1>5, <2>1, BoundaryStep
  <1>6. CASE n.kind \notin Terminal
    <2>1. PICK J, K, got, more, stale :
               /\ J = journal /\ K = journal' /\ got = HydratedJournal(journal)
               /\ more = HydratedJournal(journal') /\ stale = state'.stale
      OBVIOUS
    <2>2. /\ K = Append(J, n) /\ IsLog(J) /\ IsLog(K) /\ up /\ up' /\ IsReplay(more)
          /\ Held(more.state) /\ state' = more.state
          /\ Novel(engine, n) /\ Novel(got.engine, n)
          /\ Shaped(K, engine') /\ At(engine'.streaks, n)
          /\ Shaped(K, more.engine) /\ At(more.engine.streaks, n)
          /\ engine' = Update(engine, n, stale).engine
          /\ more.engine = Update(got.engine, n, stale).engine
          /\ \A c \in more.due \cup due' : IsCandidate(c)
          /\ Same(engine, got.engine) => Same(engine', more.engine)
          /\ ToldRight'
      BY <1>2, <1>3, <2>1, RecordStep
    <2>3. Sited(got.engine, n.turn, n.epoch) /\ Sited(engine, n.turn, n.epoch)
      BY <1>2, <2>1, <2>2 DEF RecoveryInv, RecoveryBase, Placed
    <2>4. Sited(engine', n.turn, n.epoch)
      <3>1. PICK u : u = Update(engine, n, stale)
        OBVIOUS
      <3> QED
        BY <2>2, <2>3, <3>1, ThereSited
    <2>5. Sited(more.engine, n.turn, n.epoch)
      <3>1. PICK u : u = Update(got.engine, n, stale)
        OBVIOUS
      <3> QED
        BY <2>2, <2>3, <3>1, ThereSited
    <2>6. \A g : Rooted(K, g, n.turn, n.epoch)
      <3>1. PICK m : m = Len(J) + 1
        OBVIOUS
      <3>2. m \in EventsOf(K) /\ K[m] = n
        BY <1>2, <2>2, <3>1, EventsEnd
      <3>3. \E i \in EventsOf(K) :
               K[i].kind \notin Terminal /\ K[i].turn = n.turn /\ K[i].epoch = n.epoch
        BY <1>6, <3>2
      <3> QED
        BY <3>3 DEF Rooted
    <2>7. Placed(K, engine', turn, epoch) /\ Placed(K, more.engine, turn, epoch)
      BY <1>2, <2>2, <2>4, <2>5, <2>6 DEF Placed
    <2>8. turn' = turn /\ epoch' = epoch
      BY <1>3 DEF MoveTo
    <2>9. RecoveryBase'
      BY <1>3, <1>4, <2>1, <2>2, <2>7, <2>8, TargetsFollow DEF RecoveryBase, RecoveryInv
    <2>10. EnginesAgree'
      <3>1. ASSUME SettledIn(K) PROVE Same(engine', more.engine)
        <4>1. SettledIn(J)
          BY <1>6, <2>2, <3>1, LateStays
        <4> QED
          BY <2>1, <2>2, <4>1 DEF RecoveryInv, EnginesAgree
      <3> QED
        BY <2>1, <3>1 DEF EnginesAgree
    <2> QED
      BY <2>2, <2>9, <2>10 DEF RecoveryInv
  <1> QED
    BY <1>5, <1>6

\* _append_derived(): a candidate moves from what is missing to the journal.
LEMMA DeriveStep == ASSUME RecoveryInv, Derive PROVE RecoveryInv'
  <1>1. PICK c \in due : journal' = Append(journal, c) /\ due' = due \ {c}
    BY DEF Derive
  <1>2. PICK J, K, got, more : /\ J = journal /\ K = journal' /\ got = HydratedJournal(journal)
                               /\ more = HydratedJournal(journal')
    OBVIOUS
  <1>3. up /\ UNCHANGED <<engine, state, up, turn, epoch, targets, crashes>>
    BY DEF Derive
  <1>4. /\ IsLog(J) /\ IsReplay(got) /\ Held(got.state) /\ state = got.state
        /\ Placed(J, got.engine, turn, epoch) /\ Placed(J, engine, turn, epoch)
        /\ \A d \in got.due \cup due : IsCandidate(d)
    BY <1>2, <1>3 DEF RecoveryInv, RecoveryBase
  <1>5. IsLog(K) /\ more = Replay(got, c) /\ K = Append(J, c)
    BY <1>1, <1>2, <1>4, OneMore
  <1>6. ~IsEvent(c)
    BY <1>4 DEF IsCandidate, IsEvent
  <1>7. /\ more.engine = got.engine /\ more.state = got.state /\ more.due = got.due \ {c}
        /\ IsReplay(more)
    BY <1>4, <1>5, <1>6 DEF Replay, IsReplay
  <1>8. Placed(K, got.engine, turn, epoch) /\ Placed(K, engine, turn, epoch)
    BY <1>4, <1>5, PlacedStays
  <1>9. RecoveryBase'
    BY <1>1, <1>2, <1>3, <1>4, <1>5, <1>7, <1>8 DEF RecoveryBase, RecoveryInv
  <1>10. SettledIn(K) => SettledIn(J)
    BY <1>4, <1>5, <1>6, LateStays
  <1>11. EnginesAgree'
    BY <1>2, <1>3, <1>7, <1>10 DEF EnginesAgree, RecoveryInv
  <1>12. ASSUME LateIn(K) = {} PROVE Fits(K, more) /\ Once(K) /\ due' = more.due
    <2>1. LateIn(J) = {}
      BY <1>4, <1>5, <1>12, LateStays
    <2>2. Fits(J, got) /\ Once(J) /\ due = got.due
      BY <1>2, <1>3, <2>1 DEF RecoveryInv, ToldRight
    <2> QED
      BY <1>1, <1>4, <1>5, <1>7, <2>2, CandidateFits, CandidateOnce
  <1>13. ToldRight'
    BY <1>2, <1>12 DEF ToldRight
  <1> QED
    BY <1>9, <1>11, <1>13 DEF RecoveryInv

\* Telemetry that is not late finds nothing in the replay but what is of its control's time.
LEMMA PunctualSited ==
    ASSUME NEW J, IsLog(J), NEW e, IsEvent(e), e.kind = "control_terminal",
           NEW K, K = Append(J, e), Len(J) + 1 \notin LateIn(K),
           NEW t \in Nat, NEW p \in Nat, e.turn \in Nat, e.epoch \in Nat, e.turn <= t, e.epoch <= p,
           NEW g, Placed(J, g, t, p)
    PROVE  Sited(g, e.turn, e.epoch)
  <1>1. CASE Bare(g)
    BY <1>1 DEF Bare, Sited
  <1>2. CASE ~Bare(g)
    <2>1. PICK i \in EventsOf(J) : J[i].kind \notin Terminal /\ J[i].turn = t /\ J[i].epoch = p
      BY <1>2 DEF Placed, Rooted
    <2>2. /\ i \in EventsOf(K) /\ K[i] = J[i] /\ i < Len(J) + 1
          /\ K[Len(J) + 1] = e /\ Len(J) + 1 \in EventsOf(K)
      BY LogAppend DEF EventsOf
    <2>3. ~(t > e.turn \/ p > e.epoch)
      BY <2>1, <2>2 DEF LateIn
    <2>4. t = e.turn /\ p = e.epoch
      BY <2>3
    <2> QED
      BY <2>4 DEF Placed
  <1> QED
    BY <1>1, <1>2

\* append_operational(): the live engine does not hear it.  A replay that does ends what is of
\* another turn or connection, and if the telemetry is not late that is nothing.
LEMMA TelemetryStep == ASSUME RecoveryInv, Telemetry PROVE RecoveryInv'
  <1>1. PICK q : q = Plain("control_terminal")
    OBVIOUS
  <1>2. PICK x \in targets : journal' = Append(journal, [q EXCEPT !.turn = x[1], !.epoch = x[2]])
    BY <1>1 DEF Telemetry
  <1>3. PICK e : e = [q EXCEPT !.turn = x[1], !.epoch = x[2]]
    OBVIOUS
  <1>4. /\ IsEvent(e) /\ e.id = Count(journal) + 1 /\ e.turn = x[1] /\ e.epoch = x[2]
        /\ e.kind = "control_terminal" /\ e.files = {}
    <2>1. /\ IsEvent(q) /\ DOMAIN q = DOMAIN Blank /\ q.id = Count(journal) + 1
          /\ q.kind = "control_terminal" /\ q.files = {}
      BY <1>1, PlainIs
    <2>2. {"id", "kind", "turn", "epoch", "files"} \subseteq DOMAIN q
      BY <2>1 DEF Blank
    <2> QED
      BY <1>3, <2>1, <2>2 DEF IsEvent
  <1>5. PICK J, K, got, more : /\ J = journal /\ K = journal' /\ got = HydratedJournal(journal)
                               /\ more = HydratedJournal(journal')
    OBVIOUS
  <1>6. /\ up /\ UNCHANGED <<engine, state, due, up, turn, epoch, targets, crashes>>
    BY DEF Telemetry
  <1>7. /\ IsLog(J) /\ IsReplay(got) /\ Held(got.state) /\ state = got.state
        /\ Placed(J, got.engine, turn, epoch) /\ Placed(J, engine, turn, epoch)
        /\ \A d \in got.due \cup due : IsCandidate(d)
        /\ turn \in Nat /\ epoch \in Nat /\ e.id = Count(J) + 1
        /\ e.turn \in Nat /\ e.epoch \in Nat /\ e.turn <= turn /\ e.epoch <= epoch
    BY <1>4, <1>5, <1>6 DEF RecoveryInv, RecoveryBase
  <1>8. K = Append(J, e) /\ IsLog(K) /\ more = Replay(got, e)
    BY <1>2, <1>3, <1>5, <1>7, OneMore
  <1>9. None \notin Nat
    BY RecoveryAssumption
  <1>10. PICK stale, u, g : /\ stale = ReduceEvidence(got.state, e).stale /\ g = got.engine
                            /\ u = Update(g, e, stale)
    OBVIOUS
  <1>11. /\ more.engine = u.engine /\ more.due = got.due \cup u.out
         /\ more.state = got.state /\ IsReplay(more)
    <2>1. ReduceEvidence(got.state, e) = got.state
      BY <1>4, <1>7, ReduceIdle DEF Held
    <2> QED
      BY <1>4, <1>8, <1>10, <2>1 DEF Replay, IsReplay
  <1>12. Shaped(K, u.engine) /\ \A c \in u.out : IsCandidate(c)
    <2>1. \A s \in g.streaks : ~Over(s, e) => AtEvent(s, e)
      BY <1>7, <1>9, <1>10, SitedFits DEF Placed
    <2> QED
      BY <1>4, <1>7, <1>8, <1>9, <1>10, <2>1, EventShapes DEF Placed
  <1>13. OnlyEnds(u, g, e)
    <2>1. Novel(g, e)
      BY <1>7, <1>9, <1>10, FreshId DEF Placed
    <2>2. e.kind \in Quiet
      BY <1>4 DEF Quiet
    <2> QED
      BY <1>7, <1>10, <2>1, <2>2, QuietUpdate DEF Placed, Shaped
  <1>14. Sited(u.engine, turn, epoch)
    BY <1>7, <1>10, <1>13 DEF Placed, Sited, OnlyEnds, Kept
  <1>15. Rooted(K, u.engine, turn, epoch)
    <2>1. CASE Bare(g)
      BY <1>13, <2>1 DEF Rooted, Bare, OnlyEnds, Kept
    <2>2. CASE ~Bare(g)
      <3>1. \A i \in EventsOf(J) : i \in EventsOf(K) /\ K[i] = J[i]
        BY <1>7, <1>8, EventsStay
      <3>2. PICK i \in EventsOf(J) :
                    J[i].kind \notin Terminal /\ J[i].turn = turn /\ J[i].epoch = epoch
        BY <1>7, <1>10, <2>2 DEF Placed, Rooted
      <3> QED
        BY <3>1, <3>2 DEF Rooted
    <2> QED
      BY <2>1, <2>2
  <1>16. Placed(K, more.engine, turn, epoch) /\ Placed(K, engine, turn, epoch)
    BY <1>7, <1>8, <1>11, <1>12, <1>14, <1>15, PlacedStays DEF Placed
  <1>17. RecoveryBase'
    BY <1>5, <1>6, <1>7, <1>8, <1>11, <1>12, <1>16 DEF RecoveryBase, RecoveryInv
  <1>18. ASSUME Len(J) + 1 \notin LateIn(K)
         PROVE  Sited(g, e.turn, e.epoch) /\ Same(u.engine, g) /\ u.out = {}
    <2>1. Sited(g, e.turn, e.epoch)
      BY <1>4, <1>7, <1>8, <1>10, <1>18, PunctualSited
    <2>2. Novel(g, e) /\ \A s \in g.streaks : s.family \in Families
      BY <1>7, <1>9, <1>10, FreshId DEF Placed, Shaped
    <2> QED
      BY <1>4, <1>10, <2>1, <2>2, ControlUpdate
  <1>19. e.kind \notin Terminal
    BY <1>4 DEF Terminal
  <1>20. EnginesAgree'
    <2>1. ASSUME SettledIn(K) PROVE Same(engine, more.engine)
      <3>1. SettledIn(J)
        BY <1>7, <1>8, <1>19, <2>1, LateStays
      <3>2. \A j \in EventsOf(K) : ~(Len(J) + 1 < j)
        <4>1. Len(J) \in Nat
          BY <1>7, <1>8, LogAppend
        <4>2. \A j \in EventsOf(K) : j \in Nat /\ j <= Len(J) + 1
          BY <1>7, <1>8, <4>1, LogAppend DEF EventsOf
        <4> QED
          BY <4>1, <4>2
      <3>3. Len(J) + 1 \notin LateIn(K)
        BY <2>1, <3>2 DEF SettledIn
      <3>4. Same(engine, g)
        BY <1>5, <1>6, <1>10, <3>1 DEF RecoveryInv, EnginesAgree
      <3> QED
        BY <1>11, <1>18, <3>3, <3>4 DEF Same
    <2> QED
      BY <1>5, <1>6, <2>1 DEF EnginesAgree
  <1>21. ASSUME LateIn(K) = {} PROVE Fits(K, more) /\ Once(K) /\ due = more.due
    <2>1. LateIn(J) = {}
      BY <1>7, <1>8, <1>21, LateStays
    <2>2. Fits(J, got) /\ Once(J) /\ due = got.due
      BY <1>5, <1>6, <2>1 DEF RecoveryInv, ToldRight
    <2>3. Sited(got.engine, e.turn, e.epoch)
      BY <1>10, <1>18, <1>21
    <2>4. Unmoved(K, more, got)
      BY <1>4, <1>7, <1>8, <1>9, <2>2, <2>3, ControlFits
    <2>5. Once(K)
      BY <1>4, <1>7, <1>8, <2>2, EventOnce
    <2> QED
      BY <2>2, <2>4, <2>5 DEF Unmoved
  <1>22. ToldRight'
    BY <1>5, <1>6, <1>21 DEF ToldRight
  <1> QED
    BY <1>17, <1>20, <1>22 DEF RecoveryInv

\* Every action keeps the invariant.
LEMMA RecoveryStep == ASSUME RecoveryInv, [SignalNext]_signalVars PROVE RecoveryInv'
  <1>0. turn \in Nat /\ epoch \in Nat /\ turn <= turn /\ epoch <= epoch
    BY DEF RecoveryInv, RecoveryBase
  <1>1. CASE \E e \in Alphabet : Observe(e)
    BY <1>1, ObserveStep
  <1>2. CASE EndTurn
    <2>1. PICK e : e = Plain("turn_completed")
      OBVIOUS
    <2>2. Record(e) /\ MoveTo(turn + 1, epoch)
      BY <1>2, <2>1 DEF EndTurn
    <2>3. IsEvent(e) /\ e.id = Count(journal) + 1 /\ e.kind = "turn_completed" /\ e.epoch = epoch
      BY <2>1, PlainIs
    <2>4. e.kind \in Terminal /\ e.kind \in Quiet
      BY <2>3 DEF Terminal, Quiet
    <2>5. turn + 1 \in Nat /\ turn <= turn + 1
      BY <1>0
    <2> QED
      BY <1>0, <2>2, <2>3, <2>4, <2>5, BoundaryStep
  <1>3. CASE Reconnect
    <2>1. PICK q, e : q = Plain("observation_gap") /\ e = [q EXCEPT !.epoch = epoch + 1]
      OBVIOUS
    <2>2. Record(e) /\ MoveTo(turn, epoch + 1)
      BY <1>3, <2>1 DEF Reconnect
    <2>3. /\ IsEvent(q) /\ q.id = Count(journal) + 1 /\ q.kind = "observation_gap"
          /\ DOMAIN q = DOMAIN Blank
      BY <2>1, PlainIs
    <2>4. /\ IsEvent(e) /\ e.id = Count(journal) + 1 /\ e.kind = "observation_gap"
          /\ e.epoch = epoch + 1
      BY <2>1, <2>3 DEF IsEvent, Blank
    <2>5. e.kind \in Terminal /\ e.kind \in Quiet
      BY <2>4 DEF Terminal, Quiet
    <2>6. epoch + 1 \in Nat /\ epoch <= epoch + 1
      BY <1>0
    <2> QED
      BY <1>0, <2>2, <2>4, <2>5, <2>6, BoundaryStep
  <1>4. CASE LateReview
    <2>1. PICK q, e : q = Plain("reviewer_decision") /\ e = [q EXCEPT !.turn = turn - 1]
      OBVIOUS
    <2>2. Record(e) /\ MoveTo(turn, epoch)
      BY <1>4, <2>1 DEF LateReview
    <2>3. /\ IsEvent(q) /\ q.id = Count(journal) + 1 /\ q.kind = "reviewer_decision"
          /\ DOMAIN q = DOMAIN Blank /\ q.epoch = epoch
      BY <2>1, PlainIs
    <2>4. /\ IsEvent(e) /\ e.id = Count(journal) + 1 /\ e.kind = "reviewer_decision"
          /\ e.turn = turn - 1 /\ e.epoch = epoch
      BY <2>1, <2>3 DEF IsEvent, Blank
    <2>5. e.kind \in Quiet /\ e.turn # turn
      BY <1>0, <2>4 DEF Quiet
    <2> QED
      BY <1>0, <2>2, <2>4, <2>5, BoundaryStep
  <1>5. CASE Derive
    BY <1>5, DeriveStep
  <1>6. CASE Telemetry
    BY <1>6, TelemetryStep
  <1>7. CASE Crash
    <2>1. /\ up' = FALSE /\ due' = {} /\ UNCHANGED <<journal, turn, epoch, targets>>
      BY <1>7 DEF Crash
    <2> QED
      BY <2>1 DEF RecoveryInv, RecoveryBase, EnginesAgree, ToldRight
  <1>8. CASE Boot
    <2>1. PICK got : got = HydratedJournal(journal)
      OBVIOUS
    <2>2. /\ engine' = got.engine /\ state' = got.state /\ due' = got.due /\ up'
          /\ UNCHANGED <<journal, turn, epoch, targets, crashes>>
      BY <1>8, <2>1 DEF Boot
    <2>3. RecoveryBase'
      BY <1>0, <2>1, <2>2 DEF RecoveryInv, RecoveryBase
    <2>4. EnginesAgree' /\ ToldRight'
      BY <2>1, <2>2 DEF RecoveryInv, EnginesAgree, ToldRight, Same
    <2> QED
      BY <2>3, <2>4 DEF RecoveryInv
  <1>9. CASE UNCHANGED signalVars
    BY <1>9 DEF signalVars, RecoveryInv, RecoveryBase, EnginesAgree, ToldRight
  <1> QED
    BY <1>1, <1>2, <1>3, <1>4, <1>5, <1>6, <1>7, <1>8, <1>9 DEF SignalNext, Agent, Daemon

\* An empty journal agrees with a fresh engine.
LEMMA RecoveryInit == ASSUME SignalInit PROVE RecoveryInv
  <1>1. HydratedJournal(journal) = Empty /\ journal = <<>>
    BY HydratedEmpty DEF SignalInit
  <1>2. Empty.engine = Fresh /\ Empty.state = NoEvidence /\ Empty.due = {}
    BY DEF Empty
  <1>3. Placed(<<>>, Fresh, 1, 1)
    BY <1>2, Start DEF Placed, Fits, Rooted, Sited, Bare
  <1>4. RecoveryBase
    BY <1>1, <1>2, <1>3, Start DEF RecoveryBase, SignalInit
  <1>5. EnginesAgree /\ ToldRight
    BY <1>1, <1>2, Start DEF EnginesAgree, ToldRight, SignalInit, Same
  <1> QED
    BY <1>4, <1>5 DEF RecoveryInv

\* The inductive invariant.
LEMMA RecoverySafe == SignalSpec => []RecoveryInv
  <1>1. SignalInit => RecoveryInv
    BY RecoveryInit
  <1>2. RecoveryInv /\ [SignalNext]_signalVars => RecoveryInv'
    BY RecoveryStep
  <1> QED
    BY <1>1, <1>2, PTL DEF SignalSpec

\* Late is LateIn of the journal.
LEMMA LateIs == Late = LateIn(journal) /\ Events = EventsOf(journal)
  BY DEF Late, LateIn, Events, EventsOf

\* In the journal of a thread a streak is announced once and ends once, whatever is journaled
\* and whenever the daemon dies between a step of SignalEngine and the record of its candidates,
\* as long as no telemetry came after an event of a later turn or connection than its control's.
THEOREM AnnouncedIsOnce == SignalSpec => []AnnouncedOnce
  <1>1. RecoveryInv => AnnouncedOnce
    <2> SUFFICES ASSUME RecoveryInv, Late = {} PROVE AnnouncedOnce
      BY DEF AnnouncedOnce
    <2>1. Once(journal)
      BY LateIs DEF RecoveryInv, ToldRight
    <2>2. /\ DOMAIN journal \ Events = CandidatesOf(journal)
          /\ \A signal : ToldIn(journal, signal) =
                {i \in DOMAIN journal \ Events : journal[i].signal = signal}
      BY DEF Events, EventsOf, CandidatesOf, ToldIn
    <2> SUFFICES ASSUME NEW signal,
                        NEW i \in ToldIn(journal, signal)
                 PROVE  /\ (\A j \in ToldIn(journal, signal) : i <= j)
                           <=> journal[i].status = "active"
                        /\ (\E j \in ToldIn(journal, signal) : i < j)
                           => journal[i].status \in {"active", "cooled_down"}
      BY <2>2 DEF AnnouncedOnce
    <2>3. i \in CandidatesOf(journal) /\ journal[i].signal = signal
      BY DEF ToldIn
    <2> QED
      BY <2>1, <2>3 DEF Once, Goes
  <1> QED
    BY <1>1, RecoverySafe, PTL

\* Between two events the live evidence is what hydrate() makes of the journal, whatever
\* telemetry came late; so is the live engine unless some came late since the last boundary,
\* and no candidate is missing unless some ever did.
THEOREM ReplayHasAll == SignalSpec => []ReplayAgrees
  <1>1. RecoveryInv => ReplayAgrees
    <2> SUFFICES ASSUME RecoveryInv, up, due = {}
                 PROVE  LET got == HydratedJournal(journal)
                        IN  /\ got.state = state
                            /\ (\A i \in Late :
                                   \E j \in Events : i < j /\ journal[j].kind \in Terminal)
                               => [got.engine EXCEPT !.seen = engine.seen] = engine
                            /\ Late = {} => got.due = {}
      BY DEF ReplayAgrees
    <2>1. PICK got, g : got = HydratedJournal(journal) /\ g = got.engine
      OBVIOUS
    <2>2. state = got.state /\ IsEngine(engine) /\ IsEngine(g)
      BY <2>1 DEF RecoveryInv, RecoveryBase, Placed, Shaped
    <2>3. Late = {} => got.due = {}
      BY <2>1, LateIs DEF RecoveryInv, ToldRight
    <2>4. ASSUME SettledIn(journal) PROVE [g EXCEPT !.seen = engine.seen] = engine
      <3>1. Same(engine, g)
        BY <2>1, <2>4 DEF RecoveryInv, EnginesAgree
      <3>2. PICK h : h = [g EXCEPT !.seen = engine.seen]
        OBVIOUS
      <3>3. DOMAIN g = EngineFields /\ DOMAIN engine = EngineFields
        BY <2>2 DEF IsEngine
      <3>4. DOMAIN h = EngineFields /\ \A x \in EngineFields : h[x] = engine[x]
        BY <3>1, <3>2, <3>3 DEF EngineFields, Same
      <3>5. h = engine
        BY <2>2, <3>2, <3>3, <3>4 DEF IsEngine
      <3> QED
        BY <3>2, <3>5
    <2>5. SettledIn(journal)
          <=> \A i \in Late : \E j \in Events : i < j /\ journal[j].kind \in Terminal
      BY LateIs DEF SettledIn
    <2> QED
      BY <2>1, <2>2, <2>3, <2>4, <2>5
  <1> QED
    BY <1>1, RecoverySafe, PTL
================================================================================

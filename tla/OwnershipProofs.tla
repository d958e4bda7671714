---------------------------- MODULE OwnershipProofs ----------------------------
(***************************************************************************)
(* What Spotter makes it keeps account of, and what the user makes it      *)
(* leaves alone: no log of the user's is emptied, no worktree is           *)
(* forgotten, and purge deletes only what nothing needs, for any number of *)
(* logs, processes, repositories, places, snapshots, forks and moves.      *)
(***************************************************************************)
EXTENDS LogOwnership, ForkOwnership, FiniteSetTheorems, TLAPS

(***************************************************************************)
(* Logs.  A log is emptied by its identity path, so it is enough that no   *)
(* identity path ever leads to a file of the user's.  The inode it leads   *)
(* to has a name and is not used again; the danger is the time between the *)
(* creation of a log and the second name it is given.                      *)
(***************************************************************************)
LogSteps == Claiming \cup {"idle", "granted", "refused", "writing", "purging"}
AtPath == Claiming \cup {"granted", "refused"}
Makings == [inode : Inodes \cup {NoInode}, gen : 0 .. MaxGen]

LogTypes ==
    /\ path \in [Logs -> Inodes \cup {NoInode}]
    /\ anchor \in [Generations -> Inodes \cup {NoInode}]
    /\ maker \in [Inodes -> {NoInode, "spotter", "user", "copy"}]
    /\ records \in SUBSET Records /\ generation \in 0 .. MaxGen
    /\ pc \in [Proc -> LogSteps]
    /\ log = [p \in Proc |-> log[p]]
    /\ seen \in [Proc -> SUBSET Records]
    /\ made \in [Proc -> Makings]
    /\ \A p \in Proc : /\ pc[p] \in AtPath => log[p] \in Logs
                       /\ pc[p] \in {"link", "save"} => made[p].inode \in Inodes
                       /\ pc[p] = "save" => made[p].gen \in Generations
    /\ raced \in BOOLEAN

\* What the identity paths lead to, and the paths of logs not yet given theirs.
Recorders == {p \in Proc : pc[p] \in {"created", "link"}}
Identities == {anchor[g] : g \in Generations} \cup {path[log[p]] : p \in Recorders}
Foreign(i, by) == i \in Inodes /\ by[i] = "user"
IdentitiesOwn == raced \/ \A i \in Identities : ~Foreign(i, maker)

LEMMA LogInit == Init => LogTypes /\ IdentitiesOwn
<1>. SUFFICES ASSUME Init PROVE LogTypes /\ IdentitiesOwn
  OBVIOUS
<1>1. LogTypes
  <2>1. Unmade \in Makings
    BY LogAssumption DEF Unmade, Makings
  <2>2. "idle" \in LogSteps /\ "idle" \notin AtPath
    BY DEF LogSteps, AtPath, Claiming
  <2>3. log = [p \in Proc |-> log[p]] /\ generation \in 0 .. MaxGen
    BY LogAssumption DEF Init
  <2>. QED
    BY <2>1, <2>2, <2>3 DEF Init, LogTypes
<1>2. IdentitiesOwn
  BY LogAssumption DEF Init, IdentitiesOwn, Identities, Recorders, Foreign
<1>. QED
  BY <1>1, <1>2

\* A process that goes on.
LEMMA GoesTo ==
    ASSUME LogTypes, NEW p \in Proc, NEW where \in LogSteps, Goto(p, where)
    PROVE  pc' \in [Proc -> LogSteps] /\ pc'[p] = where /\ \A q \in Proc : q # p => pc'[q] = pc[q]
BY DEF LogTypes, Goto

\* What a process that goes on must see to: its own part of the types.
LEMMA OwnTypes ==
    ASSUME LogTypes, NEW p \in Proc, NEW where \in LogSteps, Goto(p, where), log' = log,
           path' \in [Logs -> Inodes \cup {NoInode}],
           anchor' \in [Generations -> Inodes \cup {NoInode}],
           maker' \in [Inodes -> {NoInode, "spotter", "user", "copy"}],
           records' \in SUBSET Records, generation' \in 0 .. MaxGen,
           seen' \in [Proc -> SUBSET Records],
           made' \in [Proc -> Makings], \A q \in Proc : q # p => made'[q] = made[q],
           where \in AtPath => log[p] \in Logs,
           where \in {"link", "save"} => made'[p].inode \in Inodes,
           where = "save" => made'[p].gen \in Generations,
           raced' = raced
    PROVE  LogTypes'
<1>1. pc' \in [Proc -> LogSteps] /\ pc'[p] = where /\ \A q \in Proc : q # p => pc'[q] = pc[q]
  BY GoesTo
<1>. QED
  BY <1>1 DEF LogTypes

\* Another thing made.
LEMMA MadeType ==
    ASSUME LogTypes, NEW p \in Proc, NEW m \in Makings, made' = [made EXCEPT ![p] = m]
    PROVE  made' \in [Proc -> Makings] /\ made'[p] = m /\ \A q \in Proc : q # p => made'[q] = made[q]
BY DEF LogTypes

LEMMA LogTypesStep == LogTypes /\ [Next]_vars => LogTypes'
<1>. SUFFICES ASSUME LogTypes, [Next]_vars PROVE LogTypes'
  OBVIOUS
<1>. USE DEF files, registry, process, Outside
<1>0. /\ Unmade \in Makings /\ {} \in SUBSET Records
      /\ made \in [Proc -> Makings] /\ seen \in [Proc -> SUBSET Records]
      /\ {"idle", "granted", "refused", "writing", "purging"} \cup Claiming \subseteq LogSteps
      /\ AtPath = Claiming \cup {"granted", "refused"}
      /\ \A p \in Proc : pc[p] \in AtPath => log[p] \in Logs
  BY LogAssumption DEF LogTypes, Makings, Unmade, LogSteps, AtPath
<1>1. CASE UNCHANGED vars
  BY <1>1 DEF vars, LogTypes
<1>2. ASSUME NEW p \in Proc, NEW l \in Logs, BeginClaim(p, l) PROVE LogTypes'
  <2>1. /\ log' = [log EXCEPT ![p] = l]
        /\ UNCHANGED <<path, anchor, maker, records, generation, raced, made>>
        /\ seen' \in {seen, [seen EXCEPT ![p] = records]}
        /\ \E where \in {"claim", "refused"} : Goto(p, where)
    BY <1>2 DEF BeginClaim
  <2>2. /\ log'[p] = l /\ pc'[p] \in {"claim", "refused"} /\ pc' \in [Proc -> LogSteps]
        /\ \A q \in Proc : q # p => pc'[q] = pc[q] /\ log'[q] = log[q]
        /\ log' = [q \in Proc |-> log'[q]]
    BY <2>1, GoesTo DEF LogTypes, LogSteps, Claiming
  <2>3. seen' \in [Proc -> SUBSET Records]
    BY <2>1 DEF LogTypes
  <2>. QED
    BY <2>1, <2>2, <2>3 DEF LogTypes
<1>3. ASSUME NEW p \in Proc, NEW owned \in BOOLEAN, Answer(p, owned), pc[p] \in Claiming,
             path' \in [Logs -> Inodes \cup {NoInode}],
             UNCHANGED <<anchor, maker, generation, raced>>, records' \in SUBSET Records
      PROVE  LogTypes'
  <2>. DEFINE where == IF owned THEN "granted" ELSE "refused"
  <2>1. /\ where \in LogSteps /\ where \notin {"link", "save"} /\ where \in AtPath
        /\ Goto(p, where) /\ log' = log /\ seen' = seen /\ made' = [made EXCEPT ![p] = Unmade]
    BY <1>0, <1>3 DEF Answer
  <2>. HIDE DEF where
  <2>. QED
    BY <1>0, <1>3, <2>1, MadeType, OwnTypes DEF LogTypes
<1>4. ASSUME NEW p \in Proc, Verify(p) \/ RelinkRefused(p) \/ CreateRefused(p) PROVE LogTypes'
  <2>1. pc[p] \in Claiming /\ \E owned \in BOOLEAN : Answer(p, owned)
    BY <1>4 DEF Verify, RelinkRefused, CreateRefused, Claiming
  <2>. QED
    BY <1>3, <1>4, <2>1 DEF Verify, RelinkRefused, CreateRefused, LogTypes
<1>5. ASSUME NEW p \in Proc, Relink(p) PROVE LogTypes'
  <2>1. PICK r \in Existing(p) : Anchored(r) /\ path' = [path EXCEPT ![log[p]] = r.inode]
    BY <1>5 DEF Relink
  <2>2. r \in Records
    BY <2>1 DEF Existing, LogTypes
  <2>3. path' \in [Logs -> Inodes \cup {NoInode}]
    BY <2>1, <2>2 DEF LogTypes, Records
  <2>. QED
    BY <1>3, <1>5, <2>3 DEF Relink, Claiming, LogTypes
<1>6. ASSUME NEW p \in Proc, ClaimNew(p) PROVE LogTypes'
  <2>1. "create" \in LogSteps /\ pc[p] \in AtPath /\ Goto(p, "create")
    BY <1>6 DEF ClaimNew, LogSteps, Claiming, AtPath
  <2>. QED
    BY <1>0, <1>6, <2>1, OwnTypes DEF ClaimNew, LogTypes
<1>7. ASSUME NEW p \in Proc, Create(p) PROVE LogTypes'
  <2>1. "created" \in LogSteps /\ pc[p] \in AtPath
    BY <1>7 DEF Create, LogSteps, Claiming, AtPath
  <2>2. PICK i \in Inodes : /\ path' = [path EXCEPT ![log[p]] = i]
                            /\ maker' = [maker EXCEPT ![i] = "spotter"]
    BY <1>7 DEF Create
  <2>3. /\ path' \in [Logs -> Inodes \cup {NoInode}]
        /\ maker' \in [Inodes -> {NoInode, "spotter", "user", "copy"}]
    BY <2>2 DEF LogTypes
  <2>. QED
    BY <1>0, <1>7, <2>1, <2>3, OwnTypes DEF Create, LogTypes
<1>8. ASSUME NEW p \in Proc, Stat(p) PROVE LogTypes'
  <2>1. pc[p] \in Claiming /\ pc[p] \in AtPath /\ "link" \in LogSteps /\ log[p] \in Logs
    BY <1>8 DEF Stat, Claiming, AtPath, LogSteps, LogTypes
  <2>2. CASE Target(p) = NoInode
    BY <1>3, <1>8, <2>1, <2>2 DEF Stat, LogTypes
  <2>3. CASE Target(p) # NoInode
    <3>. DEFINE m == [inode |-> Target(p), gen |-> 0]
    <3>1. m \in Makings /\ m.inode \in Inodes
      BY <2>1, <2>3, LogAssumption DEF Makings, Target, LogTypes
    <3>2. Goto(p, "link") /\ made' = [made EXCEPT ![p] = m] /\ log' = log /\ seen' = seen
          /\ UNCHANGED <<path, anchor, maker, records, generation, raced>>
      BY <1>8, <2>3 DEF Stat
    <3>. HIDE DEF m
    <3>. QED
      BY <1>0, <2>1, <3>1, <3>2, MadeType, OwnTypes DEF LogTypes
  <2>. QED
    BY <2>2, <2>3
<1>9. ASSUME NEW p \in Proc, Link(p) PROVE LogTypes'
  <2>1. pc[p] \in Claiming /\ pc[p] \in AtPath /\ "save" \in LogSteps /\ log[p] \in Logs
        /\ made[p].inode \in Inodes /\ made[p] \in Makings
    BY <1>9 DEF Link, Claiming, AtPath, LogSteps, LogTypes
  <2>2. CASE Target(p) = NoInode
    BY <1>3, <1>9, <2>1, <2>2 DEF Link, LogTypes
  <2>3. CASE Target(p) # NoInode
    <3>. DEFINE m == [inode |-> made[p].inode, gen |-> generation + 1]
    <3>1. /\ generation + 1 \in Generations /\ generation + 1 \in 0 .. MaxGen
          /\ m \in Makings /\ m.inode \in Inodes /\ m.gen \in Generations
      BY <1>9, <2>1, LogAssumption DEF Makings, Link, LogTypes, Generations
    <3>2. /\ Goto(p, "save") /\ log' = log /\ seen' = seen
          /\ UNCHANGED <<path, maker, records, raced>> /\ generation' = generation + 1
          /\ anchor' = [anchor EXCEPT ![generation + 1] = Target(p)]
          /\ made' = [made EXCEPT ![p].gen = generation + 1]
      BY <1>9, <2>3 DEF Link
    <3>3. made' = [made EXCEPT ![p] = m]
      <4>1. [made[p] EXCEPT !.gen = generation + 1] = m
        BY <2>1 DEF Makings
      <4>2. made' = [made EXCEPT ![p] = [made[p] EXCEPT !.gen = generation + 1]]
        BY <3>2
      <4>. QED
        BY <4>1, <4>2
    <3>4. anchor' \in [Generations -> Inodes \cup {NoInode}]
      BY <2>1, <3>2 DEF LogTypes, Target
    <3>. HIDE DEF m
    <3>. QED
      BY <1>0, <2>1, <3>1, <3>2, <3>3, <3>4, MadeType, OwnTypes DEF LogTypes
  <2>. QED
    BY <2>2, <2>3
<1>10. ASSUME NEW p \in Proc, Save(p) PROVE LogTypes'
  <2>1. /\ pc[p] \in Claiming /\ log[p] \in Logs
        /\ made[p].inode \in Inodes /\ made[p].gen \in Generations
    BY <1>10 DEF Save, Claiming, AtPath, LogTypes
  <2>2. records' \in SUBSET Records
    BY <1>10, <2>1 DEF Save, Replaced, Records, LogTypes
  <2>. QED
    BY <1>3, <1>10, <2>1, <2>2 DEF Save, LogTypes
<1>11. ASSUME NEW p \in Proc, Open(p) PROVE LogTypes'
  <2>1. "writing" \in LogSteps /\ "writing" \notin AtPath /\ pc[p] \in AtPath
    BY <1>11 DEF Open, LogSteps, Claiming, AtPath
  <2>2. /\ path' \in [Logs -> Inodes \cup {NoInode}]
        /\ maker' \in [Inodes -> {NoInode, "spotter", "user", "copy"}]
    BY <1>11 DEF Open, LogTypes
  <2>. QED
    BY <1>0, <1>11, <2>1, <2>2, OwnTypes DEF Open, LogTypes
<1>12. ASSUME NEW p \in Proc, Append(p) \/ \E r \in Records : Clear(p, r) PROVE LogTypes'
  BY <1>12 DEF Append, Clear, LogTypes
<1>13. ASSUME NEW p \in Proc, Exit(p) PROVE LogTypes'
  <2>1. "idle" \in LogSteps /\ "idle" \notin AtPath
    BY DEF LogSteps, Claiming, AtPath
  <2>2. seen' \in [Proc -> SUBSET Records]
    BY <1>13 DEF Exit, LogTypes
  <2>. QED
    BY <1>0, <1>13, <2>1, <2>2, MadeType, OwnTypes DEF Exit, LogTypes
<1>14. ASSUME NEW p \in Proc, Plan(p) PROVE LogTypes'
  <2>1. "purging" \in LogSteps /\ "purging" \notin AtPath
    BY DEF LogSteps, Claiming, AtPath
  <2>. QED
    BY <1>0, <1>14, <2>1, OwnTypes DEF Plan, LogTypes
<1>15. ASSUME NEW l \in Logs, UserDeletes(l) \/ UserReplaces(l) PROVE LogTypes'
  BY <1>15, ZenonT(40) DEF UserDeletes, UserReplaces, LogTypes, Recording
<1>16. ASSUME NEW g \in Generations, UserDeletesAnchor(g) \/ UserRestoresAnchor(g) PROVE LogTypes'
  BY <1>16, ZenonT(40) DEF UserDeletesAnchor, UserRestoresAnchor, LogTypes, Recording
<1>. QED
  BY <1>1, <1>2, <1>4, <1>5, <1>6, <1>7, <1>8, <1>9, <1>10, <1>11, <1>12, <1>13, <1>14, <1>15, <1>16
  DEF Next

\* A step that makes no file of the user's, and gives no file of theirs a name of Spotter's.
LEMMA NoneNamed ==
    ASSUME IdentitiesOwn, raced => raced',
           \A i : Foreign(i, maker') => Foreign(i, maker),
           \A i \in Identities' : i \in Identities \/ ~Foreign(i, maker')
    PROVE  IdentitiesOwn'
BY DEF IdentitiesOwn

\* A step that makes no file and names none.
LEMMA FilesKept ==
    ASSUME IdentitiesOwn, UNCHANGED <<path, anchor, maker, raced>>,
           \A p \in Proc : pc'[p] \in {"created", "link"} =>
               pc[p] \in {"created", "link"} /\ log'[p] = log[p]
    PROVE  IdentitiesOwn'
<1>1. Identities' \subseteq Identities
  BY DEF Identities, Recorders
<1>. QED
  BY <1>1, NoneNamed

\* Between its creation and its second name a log is nobody else's.
LEMMA IdentitiesStep == LogTypes /\ IdentitiesOwn /\ [Next]_vars => IdentitiesOwn'
<1>. SUFFICES ASSUME LogTypes, IdentitiesOwn, [Next]_vars PROVE IdentitiesOwn'
  OBVIOUS
<1>. USE DEF files, registry, process, Outside
<1>1. CASE UNCHANGED vars
  BY <1>1, FilesKept DEF vars
<1>2. ASSUME NEW p \in Proc,
             \/ \E l \in Logs : BeginClaim(p, l)
             \/ Verify(p) \/ RelinkRefused(p) \/ ClaimNew(p) \/ CreateRefused(p) \/ Stat(p) \/ Save(p)
             \/ Exit(p) \/ Plan(p)
      PROVE  IdentitiesOwn'
  <2>1. /\ UNCHANGED <<path, anchor, maker, raced>>
        /\ log' = log \/ (pc[p] = "idle" /\ \E l \in Logs : log' = [log EXCEPT ![p] = l])
        /\ \E where \in LogSteps :
              /\ Goto(p, where)
              /\ where \in {"created", "link"} => pc[p] \in {"created", "link"} /\ log' = log
    BY <1>2 DEF BeginClaim, Verify, RelinkRefused, ClaimNew, CreateRefused, Stat, Save, Exit, Plan, Answer,
                LogSteps, Claiming
  <2>2. \A q \in Proc : q # p => log'[q] = log[q]
    BY <2>1 DEF LogTypes
  <2>3. \A q \in Proc : pc'[q] \in {"created", "link"} => pc[q] \in {"created", "link"} /\ log'[q] = log[q]
    BY <2>1, <2>2, GoesTo
  <2>. QED
    BY <2>1, <2>3, FilesKept
<1>3. ASSUME NEW p \in Proc, Append(p) \/ \E r \in Records : Clear(p, r) PROVE IdentitiesOwn'
  <2>1. UNCHANGED <<path, anchor, maker, raced, pc, log>>
    BY <1>3 DEF Append, Clear
  <2>. QED
    BY <2>1, FilesKept
<1>4. ASSUME NEW p \in Proc, Relink(p) PROVE IdentitiesOwn'
  <2>1. PICK r \in Existing(p) : Anchored(r) /\ path' = [path EXCEPT ![log[p]] = r.inode]
    BY <1>4 DEF Relink
  <2>2. r.gen \in Generations /\ anchor[r.gen] \in Identities /\ r.inode = anchor[r.gen]
    BY <2>1 DEF Existing, LogTypes, Records, Identities, Anchored
  <2>3. /\ UNCHANGED <<anchor, maker, raced, log>>
        /\ \E where \in {"granted", "refused"} : Goto(p, where)
    BY <1>4 DEF Relink, Answer
  <2>4. Recorders' \subseteq Recorders
    BY <2>3, GoesTo DEF Recorders, LogSteps
  <2>5. \A q \in Recorders : log[q] \in Logs
    BY DEF Recorders, LogTypes, AtPath, Claiming
  <2>6. \A q \in Recorders' : path'[log'[q]] \in {path[log[q]], r.inode}
    BY <2>1, <2>3, <2>4, <2>5 DEF LogTypes
  <2>7. Identities' \subseteq Identities
    BY <2>2, <2>3, <2>4, <2>6 DEF Identities
  <2>. QED
    BY <2>3, <2>7, NoneNamed
<1>5. ASSUME NEW p \in Proc, Create(p) \/ Open(p) PROVE IdentitiesOwn'
  <2>1. /\ UNCHANGED <<anchor, log, raced>>
        /\ \/ UNCHANGED <<path, maker>>
           \/ \E i \in Inodes : /\ maker' = [maker EXCEPT ![i] = "spotter"]
                                /\ path' = [path EXCEPT ![log[p]] = i]
        /\ \/ Goto(p, "created") /\ \E i \in Inodes : /\ maker' = [maker EXCEPT ![i] = "spotter"]
                                                       /\ path' = [path EXCEPT ![log[p]] = i]
           \/ Goto(p, "writing")
        /\ pc[p] \in AtPath
    BY <1>5 DEF Create, Open, AtPath, Claiming
  <2>2. "created" \in LogSteps /\ "writing" \in LogSteps
    BY DEF LogSteps, Claiming
  <2>3. \A q \in Recorders' \ {p} : q \in Recorders
    BY <2>1, <2>2, GoesTo DEF Recorders
  <2>4. \A q \in Recorders' : log[q] \in Logs
    BY <2>1, <2>3 DEF Recorders, LogTypes, AtPath, Claiming
  <2>5. CASE UNCHANGED <<path, maker>> /\ Goto(p, "writing")
    <3>1. p \notin Recorders'
      BY <2>2, <2>5, GoesTo DEF Recorders
    <3>2. Identities' \subseteq Identities
      BY <2>1, <2>3, <2>5, <3>1 DEF Identities
    <3>. QED
      BY <2>1, <2>5, <3>2, NoneNamed
  <2>6. ASSUME NEW i \in Inodes, maker' = [maker EXCEPT ![i] = "spotter"],
               path' = [path EXCEPT ![log[p]] = i]
        PROVE  IdentitiesOwn'
    <3>1. \A j : Foreign(j, maker') => Foreign(j, maker) /\ j # i
      BY <2>6 DEF LogTypes, Foreign
    <3>2. \A q \in Recorders' : path'[log[q]] = i \/ (q \in Recorders /\ path'[log[q]] = path[log[q]])
      BY <2>3, <2>4, <2>6 DEF LogTypes
    <3>3. \A j \in Identities' : j \in Identities \/ j = i
      BY <2>1, <3>2 DEF Identities
    <3>. QED
      BY <2>1, <3>1, <3>3, NoneNamed
  <2>. QED
    BY <2>1, <2>5, <2>6
<1>6. ASSUME NEW p \in Proc, Link(p) PROVE IdentitiesOwn'
  <2>1. /\ pc[p] = "link" /\ UNCHANGED <<path, maker, raced, log>>
        /\ \E where \in {"refused", "save"} : Goto(p, where)
        /\ \/ anchor' = anchor
           \/ anchor' = [anchor EXCEPT ![generation + 1] = path[log[p]]]
    BY <1>6 DEF Link, Answer, Target
  <2>2. Recorders' \subseteq Recorders /\ path[log[p]] \in Identities
    BY <2>1, GoesTo DEF Recorders, LogSteps, Claiming, Identities
  <2>3. \A g \in Generations : anchor'[g] \in {anchor[g], path[log[p]]}
    BY <2>1 DEF LogTypes
  <2>4. Identities' \subseteq Identities
    BY <2>1, <2>2, <2>3 DEF Identities
  <2>. QED
    BY <2>1, <2>4, NoneNamed
<1>7. ASSUME NEW l \in Logs, UserDeletes(l) PROVE IdentitiesOwn'
  <2>1. UNCHANGED <<anchor, maker, raced, log, pc>> /\ path' = [path EXCEPT ![l] = NoInode]
    BY <1>7 DEF UserDeletes
  <2>2. \A q \in Recorders : log[q] \in Logs
    BY DEF Recorders, LogTypes, AtPath, Claiming
  <2>3. \A q \in Recorders : path'[log[q]] \in {path[log[q]], NoInode}
    BY <2>1, <2>2 DEF LogTypes
  <2>4. Recorders' = Recorders
    BY <2>1 DEF Recorders
  <2>5. \A i \in Identities' : i \in Identities \/ i = NoInode
    BY <2>1, <2>3, <2>4 DEF Identities
  <2>6. \A i : Foreign(i, maker') => Foreign(i, maker) /\ i # NoInode
    BY <2>1, LogAssumption DEF Foreign
  <2>. QED
    BY <2>1, <2>5, <2>6, NoneNamed
<1>8. ASSUME NEW l \in Logs, UserReplaces(l) PROVE IdentitiesOwn'
  <2>. SUFFICES ASSUME ~raced' PROVE \A i \in Identities' : ~Foreign(i, maker')
    BY DEF IdentitiesOwn
  <2>1. PICK i \in Inodes : Free(i) /\ maker' = [maker EXCEPT ![i] = "user"]
    BY <1>8 DEF UserReplaces
  <2>2. UNCHANGED <<anchor, pc>> /\ ~raced /\ Recorders = {}
    BY <1>8 DEF UserReplaces, Recording, Recorders
  <2>3. Identities' = {anchor[g] : g \in Generations}
    BY <2>2 DEF Identities, Recorders
  <2>4. \A g \in Generations : anchor[g] # i /\ ~Foreign(anchor[g], maker)
    BY <2>1, <2>2 DEF Free, IdentitiesOwn, Identities
  <2>5. \A j : j # i => (Foreign(j, maker') <=> Foreign(j, maker))
    BY <2>1 DEF LogTypes, Foreign
  <2>. QED
    BY <2>3, <2>4, <2>5
<1>9. ASSUME NEW g \in Generations, UserDeletesAnchor(g) PROVE IdentitiesOwn'
  <2>1. UNCHANGED <<path, maker, raced, log, pc>> /\ anchor' = [anchor EXCEPT ![g] = NoInode]
    BY <1>9 DEF UserDeletesAnchor
  <2>2. \A h \in Generations : anchor'[h] \in {anchor[h], NoInode}
    BY <2>1 DEF LogTypes
  <2>3. \A i \in Identities' : i \in Identities \/ i = NoInode
    BY <2>1, <2>2 DEF Identities, Recorders
  <2>4. \A i : Foreign(i, maker') => Foreign(i, maker) /\ i # NoInode
    BY <2>1, LogAssumption DEF Foreign
  <2>. QED
    BY <2>1, <2>3, <2>4, NoneNamed
<1>10. ASSUME NEW g \in Generations, UserRestoresAnchor(g) PROVE IdentitiesOwn'
  <2>1. PICK i \in Inodes : /\ anchor' = [anchor EXCEPT ![g] = i]
                            /\ maker' = [maker EXCEPT ![i] = "copy"]
    BY <1>10 DEF UserRestoresAnchor
  <2>2. UNCHANGED <<path, log, pc>> /\ (raced => raced')
    BY <1>10 DEF UserRestoresAnchor
  <2>3. \A h \in Generations : anchor'[h] \in {anchor[h], i}
    BY <2>1 DEF LogTypes
  <2>4. \A j \in Identities' : j \in Identities \/ j = i
    BY <2>2, <2>3 DEF Identities, Recorders
  <2>5. \A j : Foreign(j, maker') => Foreign(j, maker) /\ j # i
    BY <2>1 DEF LogTypes, Foreign
  <2>. QED
    BY <2>2, <2>4, <2>5, NoneNamed
<1>. QED
  BY <1>1, <1>2, <1>3, <1>4, <1>5, <1>6, <1>7, <1>8, <1>9, <1>10 DEF Next

\* LogRegistry: no file of the user's is ever emptied -- not by an inode that is used again, a
\* path that is replaced, a directory that is restored, nor a plan that is stale -- unless the user
\* put it at a log's path while that log was being recorded.
THEOREM NoFileOfTheUsersIsEmptied == Spec => UserFilesKept
<1>1. ASSUME LogTypes, IdentitiesOwn, [Next]_vars, ~raced, NEW i \in Inodes,
             maker[i] = "user", i \in bytes, maker'[i] = "user"
      PROVE  i \in bytes'
  <2>1. ASSUME NEW p \in Proc, NEW r \in Records, Clear(p, r) PROVE i \in bytes'
    <3>1. Anchored(r) => anchor[r.gen] \in Identities
      BY DEF Records, Identities
    <3>2. ~Foreign(i, maker) \/ i \notin Identities
      BY <1>1 DEF IdentitiesOwn
    <3>3. Anchored(r) => anchor[r.gen] # i
      BY <1>1, <3>1, <3>2 DEF Foreign
    <3>. QED
      BY <1>1, <2>1, <3>3 DEF Clear, Opened
  <2>2. ASSUME NEW p \in Proc, Create(p) \/ Open(p) PROVE i \in bytes'
    <3>1. bytes' = bytes \/ \E j \in Inodes : bytes' = bytes \ {j} /\ maker' = [maker EXCEPT ![j] = "spotter"]
      BY <2>2 DEF Create, Open
    <3>. QED
      BY <1>1, <3>1 DEF LogTypes
  <2>3. ASSUME NEW p \in Proc,
               \/ \E l \in Logs : BeginClaim(p, l)
               \/ Verify(p) \/ Relink(p) \/ RelinkRefused(p) \/ ClaimNew(p) \/ CreateRefused(p)
               \/ Stat(p) \/ Link(p) \/ Save(p) \/ Append(p) \/ Exit(p) \/ Plan(p)
        PROVE  i \in bytes'
    BY <1>1, <2>3 DEF BeginClaim, Verify, Relink, RelinkRefused, ClaimNew, CreateRefused, Stat, Link,
                      Save, Append, Exit, Plan, files
  <2>4. ASSUME NEW l \in Logs, UserDeletes(l) \/ UserReplaces(l) PROVE i \in bytes'
    BY <1>1, <2>4 DEF UserDeletes, UserReplaces
  <2>5. ASSUME NEW g \in Generations, UserDeletesAnchor(g) \/ UserRestoresAnchor(g) PROVE i \in bytes'
    BY <1>1, <2>5 DEF UserDeletesAnchor, UserRestoresAnchor
  <2>. QED
    BY <1>1, <2>1, <2>2, <2>3, <2>4, <2>5 DEF Next, vars, files
<1>2. LogTypes /\ IdentitiesOwn /\ [Next]_vars =>
          (~raced => \A i \in Inodes :
               maker[i] = "user" /\ i \in bytes /\ maker'[i] = "user" => i \in bytes')
  BY <1>1
<1>3. Spec => [](LogTypes /\ IdentitiesOwn)
  BY LogInit, LogTypesStep, IdentitiesStep, PTL DEF Spec
<1>. QED
  BY <1>2, <1>3, PTL DEF Spec, UserFilesKept

-----------------------------------------------------------------------------
(***************************************************************************)
(* Worktrees and refs.  What a purge forgets is exhausted when it forgets  *)
(* it, so the danger is the time between `git worktree add` and the        *)
(* record.  The invariant says what holds then: the worktree is fresh, and *)
(* Git still finds it where it was made, or the fork has lost it.          *)
(***************************************************************************)
Steps == {"none", "read", "creating", "added", "recorded", "failing", "ready", "running", "judged",
          "ended", "done"}
ForkRecords == [pc : Steps, path : Places \cup {Away}, snap : Snapshots \cup {Away}]
EntryRecords == [path : Places \cup {Away}, refs : SUBSET Snapshots, trees : SUBSET Forks]

\* Only the shapes that matter here.
OwnershipTypes ==
    /\ at \in [Repos -> Places \cup {Away}]
    /\ admin \in [Repos -> SUBSET Forks] /\ locked \in [Repos -> SUBSET Forks]
    /\ trees \subseteq Forks
    /\ home \in [Forks -> Places \cup {Away}]
    /\ entries \in [Repos -> EntryRecords]
    /\ fork \in [Forks -> ForkRecords]

\* Two repositories are never at one place.
OnePlace == \A r, s \in Repos : at[r] = at[s] /\ at[r] # Away => r = s

Before == {"none", "read", "creating"}

\* Before its record a fork's worktree is neither locked nor in the hands of a scorer.
Fresh == \A f \in Forks : fork[f].pc \in Before \cup {"added"} =>
             /\ f \notin scoring
             /\ \A r \in Repos : f \notin locked[r]

\* A worktree that waits for its record is where it was made.
Findable == \A f \in Forks : fork[f].pc = "added" /\ f \in trees \ lost =>
                /\ home[f] = fork[f].path
                /\ \E r \in Repos : at[r] = home[f] /\ at[r] # Away /\ f \in admin[r]

\* Whatever came after the record, or never came to a worktree.
Known == \A f \in trees \ lost : fork[f].pc # "added" =>
             \E r \in Repos : f \in admin[r] /\ f \in entries[r].trees

ForkInv ==
    /\ OwnershipTypes
    /\ OnePlace
    /\ Fresh
    /\ \A f \in Forks : fork[f].pc \in Before => f \notin trees
    /\ Findable
    /\ Known

-----------------------------------------------------------------------------
\* A fork that goes to another step changes nothing else.
LEMMA GoesType ==
    ASSUME OwnershipTypes, NEW f \in Forks, NEW step \in Steps, fork' = [fork EXCEPT ![f].pc = step]
    PROVE  /\ fork' \in [Forks -> ForkRecords]
           /\ fork'[f].pc = step /\ fork'[f].path = fork[f].path /\ fork'[f].snap = fork[f].snap
           /\ \A g \in Forks \ {f} : fork'[g] = fork[g]
<1>1. fork[f] \in ForkRecords /\ fork'[f] = [fork[f] EXCEPT !.pc = step]
  BY DEF OwnershipTypes
<1>2. /\ fork'[f] \in ForkRecords
      /\ fork'[f].pc = step /\ fork'[f].path = fork[f].path /\ fork'[f].snap = fork[f].snap
  BY <1>1 DEF ForkRecords
<1>. QED
  BY <1>2 DEF OwnershipTypes

\* A record of a repository only adds to its entry.
LEMMA RefType ==
    ASSUME OwnershipTypes, NEW r \in Repos, NEW x \in Snapshots, entries' = WithRef(r, x)
    PROVE  /\ entries' \in [Repos -> EntryRecords]
           /\ \A s \in Repos : entries'[s].trees = entries[s].trees
<1>0. /\ entries \in [Repos -> EntryRecords] /\ entries[r] \in EntryRecords
      /\ at[r] \in Places \cup {Away}
  BY DEF OwnershipTypes
<1>1. /\ entries'[r] = [entries[r] EXCEPT !.path = at[r], !.refs = @ \cup {x}]
      /\ \A s \in Repos \ {r} : entries'[s] = entries[s]
  BY <1>0 DEF WithRef
<1>2. entries'[r] = [path |-> at[r], refs |-> entries[r].refs \cup {x}, trees |-> entries[r].trees]
  BY <1>0, <1>1 DEF EntryRecords
<1>3. entries'[r] \in EntryRecords /\ entries'[r].trees = entries[r].trees
  BY <1>0, <1>2 DEF EntryRecords
<1>. QED
  BY <1>1, <1>3, <1>0 DEF WithRef

LEMMA TreeType ==
    ASSUME OwnershipTypes, NEW r \in Repos, NEW f \in Forks, entries' = WithTree(r, f)
    PROVE  /\ entries' \in [Repos -> EntryRecords]
           /\ f \in entries'[r].trees
           /\ \A s \in Repos : /\ entries[s].trees \subseteq entries'[s].trees
                              /\ entries'[s].trees \subseteq entries[s].trees \cup {f}
                              /\ entries'[s].refs = entries[s].refs
<1>0. /\ entries \in [Repos -> EntryRecords] /\ entries[r] \in EntryRecords
      /\ at[r] \in Places \cup {Away}
  BY DEF OwnershipTypes
<1>1. /\ entries'[r] = [entries[r] EXCEPT !.path = at[r], !.trees = @ \cup {f}]
      /\ \A s \in Repos \ {r} : entries'[s] = entries[s]
  BY <1>0 DEF WithTree
<1>2. entries'[r] = [path |-> at[r], refs |-> entries[r].refs, trees |-> entries[r].trees \cup {f}]
  BY <1>0, <1>1 DEF EntryRecords
<1>3. /\ entries'[r] \in EntryRecords /\ entries'[r].refs = entries[r].refs
      /\ entries'[r].trees = entries[r].trees \cup {f}
  BY <1>0, <1>2 DEF EntryRecords
<1>. QED
  BY <1>1, <1>3, <1>0 DEF WithTree

\* `git worktree remove` changes what one fork left, in one repository.
LEMMA RemoveType ==
    ASSUME OwnershipTypes, NEW f \in Forks, NEW r \in Repos, RemoveTree(r, f)
    PROVE  /\ admin' \in [Repos -> SUBSET Forks] /\ trees' = trees \ {f} /\ trees' \subseteq Forks
           /\ \A g \in Forks \ {f}, s \in Repos : g \in admin'[s] <=> g \in admin[s]
BY DEF RemoveTree, OwnershipTypes

LEMMA InitInv == ForkInit => ForkInv
<1>. SUFFICES ASSUME ForkInit PROVE ForkInv
  OBVIOUS
<1>1. OwnershipTypes
  BY DEF ForkInit, OwnershipTypes, Unrecorded, NoFork, Steps, ForkRecords, EntryRecords
<1>2. OnePlace
  <2>1. IsFiniteSet({r \in Repos : at[r] # Away}) /\ Cardinality({r \in Repos : at[r] # Away}) = 1
    BY ForkAssumption, FS_Subset DEF ForkInit
  <2>2. PICK x : {r \in Repos : at[r] # Away} = {x}
    BY <2>1, FS_Singleton
  <2>. QED
    BY <2>2 DEF OnePlace
<1>. QED
  BY <1>1, <1>2 DEF ForkInit, ForkInv, Fresh, Findable, Known, NoFork, Before

\* Steps that touch no worktree, no fork and no record of a worktree.
LEMMA QuietStep ==
    ASSUME ForkInv, UNCHANGED <<at, admin, locked, trees, home, scoring, fork, lost>>,
           \/ entries' = entries
           \/ \E r \in Repos, x \in Snapshots : entries' = WithRef(r, x)
    PROVE  ForkInv'
<1>1. /\ OwnershipTypes'
      /\ \A r \in Repos : entries'[r].trees = entries[r].trees
  <2>1. CASE entries' = entries
    BY <2>1 DEF ForkInv, OwnershipTypes
  <2>2. ASSUME NEW r \in Repos, NEW x \in Snapshots, entries' = WithRef(r, x)
        PROVE  <1>1
    BY <2>2, RefType DEF ForkInv, OwnershipTypes
  <2>. QED
    BY <2>1, <2>2
<1>. QED
  BY <1>1 DEF ForkInv, OnePlace, Fresh, Findable, Known

LEMMA QuietActions ==
    ASSUME ForkInv,
           \/ \E r \in Repos, x \in Snapshots :
                 Capture(r, x) \/ Pin(r, x) \/ Unpin(r, x) \/ PurgeRef(r, x) \/ ChangeRef(r, x)
           \/ \E x \in Snapshots : DropJournals(x)
           \/ \E f \in Forks : DropManifest(f)
           \/ PurgeBegins \/ PurgeLooks \/ PurgeDies
           \/ \E all \in BOOLEAN : PurgeRefsDone(all)
           \/ UNCHANGED forkVars
    PROVE  ForkInv'
<1>1. UNCHANGED <<at, admin, locked, trees, home, scoring, fork, lost>>
  BY DEF Capture, Pin, Unpin, PurgeRef, ChangeRef, DropJournals, DropManifest, PurgeBegins,
         PurgeLooks, PurgeDies, PurgeRefsDone, ByUser, Acts, disk, forkVars
<1>2. \/ entries' = entries
      \/ \E r \in Repos, x \in Snapshots : entries' = WithRef(r, x)
  BY DEF Capture, Pin, Unpin, PurgeRef, ChangeRef, DropJournals, DropManifest, PurgeBegins,
         PurgeLooks, PurgeDies, PurgeRefsDone, ByUser, disk, forkVars
<1>. QED
  BY <1>1, <1>2, QuietStep

\* A fork that goes on without touching a worktree, and does not leave the time in which its
\* record is missing.
LEMMA GoesStep ==
    ASSUME ForkInv, NEW f \in Forks, UNCHANGED <<at, admin, locked, trees, home, scoring, entries, lost>>,
           \/ \E place \in Places, x \in Snapshots : ReadJournal(f, place, x)
           \/ WriteCreating(f) \/ Fails(f) \/ WriteFailed(f) \/ WriteReady(f)
    PROVE  ForkInv'
<1>1. /\ fork' \in [Forks -> ForkRecords]
      /\ \A g \in Forks \ {f} : fork'[g] = fork[g]
      /\ fork[f].pc # "added" /\ fork'[f].pc # "added"
      /\ fork'[f].pc \in Before => fork[f].pc \in Before
  <2>1. ASSUME NEW place \in Places, NEW x \in Snapshots, ReadJournal(f, place, x) PROVE <1>1
    BY <2>1 DEF ReadJournal, ForkInv, OwnershipTypes, ForkRecords, Steps, Before
  <2>2. CASE WriteCreating(f)
    BY <2>2, GoesType DEF WriteCreating, Goes, ForkInv, Steps, Before
  <2>3. CASE Fails(f)
    BY <2>3, GoesType DEF Fails, Goes, ForkInv, Steps, Before
  <2>4. CASE WriteFailed(f)
    BY <2>4, GoesType DEF WriteFailed, Goes, ForkInv, Steps, Before
  <2>5. CASE WriteReady(f)
    BY <2>5, GoesType DEF WriteReady, Goes, ForkInv, Steps, Before
  <2>. QED
    BY <2>1, <2>2, <2>3, <2>4, <2>5
<1>2. OwnershipTypes'
  BY <1>1 DEF ForkInv, OwnershipTypes
<1>3. OnePlace'
  BY <1>1 DEF ForkInv, OnePlace
<1>4. Fresh'
  BY <1>1 DEF ForkInv, Fresh, Before
<1>5. \A g \in Forks : fork'[g].pc \in Before => g \notin trees'
  BY <1>1 DEF ForkInv, Before
<1>6. Findable'
  BY <1>1 DEF ForkInv, Findable
<1>7. Known'
  BY <1>1 DEF ForkInv, OwnershipTypes, Known
<1>. QED
  BY <1>2, <1>3, <1>4, <1>5, <1>6, <1>7 DEF ForkInv

LEMMA GoesActions ==
    ASSUME ForkInv, NEW f \in Forks,
           \/ \E place \in Places, x \in Snapshots : ReadJournal(f, place, x)
           \/ WriteCreating(f) \/ Fails(f) \/ WriteFailed(f) \/ WriteReady(f)
    PROVE  ForkInv'
<1>1. UNCHANGED <<at, admin, locked, trees, home, scoring, entries, lost>>
  BY DEF ReadJournal, WriteCreating, Fails, WriteFailed, WriteReady, disk
<1>. QED
  BY <1>1, GoesStep

\* A fork that dies before its record has lost its worktree.
LEMMA DiesStep == ASSUME ForkInv, NEW f \in Forks, ForkDies(f) PROVE ForkInv'
<1>1. /\ UNCHANGED <<at, admin, locked, trees, home, scoring, entries>>
      /\ fork[f].pc \notin {"none", "done"}
      /\ fork' = [fork EXCEPT ![f].pc = "done"]
      /\ lost' = IF fork[f].pc = "added" THEN lost \cup {f} ELSE lost
  BY DEF ForkDies, Goes, disk
<1>2. /\ OwnershipTypes' /\ fork'[f].pc = "done"
      /\ \A g \in Forks \ {f} : fork'[g] = fork[g]
  BY <1>1, GoesType DEF ForkInv, OwnershipTypes, Steps
<1>. QED
  BY <1>1, <1>2 DEF ForkInv, OnePlace, Fresh, Findable, Known, Before

LEMMA AddStep ==
    ASSUME ForkInv, NEW f \in Forks, NEW r \in Repos, AddWorktree(f, r)
    PROVE  ForkInv'
<1>1. /\ fork[f].pc = "creating" /\ at[r] = fork[f].path /\ at[r] # Away
      /\ trees' = trees \cup {f}
      /\ admin' = [admin EXCEPT ![r] = @ \cup {f}]
      /\ home' = [home EXCEPT ![f] = fork[f].path]
      /\ fork' = [fork EXCEPT ![f].pc = "added"]
      /\ UNCHANGED <<at, locked, scoring, entries, lost>>
  BY DEF AddWorktree, Goes, Found
<1>2. /\ fork'[f].pc = "added" /\ fork'[f].path = fork[f].path /\ home'[f] = fork[f].path
      /\ f \in admin'[r] /\ \A s \in Repos : admin[s] \subseteq admin'[s]
      /\ \A g \in Forks \ {f} : fork'[g] = fork[g] /\ home'[g] = home[g]
      /\ OwnershipTypes'
  <2>1. /\ fork' \in [Forks -> ForkRecords]
        /\ fork'[f].pc = "added" /\ fork'[f].path = fork[f].path
        /\ \A g \in Forks \ {f} : fork'[g] = fork[g]
    BY <1>1, GoesType DEF ForkInv, Steps
  <2>2. fork[f].path \in Places \cup {Away}
    BY DEF ForkInv, OwnershipTypes, ForkRecords
  <2>. QED
    BY <1>1, <2>1, <2>2 DEF ForkInv, OwnershipTypes
<1>. QED
  BY <1>1, <1>2 DEF ForkInv, OnePlace, Fresh, Findable, Known, Before

\* The record names a repository whose administrative directory has the worktree.
LEMMA RecordStep ==
    ASSUME ForkInv, NEW f \in Forks, NEW r \in Repos, RecordWorktree(f, r)
    PROVE  ForkInv'
<1>1. /\ fork[f].pc = "added" /\ f \in admin[r]
      /\ entries' = WithTree(r, f)
      /\ fork' = [fork EXCEPT ![f].pc = "recorded"]
      /\ UNCHANGED <<at, admin, locked, trees, home, scoring, lost>>
  BY DEF RecordWorktree, Goes, OwnerOf, disk
<1>2. /\ fork'[f].pc = "recorded" /\ f \in entries'[r].trees
      /\ \A g \in Forks \ {f} : fork'[g] = fork[g]
      /\ \A s \in Repos : entries[s].trees \subseteq entries'[s].trees
      /\ OwnershipTypes'
  <2>1. fork' \in [Forks -> ForkRecords] /\ fork'[f].pc = "recorded"
        /\ \A g \in Forks \ {f} : fork'[g] = fork[g]
    BY <1>1, GoesType DEF ForkInv, Steps
  <2>. QED
    BY <1>1, <2>1, TreeType DEF ForkInv, OwnershipTypes
<1>. QED
  BY <1>1, <1>2 DEF ForkInv, OnePlace, Fresh, Findable, Known, Before

\* A worktree that goes, from the disk and from the repository that had it.
LEMMA RemoveStep ==
    ASSUME ForkInv, NEW f \in Forks, UNCHANGED <<at, home, entries, lost, scoring, locked>>,
           \/ fork' = fork
           \/ fork[f].pc # "added" /\ fork' = [fork EXCEPT ![f].pc = "done"],
           \/ UNCHANGED <<trees, admin>>
           \/ \E r \in Repos : RemoveTree(r, f)
    PROVE  ForkInv'
<1>1. /\ fork' \in [Forks -> ForkRecords]
      /\ \A g \in Forks \ {f} : fork'[g] = fork[g]
      /\ fork'[f] = fork[f] \/ (fork'[f].pc = "done" /\ fork[f].pc # "added")
  BY GoesType DEF ForkInv, OwnershipTypes, Steps
<1>2. OwnershipTypes'
  BY <1>1, RemoveType DEF ForkInv, OwnershipTypes
<1>3. CASE UNCHANGED <<trees, admin>>
  <2>1. OnePlace'
    BY DEF ForkInv, OnePlace
  <2>2. Fresh'
    BY <1>1, <1>3 DEF ForkInv, Fresh, Before
  <2>3. \A g \in Forks : fork'[g].pc \in Before => g \notin trees'
    BY <1>1, <1>3 DEF ForkInv, Before
  <2>4. Findable'
    BY <1>1, <1>3 DEF ForkInv, Findable
  <2>5. Known'
    BY <1>1, <1>3 DEF ForkInv, OwnershipTypes, Known
  <2>. QED
    BY <1>2, <2>1, <2>2, <2>3, <2>4, <2>5 DEF ForkInv
<1>4. ASSUME NEW r \in Repos, RemoveTree(r, f) PROVE ForkInv'
  <2>1. /\ trees' = trees \ {f}
        /\ \A g \in Forks \ {f}, s \in Repos : g \in admin'[s] <=> g \in admin[s]
    BY <1>4, RemoveType DEF ForkInv
  <2>. QED
    BY <1>1, <1>2, <2>1 DEF ForkInv, OwnershipTypes, OnePlace, Fresh, Findable, Known, Before
<1>. QED
  BY <1>3, <1>4

LEMMA RemoveActions ==
    ASSUME ForkInv, NEW f \in Forks,
           CleanUpArm(f) \/ PruneFork(f) \/ \E r \in Repos : PurgeTree(r, f)
    PROVE  ForkInv'
<1>1. UNCHANGED <<at, home, entries, lost, scoring, locked>>
  BY DEF CleanUpArm, PruneFork, PurgeTree
<1>2. UNCHANGED <<trees, admin>> \/ \E r \in Repos : RemoveTree(r, f)
  BY DEF CleanUpArm, PruneFork, PurgeTree, RemoveThroughItself, OwnerOf, Found
<1>3. \/ fork' = fork
      \/ fork[f].pc # "added" /\ fork' = [fork EXCEPT ![f].pc = "done"]
  BY DEF CleanUpArm, PruneFork, PurgeTree, Goes
<1>. QED
  BY <1>1, <1>2, <1>3, RemoveStep

\* A refused record takes its worktree with it, unless somebody else lost it before.
LEMMA RollBackStep == ASSUME ForkInv, NEW f \in Forks, RollBack(f) PROVE ForkInv'
<1>1. /\ fork[f].pc = "added" /\ fork' = [fork EXCEPT ![f].pc = "failing"]
      /\ UNCHANGED <<at, locked, home, scoring, entries, lost>>
      /\ UNCHANGED <<trees, admin>> \/ \E r \in Repos : RemoveTree(r, f)
  BY DEF RollBack, Goes, OwnerOf, Found
<1>2. f \notin trees' \ lost'
  <2>. SUFFICES ASSUME f \in trees \ lost PROVE f \notin trees'
    BY <1>1 DEF RemoveTree
  <2>1. PICK r \in Repos : at[r] = home[f] /\ at[r] # Away /\ f \in admin[r]
    BY <1>1 DEF ForkInv, Findable
  <2>2. home[f] = fork[f].path
    BY <1>1 DEF ForkInv, Findable
  <2>3. r \in Found(fork[f].path) /\ OwnerOf(f) = {r}
    BY <2>1, <2>2 DEF Found, OwnerOf, ForkInv, OnePlace
  <2>4. Removable(r, f)
    BY <1>1, <2>1 DEF Removable, ForkInv, Fresh
  <2>5. RemoveTree(r, f)
    BY <2>3, <2>4 DEF RollBack
  <2>. QED
    BY <2>5 DEF RemoveTree
<1>3. /\ fork' \in [Forks -> ForkRecords] /\ fork'[f].pc = "failing"
      /\ \A g \in Forks \ {f} : fork'[g] = fork[g]
  BY <1>1, GoesType DEF ForkInv, Steps
<1>4. /\ admin' \in [Repos -> SUBSET Forks] /\ trees' \subseteq trees
      /\ \A g \in Forks \ {f}, r \in Repos : g \in admin'[r] <=> g \in admin[r]
  BY <1>1, RemoveType DEF ForkInv, OwnershipTypes
<1>. QED
  BY <1>1, <1>2, <1>3, <1>4 DEF OwnershipTypes, ForkInv, OnePlace, Fresh, Findable, Known, Before

\* An arm is locked, scored and restored long after its record.
LEMMA ArmStep ==
    ASSUME ForkInv, NEW f \in Forks, ProtectArm(f) \/ ScoreArm(f) \/ RestoreArm(f)
    PROVE  ForkInv'
<1>1. /\ UNCHANGED <<at, admin, trees, home, entries, lost>>
      /\ fork[f].pc \in {"ready", "running", "judged"}
      /\ fork' \in [Forks -> ForkRecords]
      /\ fork'[f].pc \in {"running", "judged", "ended"}
      /\ \A g \in Forks \ {f} : fork'[g] = fork[g]
      /\ scoring' \subseteq scoring \cup {f}
  <2>1. CASE ProtectArm(f)
    BY <2>1, GoesType DEF ProtectArm, Goes, ForkInv, Steps
  <2>2. CASE ScoreArm(f)
    BY <2>2, GoesType DEF ScoreArm, Goes, ForkInv, Steps
  <2>3. CASE RestoreArm(f)
    BY <2>3, GoesType DEF RestoreArm, Goes, ForkInv, Steps
  <2>. QED
    BY <2>1, <2>2, <2>3
<1>2. /\ locked' \in [Repos -> SUBSET Forks]
      /\ \A r \in Repos : locked'[r] \subseteq locked[r] \cup {f}
  <2>1. CASE ProtectArm(f)
    BY <2>1 DEF ProtectArm, OwnerOf, Found, ForkInv, OwnershipTypes
  <2>2. CASE ScoreArm(f)
    BY <2>2 DEF ScoreArm, ForkInv, OwnershipTypes
  <2>3. CASE RestoreArm(f)
    BY <2>3 DEF RestoreArm, ForkInv, OwnershipTypes
  <2>. QED
    BY <2>1, <2>2, <2>3
<1>3. OwnershipTypes'
  BY <1>1, <1>2 DEF ForkInv, OwnershipTypes
<1>4. OnePlace'
  BY <1>1, <1>2 DEF ForkInv, OnePlace
<1>5. Fresh'
  BY <1>1, <1>2 DEF ForkInv, Fresh, Before
<1>6. \A g \in Forks : fork'[g].pc \in Before => g \notin trees'
  BY <1>1, <1>2 DEF ForkInv, Before
<1>7. Findable'
  BY <1>1, <1>2 DEF ForkInv, Findable
<1>8. Known'
  BY <1>1, <1>2 DEF ForkInv, OwnershipTypes, Known
<1>. QED
  BY <1>3, <1>4, <1>5, <1>6, <1>7, <1>8 DEF ForkInv

\* The registry is forgotten only when every worktree in it is gone.
LEMMA RegistryStep == ASSUME ForkInv, PurgeRegistry PROVE ForkInv'
<1>1. /\ UNCHANGED <<at, admin, locked, trees, home, scoring, fork, lost>>
      /\ entries' = IF Spent THEN [r \in Repos |-> Unrecorded] ELSE entries
  BY DEF PurgeRegistry, disk
<1>2. Spent => \A r \in Repos, f \in trees : f \notin entries[r].trees
  BY DEF Spent, Exhausted, TreeAbsent
<1>3. OwnershipTypes'
  BY <1>1 DEF Unrecorded, ForkInv, OwnershipTypes, EntryRecords
<1>. QED
  BY <1>1, <1>2, <1>3 DEF ForkInv, OnePlace, Fresh, Findable, Known

LEMMA MoveStep ==
    ASSUME ForkInv, NEW r \in Repos, NEW place \in Places \cup {Away}, Move(r, place)
    PROVE  ForkInv'
<1>1. /\ at' = [at EXCEPT ![r] = place]
      /\ place = Away \/ \A s \in Repos : at[s] # place
      /\ lost' = lost \cup Unfinished
      /\ UNCHANGED <<admin, locked, trees, home, scoring, entries, fork>>
  BY DEF Move, ByUser, Found
<1>2. OwnershipTypes' /\ OnePlace'
  BY <1>1 DEF ForkInv, OwnershipTypes, OnePlace
<1>. QED
  BY <1>1, <1>2 DEF ForkInv, Fresh, Findable, Known, Unfinished

\* A copy is another repository: nothing is recorded for it, and what is recorded for the
\* original stays.
LEMMA CopyStep ==
    ASSUME ForkInv, NEW r \in Repos, NEW copy \in Repos, NEW place \in Places, Copy(r, copy, place)
    PROVE  ForkInv'
<1>1. /\ at[copy] = Away /\ entries[copy] = Unrecorded
      /\ place # Away /\ \A s \in Repos : at[s] # place
      /\ at' = [at EXCEPT ![copy] = place]
      /\ admin' = [admin EXCEPT ![copy] = admin[r]]
      /\ locked' = [locked EXCEPT ![copy] = locked[r]]
      /\ UNCHANGED <<trees, home, scoring, entries, fork, lost>>
  BY DEF Copy, ByUser, Found
<1>2. /\ entries[copy].trees = {}
      /\ \A s \in Repos \ {copy} : at'[s] = at[s] /\ admin'[s] = admin[s] /\ locked'[s] = locked[s]
      /\ locked'[copy] = locked[r]
      /\ OwnershipTypes' /\ OnePlace'
  BY <1>1 DEF Unrecorded, ForkInv, OwnershipTypes, OnePlace
<1>. QED
  BY <1>1, <1>2 DEF ForkInv, Fresh, Findable, Known

LEMMA DeleteStep == ASSUME ForkInv, NEW f \in Forks, DeleteTree(f) PROVE ForkInv'
<1>1. /\ trees' = trees \ {f} /\ scoring' = scoring \ {f}
      /\ UNCHANGED <<at, admin, locked, home, entries, fork, lost>>
  BY DEF DeleteTree, ByUser
<1>. QED
  BY <1>1 DEF ForkInv, OwnershipTypes, OnePlace, Fresh, Findable, Known

LEMMA ForkInvariant == ForkSpec => []ForkInv
<1>1. ForkInv /\ [ForkNext]_forkVars => ForkInv'
  <2>. SUFFICES ASSUME ForkInv, [ForkNext]_forkVars PROVE ForkInv'
    OBVIOUS
  <2>1. ASSUME NEW f \in Forks,
               \/ \E place \in Places, x \in Snapshots : ReadJournal(f, place, x)
               \/ WriteCreating(f) \/ Fails(f) \/ WriteFailed(f) \/ WriteReady(f)
               \/ ForkDies(f) \/ RollBack(f) \/ ProtectArm(f) \/ ScoreArm(f) \/ RestoreArm(f)
               \/ CleanUpArm(f) \/ PruneFork(f) \/ DeleteTree(f)
        PROVE  ForkInv'
    BY <2>1, GoesActions, DiesStep, RollBackStep, ArmStep, RemoveActions, DeleteStep
  <2>2. ASSUME NEW f \in Forks, NEW r \in Repos,
               AddWorktree(f, r) \/ RecordWorktree(f, r) \/ PurgeTree(r, f)
        PROVE  ForkInv'
    BY <2>2, AddStep, RecordStep, RemoveActions
  <2>3. ASSUME NEW r \in Repos, NEW place \in Places \cup {Away}, Move(r, place) PROVE ForkInv'
    BY <2>3, MoveStep
  <2>4. ASSUME NEW r \in Repos, NEW copy \in Repos, NEW place \in Places, Copy(r, copy, place)
        PROVE  ForkInv'
    BY <2>4, CopyStep
  <2>. QED
    BY <2>1, <2>2, <2>3, <2>4, QuietActions, RegistryStep DEF ForkNext
<1>. QED
  BY <1>1, InitInv, PTL DEF ForkSpec

\* A worktree Spotter made and that is there is in the registry, unless its process died, or its
\* repository moved, before the record.
THEOREM NoneForgotten == ForkSpec => []WorktreesRecorded
<1>1. ForkInv => WorktreesRecorded
  BY DEF ForkInv, Known, WorktreesRecorded
<1>. QED
  BY <1>1, ForkInvariant, PTL

-----------------------------------------------------------------------------
(* What purge deletes. *)

Manifested == {"absent", "creating", "failed", "ready"}
RefStates == {"absent", "exact", "changed"}
ExactTypes ==
    /\ refs \in [Repos -> [Snapshots -> RefStates]]
    /\ manifest \in [Forks -> Manifested]
    /\ moves \in Nat
    /\ purge = [pc |-> purge.pc, entries |-> purge.entries, todo |-> purge.todo,
                doomed |-> purge.doomed, failed |-> purge.failed, late |-> purge.late]

\* A fork that wrote nothing yet has no manifest, one that recorded nothing is in no entry.
NoManifestYet == \A f \in Forks : fork[f].pc \in {"none", "read"} => manifest[f] = "absent"
NoEntryYet == \A f \in Forks, r \in Repos : fork[f].pc \in Before \cup {"added"} => f \notin entries[r].trees

\* What was recorded since a purge began are worktrees of late forks.
LooksAtAll == purge.pc # "idle" => \A r \in Repos :
    /\ entries[r].refs = purge.entries[r].refs
    /\ entries[r].trees \subseteq purge.entries[r].trees \cup purge.late

\* Nothing comes to need a ref that purge is going to remove, but late forks.
Needless(r, x) ==
    /\ x \in entries[r].refs
    /\ <<r, x>> \notin pins /\ x \notin journaled
    /\ \A f \in Forks \ purge.late :
          fork[f].snap = x => manifest[f] = "absent" /\ (f \in trees => f \notin entries[r].trees)
DoomedAreNeedless == purge.pc = "refs" =>
    \A r \in Repos, x \in Snapshots : <<r, x>> \in purge.doomed => Needless(r, x)

ExactInv == ExactTypes /\ NoManifestYet /\ NoEntryYet /\ LooksAtAll /\ DoomedAreNeedless

\* A step after which no more refers to a snapshot than before, but what late forks wrote.
LEMMA NothingReferred ==
    ASSUME ExactInv, ExactTypes', entries' = entries,
           \A f \in Forks : fork'[f].pc \in {"none", "read"} =>
               fork[f].pc \in {"none", "read"} /\ manifest'[f] \in {manifest[f], "absent"},
           \A f \in Forks : fork'[f].pc \in Before \cup {"added"} =>
               fork[f].pc \in Before \cup {"added"},
           purge'.pc # "idle" =>
               purge.pc # "idle" /\ purge'.entries = purge.entries /\ purge.late \subseteq purge'.late,
           purge'.pc = "refs" =>
               /\ purge.pc = "refs" /\ purge'.doomed \subseteq purge.doomed
               /\ pins' \subseteq pins /\ journaled' \subseteq journaled
               /\ \A f \in Forks \ purge'.late :
                     /\ manifest'[f] \in {manifest[f], "absent"}
                     /\ f \in trees' => f \in trees \/ fork[f].pc = "creating"
                     /\ fork'[f].snap = fork[f].snap \/ (manifest'[f] = "absent" /\ f \notin trees')
    PROVE  ExactInv'
<1>1. NoManifestYet' /\ NoEntryYet'
  BY DEF ExactInv, NoManifestYet, NoEntryYet
<1>2. LooksAtAll'
  BY DEF ExactInv, LooksAtAll
<1>3. ASSUME purge'.pc = "refs", NEW r \in Repos, NEW x \in Snapshots, <<r, x>> \in purge'.doomed
      PROVE  Needless(r, x)'
  <2>1. Needless(r, x)
    BY <1>3 DEF ExactInv, DoomedAreNeedless
  <2>2. ASSUME NEW f \in Forks \ purge'.late, fork'[f].snap = x
        PROVE  manifest'[f] = "absent" /\ (f \in trees' => f \notin entries[r].trees)
    <3>1. CASE fork'[f].snap = fork[f].snap
      <4>1. manifest[f] = "absent" /\ (f \in trees => f \notin entries[r].trees)
        BY <1>3, <2>1, <2>2, <3>1 DEF Needless
      <4>2. fork[f].pc = "creating" => f \notin entries[r].trees
        BY DEF ExactInv, NoEntryYet, Before
      <4>. QED
        BY <1>3, <2>2, <4>1, <4>2
    <3>. QED
      BY <1>3, <2>2, <3>1
  <2>. QED
    BY <1>3, <2>1, <2>2 DEF Needless
<1>. QED
  BY <1>1, <1>2, <1>3 DEF ExactInv, DoomedAreNeedless

\* A fork that writes while a purge runs is a late one.
LEMMA LateType ==
    ASSUME ExactTypes, NEW f \in Forks, Unseen(f)
    PROVE  /\ purge' = [pc |-> purge'.pc, entries |-> purge'.entries, todo |-> purge'.todo,
                        doomed |-> purge'.doomed, failed |-> purge'.failed, late |-> purge'.late]
           /\ purge'.pc = purge.pc /\ purge'.entries = purge.entries /\ purge'.doomed = purge.doomed
           /\ purge.late \subseteq purge'.late
           /\ purge.pc # "idle" => f \in purge'.late
<1>1. CASE purge.pc = "idle"
  BY <1>1 DEF Unseen, NoPurger, ExactTypes
<1>2. CASE purge.pc # "idle"
  <2>1. purge' = [purge EXCEPT !.late = purge.late \cup {f}]
    BY <1>2 DEF Unseen, NoPurger
  <2>2. purge' = [pc |-> purge.pc, entries |-> purge.entries, todo |-> purge.todo,
                  doomed |-> purge.doomed, failed |-> purge.failed, late |-> purge.late \cup {f}]
    BY <2>1 DEF ExactTypes
  <2>. QED
    BY <2>2
<1>. QED
  BY <1>1, <1>2

\* At first nothing is recorded and no purge runs.
LEMMA ExactInit == ForkInit => ExactInv
BY DEF ForkInit, ExactInv, ExactTypes, NoManifestYet, NoEntryYet, LooksAtAll, DoomedAreNeedless,
       Manifested, RefStates, NoPurge, Unrecorded, NoFork

\* What changes neither forks, nor manifests, nor what is recorded.
LEMMA OutsideStep ==
    ASSUME ExactInv, UNCHANGED <<entries, fork, manifest, purge>>,
           refs' \in [Repos -> [Snapshots -> RefStates]], moves' \in Nat,
           pins' \subseteq pins, journaled' \subseteq journaled, trees' \subseteq trees
    PROVE  ExactInv'
<1>1. ExactTypes'
  BY DEF ExactInv, ExactTypes
<1>. QED
  BY <1>1, NothingReferred

\* What the user, `prune --forks` and `purge --data` do.
LEMMA OutsideActions ==
    ASSUME ForkInv, ExactInv,
           \/ \E r \in Repos, x \in Snapshots : Unpin(r, x) \/ ChangeRef(r, x)
           \/ \E x \in Snapshots : DropJournals(x)
           \/ \E f \in Forks : PruneFork(f) \/ DeleteTree(f)
           \/ \E r \in Repos : \E place \in Places \cup {Away} : Move(r, place)
           \/ \E r, copy \in Repos, place \in Places : Copy(r, copy, place)
           \/ UNCHANGED forkVars
    PROVE  ExactInv'
<1>1. UNCHANGED <<entries, fork, manifest, purge>> /\ pins' \subseteq pins /\ journaled' \subseteq journaled
  BY DEF Unpin, ChangeRef, DropJournals, PruneFork, DeleteTree, Move, Copy, ByUser, disk, forkVars
<1>2. trees' \subseteq trees
  BY DEF Unpin, ChangeRef, DropJournals, PruneFork, DeleteTree, Move, Copy, RemoveThroughItself,
         RemoveTree, disk, forkVars
<1>3. moves' \in Nat
  <2>1. moves' = moves \/ moves' = moves + 1
    BY DEF Unpin, ChangeRef, DropJournals, PruneFork, DeleteTree, Move, Copy, Acts, disk, forkVars
  <2>2. moves \in Nat
    BY DEF ExactInv, ExactTypes
  <2>. QED
    BY <2>1, <2>2
<1>4. refs' \in [Repos -> [Snapshots -> RefStates]]
  <2>1. refs \in [Repos -> [Snapshots -> RefStates]]
    BY DEF ExactInv, ExactTypes
  <2>2. ASSUME NEW r \in Repos, NEW x \in Snapshots, ChangeRef(r, x) PROVE <1>4
    BY <2>1, <2>2 DEF ChangeRef, RefStates
  <2>3. ASSUME NEW r \in Repos, NEW copy \in Repos, NEW place \in Places, Copy(r, copy, place)
        PROVE  <1>4
    BY <2>1, <2>3 DEF Copy
  <2>4. CASE refs' = refs
    BY <2>1, <2>4
  <2>. QED
    BY <2>2, <2>3, <2>4 DEF Unpin, DropJournals, PruneFork, DeleteTree, Move, disk, forkVars
<1>. QED
  BY <1>1, <1>2, <1>3, <1>4, OutsideStep

\* A manifest less needs no ref.
LEMMA DropManifestStep == ASSUME ExactInv, NEW f \in Forks, DropManifest(f) PROVE ExactInv'
<1>1. /\ manifest' = [manifest EXCEPT ![f] = "absent"]
      /\ UNCHANGED <<refs, moves, entries, fork, purge, pins, journaled, trees>>
  BY DEF DropManifest, disk
<1>2. /\ ExactTypes'
      /\ \A g \in Forks : manifest'[g] \in {manifest[g], "absent"}
  BY <1>1 DEF ExactInv, ExactTypes, Manifested
<1>. QED
  BY <1>1, <1>2, NothingReferred

\* A snapshot is recorded: purge does not run.
LEMMA RecordRefStep ==
    ASSUME ForkInv, ExactInv, NEW r \in Repos, NEW x \in Snapshots, Capture(r, x) \/ Pin(r, x)
    PROVE  ExactInv'
<1>1. /\ purge.pc = "idle" /\ entries' = WithRef(r, x)
      /\ UNCHANGED <<fork, manifest, purge, trees, moves>>
      /\ refs' = refs \/ refs' = [refs EXCEPT ![r][x] = "exact"]
  BY DEF Capture, Pin, NoPurger, disk
<1>2. \A s \in Repos : entries'[s].trees = entries[s].trees
  BY <1>1, RefType DEF ForkInv
<1>3. ExactTypes'
  BY <1>1 DEF ExactInv, ExactTypes, RefStates
<1>. QED
  BY <1>1, <1>2, <1>3 DEF ExactInv, NoManifestYet, NoEntryYet, LooksAtAll, DoomedAreNeedless

\* A fork takes a snapshot from a journal: it has neither manifest nor worktree.
LEMMA ReadStep ==
    ASSUME ForkInv, ExactInv, NEW f \in Forks, NEW place \in Places, NEW x \in Snapshots,
           ReadJournal(f, place, x)
    PROVE  ExactInv'
<1>1. /\ fork[f].pc = "none"
      /\ fork' = [fork EXCEPT ![f] = [pc |-> "read", path |-> place, snap |-> x]]
      /\ UNCHANGED <<refs, moves, entries, manifest, purge, pins, journaled, trees>>
  BY DEF ReadJournal, disk
<1>2. fork'[f].pc = "read" /\ \A g \in Forks \ {f} : fork'[g] = fork[g]
  BY <1>1 DEF ForkInv, OwnershipTypes
<1>3. manifest[f] = "absent" /\ f \notin trees
  BY <1>1 DEF ExactInv, NoManifestYet, ForkInv, Before
<1>4. ExactTypes'
  BY <1>1 DEF ExactInv, ExactTypes
<1>. QED
  BY <1>1, <1>2, <1>3, <1>4, NothingReferred DEF Before

\* A fork goes on, and its worktree comes or goes.
LEMMA GoesOnStep ==
    ASSUME ForkInv, ExactInv, NEW f \in Forks,
           \/ Fails(f) \/ RollBack(f) \/ ForkDies(f) \/ \E r \in Repos : AddWorktree(f, r)
           \/ ProtectArm(f) \/ ScoreArm(f) \/ RestoreArm(f) \/ CleanUpArm(f)
    PROVE  ExactInv'
<1>1. /\ UNCHANGED <<refs, moves, entries, manifest, purge, pins, journaled>>
      /\ \E step \in Steps \ {"none", "read", "creating"} :
            /\ fork' = [fork EXCEPT ![f].pc = step]
            /\ step = "added" => fork[f].pc = "creating"
  BY DEF Fails, RollBack, ForkDies, AddWorktree, ProtectArm, ScoreArm, RestoreArm, CleanUpArm, Goes,
         Steps, disk
<1>2. \A g \in trees' : g \in trees \/ (g = f /\ fork[f].pc = "creating")
  BY DEF Fails, RollBack, ForkDies, AddWorktree, ProtectArm, ScoreArm, RestoreArm, CleanUpArm,
         RemoveThroughItself, RemoveTree, disk
<1>3. /\ fork'[f].pc \notin Before /\ (fork'[f].pc = "added" => fork[f].pc = "creating")
      /\ fork'[f].snap = fork[f].snap
      /\ \A g \in Forks \ {f} : fork'[g] = fork[g]
  BY <1>1, GoesType DEF ForkInv, Before
<1>4. ExactTypes'
  BY <1>1 DEF ExactInv, ExactTypes
<1>. QED
  BY <1>1, <1>2, <1>3, <1>4, NothingReferred DEF Before

\* A fork writes its manifest.
LEMMA ManifestStep ==
    ASSUME ForkInv, ExactInv, NEW f \in Forks, WriteCreating(f) \/ WriteFailed(f) \/ WriteReady(f)
    PROVE  ExactInv'
<1>1. /\ UNCHANGED <<refs, moves, entries, pins, journaled, trees>>
      /\ Unseen(f)
      /\ \E status \in Manifested : manifest' = [manifest EXCEPT ![f] = status]
      /\ \E step \in Steps \ {"none", "read", "added"} :
            /\ fork' = [fork EXCEPT ![f].pc = step]
            /\ step = "creating" => fork[f].pc = "read"
  BY DEF WriteCreating, WriteFailed, WriteReady, Goes, Steps, Manifested, disk
<1>2. /\ fork'[f].pc \notin {"none", "read", "added"} /\ (fork'[f].pc = "creating" => fork[f].pc = "read")
      /\ fork'[f].snap = fork[f].snap
      /\ \A g \in Forks \ {f} : fork'[g] = fork[g]
  BY <1>1, GoesType DEF ForkInv
<1>3. /\ ExactTypes'
      /\ \A g \in Forks \ {f} : manifest'[g] = manifest[g]
  BY <1>1, LateType DEF ExactInv, ExactTypes
<1>4. /\ purge'.pc = purge.pc /\ purge'.entries = purge.entries /\ purge'.doomed = purge.doomed
      /\ purge.late \subseteq purge'.late
      /\ purge.pc # "idle" => f \in purge'.late
  BY <1>1, LateType DEF ExactInv
<1>. QED
  BY <1>1, <1>2, <1>3, <1>4, NothingReferred DEF Before

\* A worktree is recorded: if a purge runs, its fork is late.
LEMMA RecordTreeStep ==
    ASSUME ForkInv, ExactInv, NEW f \in Forks, NEW r \in Repos, RecordWorktree(f, r)
    PROVE  ExactInv'
<1>1. /\ UNCHANGED <<refs, moves, manifest, pins, journaled, trees>>
      /\ entries' = WithTree(r, f) /\ Unseen(f)
      /\ fork' = [fork EXCEPT ![f].pc = "recorded"]
  BY DEF RecordWorktree, Goes, disk
<1>2. /\ fork'[f].pc = "recorded" /\ fork'[f].snap = fork[f].snap
      /\ \A g \in Forks \ {f} : fork'[g] = fork[g]
  BY <1>1, GoesType DEF ForkInv, Steps
<1>3. \A s \in Repos : /\ entries'[s].refs = entries[s].refs
                       /\ entries'[s].trees \subseteq entries[s].trees \cup {f}
  BY <1>1, TreeType DEF ForkInv
<1>4. /\ purge'.pc = purge.pc /\ purge'.entries = purge.entries /\ purge'.doomed = purge.doomed
      /\ purge.late \subseteq purge'.late
      /\ purge.pc # "idle" => f \in purge'.late
  BY <1>1, LateType DEF ExactInv
<1>5. ExactTypes'
  BY <1>1, LateType DEF ExactInv, ExactTypes
<1>6. NoManifestYet' /\ NoEntryYet'
  BY <1>1, <1>2, <1>3 DEF ExactInv, NoManifestYet, NoEntryYet, Before
<1>7. LooksAtAll'
  BY <1>3, <1>4 DEF ExactInv, LooksAtAll
<1>8. ASSUME purge'.pc = "refs", NEW s \in Repos, NEW x \in Snapshots, <<s, x>> \in purge'.doomed
      PROVE  Needless(s, x)'
  <2>1. Needless(s, x)
    BY <1>4, <1>8 DEF ExactInv, DoomedAreNeedless
  <2>2. ASSUME NEW g \in Forks \ purge'.late, fork'[g].snap = x
        PROVE  manifest'[g] = "absent" /\ (g \in trees' => g \notin entries'[s].trees)
    <3>1. g # f /\ g \notin purge.late
      BY <1>4, <1>8
    <3>. QED
      BY <1>1, <1>2, <1>3, <2>1, <2>2, <3>1 DEF Needless
  <2>. QED
    BY <1>1, <1>3, <2>1, <2>2 DEF Needless
<1>. QED
  BY <1>5, <1>6, <1>7, <1>8 DEF ExactInv, DoomedAreNeedless

-----------------------------------------------------------------------------
(* The steps of a purge. *)

\* The record of a purge that is over.
LEMMA NoPurgeType ==
    NoPurge = [pc |-> "idle", entries |-> NoPurge.entries, todo |-> NoPurge.todo,
               doomed |-> NoPurge.doomed, failed |-> NoPurge.failed, late |-> NoPurge.late]
BY DEF NoPurge

\* A purge that begins copies the entries.
LEMMA PurgeBeginsStep == ASSUME ExactInv, PurgeBegins PROVE ExactInv'
<1>. DEFINE todo == {k \in Repos \X Forks :
                        k[2] \in entries[k[1]].trees /\ TreePresent(entries, k[1], k[2])}
<1>1. /\ purge' = [NoPurge EXCEPT !.pc = "trees", !.entries = entries, !.todo = todo]
      /\ UNCHANGED <<refs, moves, entries, fork, manifest, trees>>
  BY DEF PurgeBegins, disk
<1>. HIDE DEF todo
<1>2. purge' = [pc |-> "trees", entries |-> entries, todo |-> todo,
                doomed |-> NoPurge.doomed, failed |-> NoPurge.failed, late |-> NoPurge.late]
  BY <1>1 DEF NoPurge
<1>3. ExactTypes'
  BY <1>1, <1>2 DEF ExactInv, ExactTypes
<1>4. LooksAtAll' /\ DoomedAreNeedless'
  BY <1>1, <1>2 DEF LooksAtAll, DoomedAreNeedless
<1>. QED
  BY <1>1, <1>3, <1>4 DEF ExactInv, NoManifestYet, NoEntryYet

\* A purge that ends, dies or goes on to the registry, and one that removes what it has listed.
LEMMA PurgeOnStep ==
    ASSUME ForkInv, ExactInv,
           \/ PurgeDies \/ \E all \in BOOLEAN : PurgeRefsDone(all)
           \/ \E r \in Repos, f \in Forks : PurgeTree(r, f)
           \/ \E r \in Repos, x \in Snapshots : PurgeRef(r, x)
    PROVE  ExactInv'
<1>1. UNCHANGED <<moves, entries, fork, manifest, pins, journaled>> /\ trees' \subseteq trees
  BY DEF PurgeDies, PurgeRefsDone, PurgeTree, PurgeRef, RemoveTree, disk
<1>2. refs' \in [Repos -> [Snapshots -> RefStates]]
  <2>1. refs \in [Repos -> [Snapshots -> RefStates]]
    BY DEF ExactInv, ExactTypes
  <2>2. ASSUME NEW r \in Repos, NEW x \in Snapshots, PurgeRef(r, x) PROVE <1>2
    BY <2>1, <2>2 DEF PurgeRef, RefStates
  <2>. QED
    BY <2>1, <2>2 DEF PurgeDies, PurgeRefsDone, PurgeTree, disk
<1>3. /\ purge' = [pc |-> purge'.pc, entries |-> purge'.entries, todo |-> purge'.todo,
                   doomed |-> purge'.doomed, failed |-> purge'.failed, late |-> purge'.late]
      /\ purge'.pc # "idle" => /\ purge.pc # "idle" /\ purge'.entries = purge.entries
                               /\ purge.late \subseteq purge'.late
      /\ purge'.pc = "refs" => purge.pc = "refs" /\ purge'.doomed \subseteq purge.doomed
  <2>1. CASE purge' = NoPurge
    <3>1. purge'.pc = "idle"
      BY <2>1 DEF NoPurge
    <3>. QED
      BY <2>1, <3>1, NoPurgeType
  <2>2. ASSUME NEW r \in Repos, NEW f \in Forks, PurgeTree(r, f) PROVE <1>3
    <3>1. PICK failed : purge' = [purge EXCEPT !.todo = @ \ {<<r, f>>}, !.failed = failed]
      BY <2>2 DEF PurgeTree
    <3>2. purge' = [pc |-> purge.pc, entries |-> purge.entries, todo |-> purge.todo \ {<<r, f>>},
                    doomed |-> purge.doomed, failed |-> failed, late |-> purge.late]
      BY <3>1 DEF ExactInv, ExactTypes
    <3>. QED
      BY <2>2, <3>2 DEF PurgeTree
  <2>3. ASSUME NEW r \in Repos, NEW x \in Snapshots, PurgeRef(r, x) PROVE <1>3
    <3>1. PICK failed : purge' = [purge EXCEPT !.doomed = @ \ {<<r, x>>}, !.failed = failed]
      BY <2>3 DEF PurgeRef
    <3>2. purge' = [pc |-> purge.pc, entries |-> purge.entries, todo |-> purge.todo,
                    doomed |-> purge.doomed \ {<<r, x>>}, failed |-> failed, late |-> purge.late]
      BY <3>1 DEF ExactInv, ExactTypes
    <3>3. purge.pc = "refs"
      BY <2>3 DEF PurgeRef
    <3>. QED
      BY <3>2, <3>3
  <2>4. ASSUME purge.pc = "refs", purge' = [purge EXCEPT !.pc = "registry"] PROVE <1>3
    <3>1. purge' = [pc |-> "registry", entries |-> purge.entries, todo |-> purge.todo,
                    doomed |-> purge.doomed, failed |-> purge.failed, late |-> purge.late]
      BY <2>4 DEF ExactInv, ExactTypes
    <3>. QED
      BY <2>4, <3>1
  <2>. QED
    BY <2>1, <2>2, <2>3, <2>4 DEF PurgeDies, PurgeRefsDone
<1>4. ExactTypes'
  BY <1>1, <1>2, <1>3 DEF ExactInv, ExactTypes
<1>. QED
  BY <1>1, <1>3, <1>4, NothingReferred

\* The refs purge lists are those nothing needs: a worktree restored from one is gone.
LEMMA PurgeLooksStep == ASSUME ForkInv, ExactInv, PurgeLooks PROVE ExactInv'
<1>. DEFINE doomed == {k \in Keys(purge.entries) :
                          /\ RefPresent(purge.entries, k[1], k[2])
                          /\ Unreferenced(purge.entries, k[1], k[2])}
<1>1. /\ purge.pc = "trees"
      /\ purge' = [purge EXCEPT !.pc = "refs", !.doomed = doomed]
      /\ UNCHANGED <<refs, moves, entries, fork, manifest, trees, pins, journaled>>
  BY DEF PurgeLooks, disk
<1>2. ASSUME NEW r \in Repos, NEW x \in Snapshots, <<r, x>> \in doomed PROVE Needless(r, x)
  <2>1. x \in purge.entries[r].refs /\ Unreferenced(purge.entries, r, x)
    BY <1>2 DEF Keys
  <2>2. x \in entries[r].refs /\ entries[r].trees \subseteq purge.entries[r].trees \cup purge.late
    BY <1>1, <2>1 DEF ExactInv, LooksAtAll
  <2>3. ASSUME NEW f \in Forks \ purge.late, fork[f].snap = x, f \in entries[r].trees
        PROVE  f \notin trees
    <3>1. f \in RestoredFrom(purge.entries, r, x)
      BY <2>2, <2>3 DEF RestoredFrom
    <3>2. TreeAbsent(purge.entries, r, f)
      BY <2>1, <3>1 DEF Unreferenced, Unjudged
    <3>. QED
      BY <3>2 DEF TreeAbsent
  <2>. QED
    BY <2>1, <2>2, <2>3 DEF Needless, Unreferenced, Named, Manifests
<1>. HIDE DEF doomed
<1>3. purge' = [pc |-> "refs", entries |-> purge.entries, todo |-> purge.todo,
                doomed |-> doomed, failed |-> purge.failed, late |-> purge.late]
  BY <1>1 DEF ExactInv, ExactTypes
<1>4. ExactTypes'
  BY <1>1, <1>3 DEF ExactInv, ExactTypes
<1>5. NoManifestYet' /\ NoEntryYet' /\ LooksAtAll'
  BY <1>1, <1>3 DEF ExactInv, NoManifestYet, NoEntryYet, LooksAtAll
<1>6. DoomedAreNeedless'
  BY <1>1, <1>2, <1>3 DEF DoomedAreNeedless, Needless
<1>. QED
  BY <1>4, <1>5, <1>6 DEF ExactInv

\* A registry that is forgotten leaves no purge running.
LEMMA RegistryForgetsStep == ASSUME ForkInv, ExactInv, PurgeRegistry PROVE ExactInv'
<1>1. /\ entries' = entries \/ entries' = [r \in Repos |-> Unrecorded]
      /\ purge' = NoPurge
      /\ UNCHANGED <<refs, moves, fork, manifest>>
  BY DEF PurgeRegistry, disk
<1>2. purge'.pc = "idle"
  BY <1>1 DEF NoPurge
<1>3. ExactTypes'
  BY <1>1, NoPurgeType DEF ExactInv, ExactTypes
<1>4. NoEntryYet'
  BY <1>1 DEF ExactInv, NoEntryYet, Unrecorded
<1>. QED
  BY <1>1, <1>2, <1>3, <1>4 DEF ExactInv, NoManifestYet, LooksAtAll, DoomedAreNeedless

\* Every step preserves what makes purge exact.
LEMMA ExactStep == ASSUME ForkInv, ExactInv, [ForkNext]_forkVars PROVE ExactInv'
<1>1. ASSUME NEW f \in Forks, ForkNext,
             \/ DropManifest(f) \/ \E place \in Places, x \in Snapshots : ReadJournal(f, place, x)
             \/ WriteCreating(f) \/ Fails(f) \/ RollBack(f) \/ WriteFailed(f) \/ WriteReady(f)
             \/ \E r \in Repos : AddWorktree(f, r) \/ RecordWorktree(f, r)
             \/ ProtectArm(f) \/ ScoreArm(f) \/ RestoreArm(f) \/ CleanUpArm(f) \/ ForkDies(f)
      PROVE  ExactInv'
  BY <1>1, DropManifestStep, ReadStep, GoesOnStep, ManifestStep, RecordTreeStep
<1>2. ASSUME NEW r \in Repos, NEW x \in Snapshots, Capture(r, x) \/ Pin(r, x) PROVE ExactInv'
  BY <1>2, RecordRefStep
<1>. QED
  BY <1>1, <1>2, OutsideActions, PurgeBeginsStep, PurgeOnStep, PurgeLooksStep, RegistryForgetsStep
  DEF ForkNext

\* What purge deletes is a ref it was sent for, at its recorded target, that nothing needs but a
\* fork that overtook it; and nothing else deletes refs, but the user.
THEOREM OnlyNeedlessGo == ForkSpec => PurgeIsExact
<1>1. ASSUME ForkInv, ExactInv, [ForkNext]_forkVars, NEW r \in Repos, NEW x \in Snapshots,
             purge.pc = "refs", refs[r][x] # "absent", refs'[r][x] = "absent", moves' = moves
      PROVE  Needless(r, x) /\ refs[r][x] = "exact"
  <2>1. PICK s \in Repos, y \in Snapshots : PurgeRef(s, y)
    <3>1. moves \in Nat
      BY <1>1 DEF ExactInv, ExactTypes
    <3>2. ~Capture(r, x)
      BY <1>1 DEF Capture, NoPurger
    <3>. QED
      BY <1>1, <3>1 DEF ForkNext, Capture, Pin, Unpin, ChangeRef, DropJournals, DropManifest,
         ReadJournal, WriteCreating, AddWorktree, RecordWorktree, PurgeTree, RollBack, Fails,
         WriteFailed, WriteReady, ProtectArm, ScoreArm, RestoreArm, CleanUpArm, PruneFork, ForkDies,
         DeleteTree, PurgeBegins, PurgeLooks, PurgeRegistry, PurgeDies, PurgeRefsDone, Move, Copy,
         Acts, NoPurger, disk, forkVars
  <2>2. refs \in [Repos -> [Snapshots -> RefStates]]
    BY <1>1 DEF ExactInv, ExactTypes
  <2>3. refs[s][y] = "exact" /\ refs' = [refs EXCEPT ![s][y] = "absent"] /\ <<s, y>> \in purge.doomed
    BY <1>1, <2>1 DEF PurgeRef
  <2>4. s = r /\ y = x
    BY <1>1, <2>2, <2>3
  <2>. QED
    BY <1>1, <2>3, <2>4 DEF ExactInv, DoomedAreNeedless
<1>2. ForkInv /\ ExactInv /\ [ForkNext]_forkVars =>
        \A r \in Repos, x \in Snapshots :
            purge.pc = "refs" /\ refs[r][x] # "absent" /\ refs'[r][x] = "absent" /\ moves' = moves =>
                /\ x \in entries[r].refs /\ refs[r][x] = "exact"
                /\ <<r, x>> \notin pins /\ x \notin journaled
                /\ \A f \in Forks \ purge.late :
                      fork[f].snap = x => /\ manifest[f] = "absent"
                                          /\ f \in trees => f \notin entries[r].trees
  BY <1>1 DEF Needless
<1>3. ForkInv /\ ExactInv /\ [ForkNext]_forkVars => ExactInv'
  BY ExactStep
<1>. QED
  BY <1>2, <1>3, ExactInit, ForkInvariant, PTL DEF ForkSpec, PurgeIsExact
=============================================================================

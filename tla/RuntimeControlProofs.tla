-------------------------- MODULE RuntimeControlProofs --------------------------
(***************************************************************************)
(* A control is sent once, its durable record only advances, an open       *)
(* interrupt always has a deadline, and an advisory is not both recorded   *)
(* as seen in its turn and written off, for any number of controls, turns, *)
(* connections and processes, and any size of the telemetry queue.         *)
(*                                                                         *)
(* For the first three the server, the notifications and the ThreadState   *)
(* are only what may happen next: they rest on the ids in memory, the      *)
(* queue and the journal, and hold whatever is notified, in whatever       *)
(* order. The last one rests on the order in which a server goes through   *)
(* its turns.                                                              *)
(***************************************************************************)
EXTENDS RuntimeControl, FiniteSetTheorems, SequenceTheorems, TLAPS

ControlTypes ==
    /\ queue \in Seq(Events) /\ Len(queue) <= QueueSize
    /\ journal \in SUBSET Events
    /\ requestIds \in SUBSET Controls /\ requests \in SUBSET Steers
    /\ accepted \in SUBSET Controls
    /\ settled \in SUBSET Interrupts /\ deadlines \in SUBSET Interrupts
    /\ call \in [Controls -> {"idle", "done"} \cup InFlight]

\* A process that is gone remembers nothing.
OffIsEmpty ==
    conn = "off" => queue = <<>> /\ requestIds = {} /\ requests = {} /\ accepted = {}
                    /\ settled = {} /\ deadlines = {}

\* Whatever is known of a control, its id is remembered.
IdsKnown ==
    /\ requests \cup accepted \cup settled \subseteq requestIds
    /\ conn # "off" => \A c \in Controls, p \in Phases : <<c, p>> \in Recorded => c \in requestIds
    /\ \A c \in Controls : call[c] \in InFlight => c \in requestIds

\* A control whose reply is not processed yet is neither accepted nor settled.
FlyingIsOpen ==
    \A c \in Controls : call[c] \in InFlight => c \notin accepted \cup settled

\* Between acceptance and verdict an interrupt has a deadline, and only then.
DeadlineIffOpen == (accepted \cap Interrupts) \ settled = deadlines

AcceptedIsKnown ==
    conn # "off" => \A c \in Controls : <<c, "rpc_accepted">> \in Recorded => c \in accepted

\* A verdict on record ends a control: nothing is in flight, nothing waits for it, and no other
\* verdict is recorded.
VerdictIsLast ==
    \A c \in Controls, p \in Verdicts : <<c, p>> \in Recorded =>
        /\ call[c] \notin InFlight
        /\ c \notin deadlines
        /\ c \in Steers /\ p # "rpc_accepted_only" =>
              c \notin accepted /\ <<c, "rpc_accepted">> \notin Recorded
        /\ \A q \in Verdicts : <<c, q>> \in Recorded => q = p

ControlInv ==
    /\ ControlTypes
    /\ OffIsEmpty
    /\ IdsKnown
    /\ FlyingIsOpen
    /\ DeadlineIffOpen
    /\ AcceptedIsKnown
    /\ VerdictIsLast

-----------------------------------------------------------------------------
(* Lemmas about the telemetry queue. *)

\* What a concatenation holds.
LEMMA ToSetConcat ==
    ASSUME NEW S, NEW q \in Seq(S), NEW s \in Seq(S)
    PROVE  q \o s \in Seq(S) /\ Len(q \o s) = Len(q) + Len(s) /\ ToSet(q \o s) = ToSet(q) \cup ToSet(s)
<1>1. q \o s \in Seq(S) /\ Len(q \o s) = Len(q) + Len(s)
  OBVIOUS
<1>2. ToSet(q \o s) \subseteq ToSet(q) \cup ToSet(s)
  BY DEF ToSet
<1>3. ToSet(q) \subseteq ToSet(q \o s)
  BY DEF ToSet
<1>4. ASSUME NEW i \in 1 .. Len(s) PROVE s[i] \in ToSet(q \o s)
  <2>1. Len(q) + i \in 1 .. Len(q \o s) /\ (q \o s)[Len(q) + i] = s[i]
    BY <1>1
  <2>. QED
    BY <1>1, <2>1 DEF ToSet
<1>. QED
  BY <1>1, <1>2, <1>3, <1>4 DEF ToSet

\* The part of a sequence that fits.
LEMMA UpToType ==
    ASSUME NEW S, NEW s \in Seq(S), NEW n \in Nat
    PROVE  UpTo(s, n) \in Seq(S) /\ Len(UpTo(s, n)) <= n /\ ToSet(UpTo(s, n)) \subseteq ToSet(s)
BY DEF UpTo, ToSet

\* What is queued is a part of what is offered, and the queue keeps its bound.
LEMMA EnqueueType ==
    ASSUME ControlTypes, NEW s \in Seq(Events), Enqueue(s)
    PROVE  /\ queue' \in Seq(Events) /\ Len(queue') <= QueueSize
           /\ ToSet(queue') \subseteq ToSet(queue) \cup ToSet(s)
<1>. DEFINE n == QueueSize - Len(queue)
<1>1. n \in Nat /\ queue \in Seq(Events) /\ Len(queue) \in Nat /\ QueueSize \in Nat
  BY ControlAssumption DEF ControlTypes
<1>2. UpTo(s, n) \in Seq(Events) /\ Len(UpTo(s, n)) <= n /\ ToSet(UpTo(s, n)) \subseteq ToSet(s)
  BY <1>1, UpToType
<1>3. queue' = queue \o UpTo(s, n)
  BY DEF Enqueue
<1>4. Len(UpTo(s, n)) \in Nat
  BY <1>2
<1>. QED
  BY <1>1, <1>2, <1>3, <1>4, ToSetConcat

\* The one event of a control.
LEMMA NewType ==
    ASSUME NEW c \in Controls, NEW p \in Phases
    PROVE  New(c, p) \in Seq(Events) /\ ToSet(New(c, p)) \subseteq {<<c, p>>}
<1>1. <<c, p>> \in Events
  BY DEF Events
<1>. QED
  BY <1>1 DEF New, ToSet

\* The events of a set of controls.
LEMMA NewOfEachType ==
    ASSUME NEW C \in SUBSET Controls, NEW p \in Phases, NEW s \in NewOfEach(C, p)
    PROVE  s \in Seq(Events) /\ ToSet(s) \subseteq C \X {p}
<1>. DEFINE D == {c \in C : <<c, p>> \notin telemetryIds}
<1>1. IsFiniteSet(D)
  BY ControlAssumption, FS_Subset DEF Controls
<1>2. Cardinality(D) \in Nat
  BY <1>1, FS_CardinalityType
<1>3. PICK order \in SetToSeqs(D) : s = [i \in DOMAIN order |-> <<order[i], p>>]
  BY DEF NewOfEach
<1>4. order \in [1 .. Cardinality(D) -> D]
  BY <1>3 DEF SetToSeqs
<1>5. s \in [1 .. Cardinality(D) -> C \X {p}]
  BY <1>3, <1>4
<1>6. s \in [1 .. Cardinality(D) -> Events]
  BY <1>5 DEF Events
<1>7. s \in Seq(Events) /\ DOMAIN s = 1 .. Cardinality(D)
  BY <1>2, <1>6, SeqDef
<1>8. ToSet(s) \subseteq C \X {p}
  BY <1>5, <1>7 DEF ToSet
<1>. QED
  BY <1>7, <1>8

-----------------------------------------------------------------------------
(* Lemmas: one for each way in which a step may touch the controls. *)

Sent(c) == call[c] \in InFlight

\* A step that records nothing new and leaves the ids alone.
LEMMA NothingNew ==
    ASSUME ControlInv, Recorded' \subseteq Recorded, ControlTypes',
           UNCHANGED <<requestIds, requests, accepted, settled, deadlines>>,
           \A c \in Controls : Sent(c)' <=> Sent(c),
           conn = "off" <=> conn' = "off", conn = "off" => queue' = queue
    PROVE  ControlInv'
<1>1. OffIsEmpty' /\ IdsKnown' /\ FlyingIsOpen' /\ DeadlineIffOpen' /\ AcceptedIsKnown'
  BY DEF ControlInv, OffIsEmpty, IdsKnown, FlyingIsOpen, DeadlineIffOpen, AcceptedIsKnown, Sent
<1>2. VerdictIsLast'
  BY DEF ControlInv, VerdictIsLast, Sent
<1>. QED
  BY <1>1, <1>2 DEF ControlInv

\* A step about one control: what it must respect is said about that control alone.
LEMMA OneControl ==
    ASSUME ControlInv, NEW c \in Controls,
           conn # "off", conn' = conn, ControlTypes',
           Recorded' \subseteq Recorded \cup ({c} \X Phases),
           requestIds' = requestIds \cup {c},
           requests' \subseteq requests \cup {c},
           \A d \in Controls \ {c} : /\ d \in accepted' <=> d \in accepted
                                     /\ d \in settled' <=> d \in settled
                                     /\ d \in deadlines' <=> d \in deadlines
                                     /\ call'[d] = call[d],
           Sent(c)' => c \notin accepted' \cup settled',
           c \in deadlines' <=> c \in Interrupts /\ c \in accepted' /\ c \notin settled',
           <<c, "rpc_accepted">> \in Recorded' => c \in accepted',
           \A p \in Verdicts : <<c, p>> \in Recorded' =>
               /\ ~Sent(c)' /\ c \notin deadlines'
               /\ c \in Steers /\ p # "rpc_accepted_only" =>
                     c \notin accepted' /\ <<c, "rpc_accepted">> \notin Recorded'
               /\ \A q \in Verdicts : <<c, q>> \in Recorded' => q = p
    PROVE  ControlInv'
<1>1. \A d \in Controls \ {c}, p \in Phases : <<d, p>> \in Recorded' => <<d, p>> \in Recorded
  OBVIOUS
<1>2. Verdicts \subseteq Phases /\ "rpc_accepted" \in Phases
  BY DEF Phases
<1>3. OffIsEmpty' /\ FlyingIsOpen'
  BY DEF ControlInv, OffIsEmpty, FlyingIsOpen, Sent
<1>4. IdsKnown'
  <2>1. accepted' \subseteq Controls /\ settled' \subseteq Controls
    BY DEF ControlTypes, Controls
  <2>2. requests' \cup accepted' \cup settled' \subseteq requestIds'
    BY <2>1 DEF ControlInv, IdsKnown
  <2>3. conn' # "off" => \A d \in Controls, p \in Phases : <<d, p>> \in Recorded' => d \in requestIds'
    BY <1>1 DEF ControlInv, IdsKnown
  <2>4. \A d \in Controls : call'[d] \in InFlight => d \in requestIds'
    BY DEF ControlInv, IdsKnown
  <2>. QED
    BY <2>2, <2>3, <2>4 DEF IdsKnown
<1>5. DeadlineIffOpen'
  <2>1. \A d \in Interrupts \ {c} : d \in deadlines' <=> d \in accepted' /\ d \notin settled'
    BY DEF ControlInv, DeadlineIffOpen, Controls
  <2>2. deadlines' \subseteq Interrupts
    BY DEF ControlTypes
  <2>. QED
    BY <2>1, <2>2 DEF DeadlineIffOpen
<1>6. AcceptedIsKnown'
  BY <1>1, <1>2 DEF ControlInv, AcceptedIsKnown
<1>7. VerdictIsLast'
  <2>1. ASSUME NEW d \in Controls \ {c}, NEW p \in Verdicts, <<d, p>> \in Recorded'
        PROVE  /\ call'[d] \notin InFlight
               /\ d \notin deadlines'
               /\ d \in Steers /\ p # "rpc_accepted_only" =>
                     d \notin accepted' /\ <<d, "rpc_accepted">> \notin Recorded'
               /\ \A q \in Verdicts : <<d, q>> \in Recorded' => q = p
    BY <1>1, <1>2, <2>1 DEF ControlInv, VerdictIsLast
  <2>. QED
    BY <2>1 DEF VerdictIsLast, Sent
<1>. QED
  BY <1>3, <1>4, <1>5, <1>6, <1>7 DEF ControlInv

\* What is known of a control whose reply was not processed yet: nothing.
LEMMA SentIsUnrecorded ==
    ASSUME ControlInv, NEW c \in Controls, Sent(c)
    PROVE  /\ c \in requestIds /\ c \notin accepted \cup settled \cup deadlines /\ conn # "off"
           /\ <<c, "rpc_accepted">> \notin Recorded
           /\ \A p \in Verdicts : <<c, p>> \notin Recorded
BY DEF ControlInv, OffIsEmpty, IdsKnown, FlyingIsOpen, DeadlineIffOpen, AcceptedIsKnown, VerdictIsLast, Sent

\* What is known of a control whose id is not: nothing.
LEMMA UnknownIsUnrecorded ==
    ASSUME ControlInv, NEW c \in Controls, c \notin requestIds, conn # "off"
    PROVE  /\ ~Sent(c) /\ c \notin accepted \cup settled \cup deadlines
           /\ \A p \in Phases : <<c, p>> \notin Recorded
BY DEF ControlInv, IdsKnown, DeadlineIffOpen, Sent

-----------------------------------------------------------------------------
(* The actions. *)

\* The control of a dispatch, not known before.
LEMMA DispatchStep ==
    ASSUME ControlInv, NEW c \in Controls, NEW t \in Turns, NEW e \in Nat, Dispatch(c, t, e)
    PROVE  ControlInv'
<1>1. /\ conn # "off" /\ conn' = conn /\ c \notin requestIds /\ requestIds' = requestIds \cup {c}
      /\ UNCHANGED <<accepted, settled, deadlines, journal>>
  BY DEF Dispatch, durable
<1>2. /\ ~Sent(c) /\ c \notin accepted \cup settled \cup deadlines
      /\ \A p \in Phases : <<c, p>> \notin Recorded
  BY <1>1, UnknownIsUnrecorded
<1>3. CASE call' = [call EXCEPT ![c] = "sent"] /\ Enqueue(New(c, "dispatch_started"))
           /\ requests' = requests \cup ({c} \cap Steers)
  <2>1. "dispatch_started" \in Phases \ (Verdicts \cup {"rpc_accepted"})
    BY DEF Phases, Verdicts
  <2>2. /\ queue' \in Seq(Events) /\ Len(queue') <= QueueSize
        /\ Recorded' \subseteq Recorded \cup {<<c, "dispatch_started">>}
    BY <1>1, <1>3, <2>1, NewType, EnqueueType DEF ControlInv, Recorded
  <2>3. ControlTypes'
    BY <1>1, <1>3, <2>2 DEF ControlInv, ControlTypes, InFlight
  <2>4. {<<c, "dispatch_started">>} \subseteq {c} \X Phases
    BY <2>1
  <2>5. \A p \in Phases : <<c, p>> \in Recorded' => p = "dispatch_started"
    BY <1>2, <2>2
  <2>6. \A d \in Controls \ {c} : call'[d] = call[d]
    BY <1>3 DEF ControlInv, ControlTypes
  <2>7. "rpc_accepted" \in Phases /\ Verdicts \subseteq Phases
    BY DEF Phases
  <2>. QED
    BY <1>1, <1>2, <1>3, <2>1, <2>2, <2>3, <2>4, <2>5, <2>6, <2>7, OneControl
<1>4. CASE Enqueue(New(c, "stale")) /\ UNCHANGED <<call, requests>>
  <2>1. "stale" \in Verdicts /\ Verdicts \subseteq Phases /\ "rpc_accepted" \in Phases \ Verdicts
    BY DEF Phases, Verdicts
  <2>2. /\ queue' \in Seq(Events) /\ Len(queue') <= QueueSize
        /\ Recorded' \subseteq Recorded \cup {<<c, "stale">>}
    BY <1>1, <1>4, <2>1, NewType, EnqueueType DEF ControlInv, Recorded
  <2>3. ControlTypes'
    BY <1>1, <1>4, <2>2 DEF ControlInv, ControlTypes
  <2>4. {<<c, "stale">>} \subseteq {c} \X Phases
    BY <2>1
  <2>5. \A p \in Phases : <<c, p>> \in Recorded' => p = "stale"
    BY <1>2, <2>2
  <2>6. Sent(c)' <=> Sent(c)
    BY <1>4 DEF Sent
  <2>. QED
    BY <1>1, <1>2, <1>4, <2>1, <2>2, <2>3, <2>4, <2>5, <2>6, OneControl
<1>. QED
  BY <1>3, <1>4 DEF Dispatch

\* The RPC of a control raised.
LEMMA RaiseStep == ASSUME ControlInv, NEW c \in Controls, Raise(c) PROVE ControlInv'
<1>. DEFINE verdict == IF call[c] = "lost" THEN "unknown" ELSE call[c]
<1>1. /\ conn # "off" /\ conn' = conn /\ Sent(c)
      /\ call' = [call EXCEPT ![c] = "done"] /\ Enqueue(New(c, verdict))
      /\ UNCHANGED <<requestIds, requests, accepted, settled, deadlines, journal>>
  BY DEF Raise, Sent, InFlight, memory, durable
<1>2. verdict \in Verdicts /\ Verdicts \subseteq Phases /\ "rpc_accepted" \in Phases \ Verdicts
  BY DEF Raise, Replies, Phases, Verdicts
<1>. HIDE DEF verdict
<1>3. /\ c \in requestIds /\ c \notin accepted \cup settled \cup deadlines
      /\ <<c, "rpc_accepted">> \notin Recorded
      /\ \A p \in Verdicts : <<c, p>> \notin Recorded
  BY <1>1, SentIsUnrecorded
<1>4. /\ queue' \in Seq(Events) /\ Len(queue') <= QueueSize
      /\ Recorded' \subseteq Recorded \cup {<<c, verdict>>}
  BY <1>1, <1>2, NewType, EnqueueType DEF ControlInv, Recorded
<1>5. ControlTypes'
  BY <1>1, <1>4 DEF ControlInv, ControlTypes
<1>6. \A p \in Verdicts \cup {"rpc_accepted"} : <<c, p>> \in Recorded' => p = verdict
  BY <1>3, <1>4
<1>7. ~Sent(c)' /\ \A d \in Controls \ {c} : call'[d] = call[d]
  BY <1>1 DEF ControlInv, ControlTypes, Sent, InFlight, Replies
<1>8. {<<c, verdict>>} \subseteq {c} \X Phases /\ requestIds = requestIds \cup {c}
  BY <1>2, <1>3
<1>. QED
  BY <1>1, <1>2, <1>3, <1>4, <1>5, <1>6, <1>7, <1>8, OneControl

\* What the acceptance of a control records: the acceptance and perhaps a verdict.
LEMMA AcceptanceRecords ==
    ASSUME ControlInv, NEW c \in Controls, NEW v \in Verdicts, Sent(c), journal' = journal,
           Enqueue(New(c, "rpc_accepted") \o New(c, v)) \/ Enqueue(New(c, "rpc_accepted"))
    PROVE  /\ queue' \in Seq(Events) /\ Len(queue') <= QueueSize
           /\ Recorded' \subseteq Recorded \cup ({c} \X Phases)
           /\ \A p \in Verdicts : <<c, p>> \in Recorded' => p = v
           /\ Enqueue(New(c, "rpc_accepted")) => \A p \in Verdicts : <<c, p>> \notin Recorded'
<1>1. v \in Phases /\ "rpc_accepted" \in Phases /\ "rpc_accepted" \notin Verdicts
  BY DEF Phases, Verdicts
<1>2. /\ New(c, "rpc_accepted") \in Seq(Events) /\ New(c, v) \in Seq(Events)
      /\ ToSet(New(c, "rpc_accepted")) \subseteq {<<c, "rpc_accepted">>}
      /\ ToSet(New(c, v)) \subseteq {<<c, v>>}
  BY <1>1, NewType
<1>3. /\ New(c, "rpc_accepted") \o New(c, v) \in Seq(Events)
      /\ ToSet(New(c, "rpc_accepted") \o New(c, v)) \subseteq {<<c, "rpc_accepted">>, <<c, v>>}
  BY <1>2, ToSetConcat
<1>4. \A p \in Verdicts : <<c, p>> \notin Recorded
  BY SentIsUnrecorded
<1>5. CASE Enqueue(New(c, "rpc_accepted"))
  <2>1. /\ queue' \in Seq(Events) /\ Len(queue') <= QueueSize
        /\ Recorded' \subseteq Recorded \cup {<<c, "rpc_accepted">>}
    BY <1>2, <1>5, EnqueueType DEF ControlInv, Recorded
  <2>. QED
    BY <1>1, <1>4, <2>1
<1>6. CASE Enqueue(New(c, "rpc_accepted") \o New(c, v)) /\ ~Enqueue(New(c, "rpc_accepted"))
  <2>1. /\ queue' \in Seq(Events) /\ Len(queue') <= QueueSize
        /\ Recorded' \subseteq Recorded \cup {<<c, "rpc_accepted">>, <<c, v>>}
    BY <1>3, <1>6, EnqueueType DEF ControlInv, Recorded
  <2>. QED
    BY <1>1, <1>4, <1>6, <2>1
<1>. QED
  BY <1>5, <1>6

\* An accepted steer.
LEMMA AcceptSteerStep == ASSUME ControlInv, NEW c \in Controls, AcceptSteer(c) PROVE ControlInv'
<1>1. /\ conn # "off" /\ conn' = conn /\ Sent(c) /\ c \in Steers /\ c \notin Interrupts
      /\ call' = [call EXCEPT ![c] = "done"] /\ accepted' = accepted \cup {c}
      /\ UNCHANGED <<requestIds, requests, settled, deadlines, journal>>
      /\ \/ Enqueue(New(c, "rpc_accepted") \o New(c, "rpc_accepted_only"))
         \/ Enqueue(New(c, "rpc_accepted"))
  BY ControlAssumption DEF AcceptSteer, Sent, InFlight, Replies, durable
<1>2. "rpc_accepted_only" \in Verdicts
  BY DEF Verdicts
<1>3. /\ queue' \in Seq(Events) /\ Len(queue') <= QueueSize
      /\ Recorded' \subseteq Recorded \cup ({c} \X Phases)
      /\ \A p \in Verdicts : <<c, p>> \in Recorded' => p = "rpc_accepted_only"
  BY <1>1, <1>2, AcceptanceRecords
<1>4. c \in requestIds /\ requestIds = requestIds \cup {c} /\ c \notin deadlines
  BY <1>1, SentIsUnrecorded
<1>5. ControlTypes'
  BY <1>1, <1>3 DEF ControlInv, ControlTypes
<1>6. ~Sent(c)' /\ \A d \in Controls \ {c} : call'[d] = call[d]
  BY <1>1 DEF ControlInv, ControlTypes, Sent, InFlight, Replies
<1>. QED
  BY <1>1, <1>3, <1>4, <1>5, <1>6, OneControl

\* An accepted interrupt, settled at once or given a deadline.
LEMMA AcceptInterruptStep ==
    ASSUME ControlInv, NEW c \in Controls, AcceptInterrupt(c) PROVE ControlInv'
<1>1. /\ conn # "off" /\ conn' = conn /\ Sent(c) /\ c \in Interrupts /\ c \notin Steers
      /\ call' = [call EXCEPT ![c] = "done"] /\ accepted' = accepted \cup {c}
      /\ UNCHANGED <<requestIds, requests, journal>>
  BY ControlAssumption DEF AcceptInterrupt, Sent, InFlight, Replies, durable
<1>2. /\ c \in requestIds /\ requestIds = requestIds \cup {c}
      /\ c \notin accepted \cup settled \cup deadlines
  BY <1>1, SentIsUnrecorded
<1>3. ~Sent(c)' /\ \A d \in Controls \ {c} : call'[d] = call[d]
  BY <1>1 DEF ControlInv, ControlTypes, Sent, InFlight, Replies
<1>4. ASSUME NEW v \in Verdicts, settled' = settled \cup {c}, deadlines' = deadlines \ {c},
             Enqueue(New(c, "rpc_accepted") \o New(c, v))
      PROVE  ControlInv'
  <2>1. /\ queue' \in Seq(Events) /\ Len(queue') <= QueueSize
        /\ Recorded' \subseteq Recorded \cup ({c} \X Phases)
        /\ \A p \in Verdicts : <<c, p>> \in Recorded' => p = v
    BY <1>1, <1>4, AcceptanceRecords
  <2>2. ControlTypes'
    BY <1>1, <1>4, <2>1 DEF ControlInv, ControlTypes
  <2>. QED
    BY <1>1, <1>2, <1>3, <1>4, <2>1, <2>2, OneControl
<1>5. ASSUME settled' = settled, deadlines' = deadlines \cup {c}, Enqueue(New(c, "rpc_accepted"))
      PROVE  ControlInv'
  <2>1. "unknown" \in Verdicts
    BY DEF Verdicts
  <2>2. /\ queue' \in Seq(Events) /\ Len(queue') <= QueueSize
        /\ Recorded' \subseteq Recorded \cup ({c} \X Phases)
        /\ \A p \in Verdicts : <<c, p>> \notin Recorded'
    BY <1>1, <1>5, <2>1, AcceptanceRecords
  <2>3. ControlTypes'
    BY <1>1, <1>5, <2>2 DEF ControlInv, ControlTypes
  <2>. QED
    BY <1>1, <1>2, <1>3, <1>5, <2>2, <2>3, OneControl
<1>6. \A status : Classify(status) \in Verdicts
  BY DEF Classify, Verdicts
<1>. QED
  BY <1>4, <1>5, <1>6 DEF AcceptInterrupt, Retire

\* A deadline passes.
LEMMA ExpireStep == ASSUME ControlInv, NEW c \in Interrupts, Expire(c) PROVE ControlInv'
<1>1. /\ c \in deadlines /\ Enqueue(New(c, "unknown"))
      /\ settled' = settled \cup {c} /\ deadlines' = deadlines \ {c}
      /\ UNCHANGED <<conn, call, requestIds, requests, accepted, journal>>
  BY DEF Expire, Retire, durable
<1>2. conn # "off" /\ c \in accepted /\ c \in requestIds /\ c \notin Steers /\ c \in Controls
  BY <1>1, ControlAssumption
     DEF ControlInv, OffIsEmpty, DeadlineIffOpen, IdsKnown, Controls
<1>3. ~Sent(c) /\ \A p \in Verdicts : <<c, p>> \notin Recorded
  BY <1>1, <1>2 DEF ControlInv, FlyingIsOpen, VerdictIsLast, Sent
<1>4. "unknown" \in Verdicts \cap Phases /\ Verdicts \subseteq Phases
  BY DEF Verdicts, Phases
<1>5. /\ queue' \in Seq(Events) /\ Len(queue') <= QueueSize
      /\ Recorded' \subseteq Recorded \cup {<<c, "unknown">>}
  BY <1>1, <1>2, <1>4, NewType, EnqueueType DEF ControlInv, Recorded
<1>6. ControlTypes'
  BY <1>1, <1>5 DEF ControlInv, ControlTypes
<1>7. ~Sent(c)'
  BY <1>1, <1>3 DEF Sent
<1>8. {<<c, "unknown">>} \subseteq {c} \X Phases /\ requestIds = requestIds \cup {c}
  BY <1>2, <1>4
<1>9. \A p \in Verdicts : <<c, p>> \in Recorded' => p = "unknown"
  BY <1>3, <1>5
<1>. QED
  BY <1>1, <1>2, <1>5, <1>6, <1>7, <1>8, <1>9, OneControl

-----------------------------------------------------------------------------
\* The boundary of a turn, or its answer: accepted steers S are written off, open interrupts E
\* get their verdict v.
LEMMA ManyControls ==
    ASSUME ControlInv, NEW S \in SUBSET (accepted \cap Steers), NEW E \in SUBSET deadlines,
           NEW v \in Verdicts, conn # "off", conn' = conn,
           queue' \in Seq(Events), Len(queue') <= QueueSize, journal' = journal,
           Recorded' \subseteq Recorded \cup (S \X {"rpc_accepted_only"}) \cup (E \X {v}),
           settled' = settled \cup E, deadlines' = deadlines \ E,
           UNCHANGED <<requestIds, requests, accepted, call>>
    PROVE  ControlInv'
<1>1. /\ E \subseteq accepted \cap Interrupts /\ E \cap settled = {}
      /\ S \cup E \subseteq requestIds /\ S \cap Interrupts = {} /\ E \cap Steers = {}
  BY ControlAssumption DEF ControlInv, DeadlineIffOpen, IdsKnown, ControlTypes
<1>2. Verdicts \subseteq Phases /\ "rpc_accepted_only" \in Verdicts /\ "rpc_accepted" \notin Verdicts
  BY DEF Verdicts, Phases
<1>3. \A c, p : <<c, p>> \in Recorded' =>
          <<c, p>> \in Recorded \/ (c \in S /\ p = "rpc_accepted_only") \/ (c \in E /\ p = v)
  OBVIOUS
<1>4. ControlTypes'
  BY DEF ControlInv, ControlTypes
<1>5. OffIsEmpty' /\ IdsKnown' /\ DeadlineIffOpen'
  BY <1>1, <1>2, <1>3 DEF ControlInv, OffIsEmpty, IdsKnown, DeadlineIffOpen
<1>6. FlyingIsOpen' /\ AcceptedIsKnown'
  BY <1>1, <1>2, <1>3 DEF ControlInv, FlyingIsOpen, AcceptedIsKnown
<1>7. ASSUME NEW c \in E, NEW p \in Verdicts PROVE <<c, p>> \notin Recorded
  <2>1. c \in Controls
    BY <1>1 DEF Controls
  <2>. QED
    BY <2>1 DEF ControlInv, VerdictIsLast
<1>8. ASSUME NEW c \in S, NEW p \in Verdicts, <<c, p>> \in Recorded PROVE p = "rpc_accepted_only"
  <2>1. c \in Controls
    BY DEF Controls
  <2>. QED
    BY <1>8, <2>1 DEF ControlInv, VerdictIsLast
<1>9. VerdictIsLast'
  <2>1. ASSUME NEW c \in Controls \ (S \cup E), NEW p \in Verdicts, <<c, p>> \in Recorded'
        PROVE  /\ call'[c] \notin InFlight
               /\ c \notin deadlines'
               /\ c \in Steers /\ p # "rpc_accepted_only" =>
                     c \notin accepted' /\ <<c, "rpc_accepted">> \notin Recorded'
               /\ \A q \in Verdicts : <<c, q>> \in Recorded' => q = p
    BY <1>3, <2>1 DEF ControlInv, VerdictIsLast
  <2>2. ASSUME NEW c \in S, NEW p \in Verdicts, <<c, p>> \in Recorded'
        PROVE  p = "rpc_accepted_only" /\ call'[c] \notin InFlight /\ c \notin deadlines'
    <3>1. c \in Controls
      BY DEF Controls
    <3>2. c \notin E
      BY <1>1
    <3>. QED
      BY <1>1, <1>3, <1>8, <2>2, <3>1, <3>2 DEF ControlInv, FlyingIsOpen, ControlTypes
  <2>3. ASSUME NEW c \in E, NEW p \in Verdicts, <<c, p>> \in Recorded'
        PROVE  p = v /\ call'[c] \notin InFlight /\ c \notin deadlines' /\ c \notin Steers
    <3>1. c \in Controls /\ c \notin S
      BY <1>1 DEF Controls
    <3>. QED
      BY <1>1, <1>3, <1>7, <2>3, <3>1 DEF ControlInv, FlyingIsOpen
  <2>. QED
    BY <2>1, <2>2, <2>3 DEF VerdictIsLast
<1>. QED
  BY <1>4, <1>5, <1>6, <1>9 DEF ControlInv

\* The final answer of a turn.
LEMMA ConsumeAnsweredStep == ASSUME ControlInv, ConsumeAnswered PROVE ControlInv'
<1>. DEFINE S == Unseen(Head(inbox).turn)
<1>1. S \in SUBSET (accepted \cap Steers) /\ S \in SUBSET Controls
  BY DEF Unseen, Controls
<1>2. PICK unproved \in NewOfEach(S, "rpc_accepted_only") : Enqueue(unproved)
  BY DEF ConsumeAnswered
<1>3. /\ conn # "off" /\ conn' = conn
      /\ UNCHANGED <<requestIds, requests, accepted, settled, deadlines, call, journal>>
  BY DEF ConsumeAnswered, Next1, Consumed, memory
<1>. HIDE DEF S
<1>4. "rpc_accepted_only" \in Phases \cap Verdicts
  BY DEF Phases, Verdicts
<1>5. unproved \in Seq(Events) /\ ToSet(unproved) \subseteq S \X {"rpc_accepted_only"}
  BY <1>1, <1>4, NewOfEachType
<1>6. /\ queue' \in Seq(Events) /\ Len(queue') <= QueueSize
      /\ ToSet(queue') \subseteq ToSet(queue) \cup ToSet(unproved)
  BY <1>2, <1>5, EnqueueType DEF ControlInv
<1>7. Recorded' \subseteq Recorded \cup (S \X {"rpc_accepted_only"}) \cup ({} \X {"rpc_accepted_only"})
  BY <1>3, <1>5, <1>6 DEF Recorded
<1>8. settled' = settled \cup {} /\ deadlines' = deadlines \ {} /\ {} \in SUBSET deadlines
  BY <1>3
<1>. QED
  BY <1>1, <1>3, <1>4, <1>6, <1>7, <1>8, ManyControls

\* The end of a turn.
LEMMA ConsumeCompletedStep == ASSUME ControlInv, ConsumeCompleted PROVE ControlInv'
<1>. DEFINE t == Head(inbox).turn
            S == Unseen(t)
            E == {c \in (accepted \cap Interrupts) \ settled :
                      target[c] = [turn |-> t, epoch |-> epoch]}
            v == Classify(turns[t])
<1>1. /\ S \in SUBSET (accepted \cap Steers) /\ S \in SUBSET Controls
      /\ E \in SUBSET deadlines /\ E \in SUBSET Controls
  BY DEF Unseen, Controls, ControlInv, DeadlineIffOpen
<1>2. PICK unproved \in NewOfEach(S, "rpc_accepted_only"), ends \in NewOfEach(E, v) :
          Enqueue(unproved \o ends)
  BY DEF ConsumeCompleted
<1>3. /\ conn # "off" /\ conn' = conn /\ settled' = settled \cup E /\ deadlines' = deadlines \ E
      /\ UNCHANGED <<requestIds, requests, accepted, call, journal>>
  BY DEF ConsumeCompleted, Next1, Consumed, Retire
<1>4. v \in Verdicts \cap Phases /\ "rpc_accepted_only" \in Phases \cap Verdicts
  BY DEF Classify, Phases, Verdicts
<1>. HIDE DEF S, E, v, t
<1>5. /\ unproved \in Seq(Events) /\ ToSet(unproved) \subseteq S \X {"rpc_accepted_only"}
      /\ ends \in Seq(Events) /\ ToSet(ends) \subseteq E \X {v}
  BY <1>1, <1>4, NewOfEachType
<1>6. /\ unproved \o ends \in Seq(Events)
      /\ ToSet(unproved \o ends) = ToSet(unproved) \cup ToSet(ends)
  BY <1>5, ToSetConcat
<1>7. /\ queue' \in Seq(Events) /\ Len(queue') <= QueueSize
      /\ ToSet(queue') \subseteq ToSet(queue) \cup ToSet(unproved \o ends)
  BY <1>2, <1>6, EnqueueType DEF ControlInv
<1>8. Recorded' \subseteq Recorded \cup (S \X {"rpc_accepted_only"}) \cup (E \X {v})
  BY <1>3, <1>5, <1>6, <1>7 DEF Recorded
<1>. QED
  BY <1>1, <1>3, <1>4, <1>7, <1>8, ManyControls

\* The text of a steer.
LEMMA ConsumePromptStep == ASSUME ControlInv, ConsumePrompt PROVE ControlInv'
<1>1. /\ conn # "off" /\ conn' = conn
      /\ UNCHANGED <<requestIds, requests, accepted, settled, deadlines, call, queue>>
  BY DEF ConsumePrompt, Next1, Consumed, telemetry
<1>2. CASE journal' = journal
  <2>1. Recorded' = Recorded /\ ControlTypes'
    BY <1>1, <1>2 DEF Recorded, ControlInv, ControlTypes
  <2>. QED
    BY <1>1, <2>1, NothingNew DEF Sent
<1>3. ASSUME NEW c \in requests, NEW p \in {"observed_in_turn", "observed_outside"},
             journal' = journal \cup {<<c, p>>}
      PROVE  ControlInv'
  <2>1. /\ c \in Controls /\ c \in requestIds /\ requestIds = requestIds \cup {c}
        /\ requests \subseteq requests \cup {c}
    BY DEF ControlInv, ControlTypes, IdsKnown, Controls
  <2>2. p \in Phases /\ p \notin Verdicts \cup {"rpc_accepted"}
    BY DEF Phases, Verdicts
  <2>3. Recorded' = Recorded \cup {<<c, p>>}
    BY <1>1, <1>3 DEF Recorded
  <2>4. ControlTypes'
    BY <1>1, <1>3, <2>1, <2>2 DEF ControlInv, ControlTypes, Events
  <2>5. \A q \in Verdicts \cup {"rpc_accepted"} : <<c, q>> \in Recorded' <=> <<c, q>> \in Recorded
    BY <2>2, <2>3
  <2>6. /\ Sent(c)' => c \notin accepted' \cup settled'
        /\ c \in deadlines' <=> c \in Interrupts /\ c \in accepted' /\ c \notin settled'
        /\ <<c, "rpc_accepted">> \in Recorded' => c \in accepted'
    BY <1>1, <2>1, <2>5 DEF ControlInv, FlyingIsOpen, DeadlineIffOpen, AcceptedIsKnown, Sent
  <2>7. \A q \in Verdicts : <<c, q>> \in Recorded' =>
            /\ ~Sent(c)' /\ c \notin deadlines'
            /\ c \in Steers /\ q # "rpc_accepted_only" =>
                  c \notin accepted' /\ <<c, "rpc_accepted">> \notin Recorded'
            /\ \A r \in Verdicts : <<c, r>> \in Recorded' => r = q
    BY <1>1, <2>1, <2>5 DEF ControlInv, VerdictIsLast, Sent
  <2>8. Recorded' \subseteq Recorded \cup ({c} \X Phases)
    BY <2>2, <2>3
  <2>. QED
    BY <1>1, <2>1, <2>4, <2>6, <2>7, <2>8, OneControl
<1>. QED
  BY <1>2, <1>3 DEF ConsumePrompt

-----------------------------------------------------------------------------
\* What the server and the connection do leaves memory and telemetry alone; a call in flight stays
\* in flight until its task resumes.
LEMMA OutsideStep ==
    ASSUME ControlInv,
           \/ \E t \in Turns : StartTurn(t) \/ Answer(t) \/ \E status \in EndStatus : EndTurn(t, status)
           \/ \E c \in Steers, t \in Turns : ShowInput(c, t)
           \/ \E c \in Controls : AnswerCall(c)
           \/ ConsumeStarted \/ Connect \/ Resume \/ Reconcile \/ SkipUnloaded \/ Disconnect
           \/ UNCHANGED vars
    PROVE  ControlInv'
<1>1. UNCHANGED <<memory, telemetry, journal>> /\ (conn = "off" <=> conn' = "off")
  BY DEF StartTurn, Answer, EndTurn, ShowInput, Notify, AnswerCall, ConsumeStarted, Next1, Consumed,
         Connect, Resume, Reconcile, SkipUnloaded, Disconnect, vars, durable
<1>2. /\ call' \in [Controls -> {"idle", "done"} \cup InFlight]
      /\ \A c \in Controls : Sent(c)' <=> Sent(c)
  <2>1. CASE call' = call
    BY <2>1 DEF ControlInv, ControlTypes, Sent
  <2>2. ASSUME NEW c \in Controls, AnswerCall(c) PROVE <1>2
    BY <2>2 DEF AnswerCall, ControlInv, ControlTypes, Sent, InFlight, Replies
  <2>3. ASSUME NEW lost \in SUBSET Controls, Cut(lost) PROVE <1>2
    BY <2>3 DEF Cut, ControlInv, ControlTypes, Sent, InFlight, Replies
  <2>. QED
    BY <2>1, <2>2, <2>3
       DEF StartTurn, Answer, EndTurn, ShowInput, Notify, ConsumeStarted, Next1, Consumed,
           Connect, Resume, Reconcile, SkipUnloaded, Disconnect, vars
<1>3. ControlTypes' /\ Recorded' = Recorded
  BY <1>1, <1>2 DEF ControlInv, ControlTypes, Recorded, memory, telemetry
<1>. QED
  BY <1>1, <1>2, <1>3, NothingNew DEF memory, telemetry

\* The writer moves an event from the queue to the journal, or loses it.
LEMMA WriteStep == ASSUME ControlInv, Write PROVE ControlInv'
<1>1. /\ conn # "off" /\ conn' = conn /\ queue # <<>> /\ queue' = Tail(queue)
      /\ journal' \in {journal, journal \cup {Head(queue)}}
      /\ UNCHANGED <<requestIds, requests, accepted, settled, deadlines, call>>
  BY DEF Write, memory
<1>2. queue \in Seq(Events) /\ Len(queue) <= QueueSize /\ QueueSize \in Nat
  BY ControlAssumption DEF ControlInv, ControlTypes
<1>3. /\ queue' \in Seq(Events) /\ Len(queue') <= QueueSize
      /\ Head(queue) \in Events /\ Head(queue) \in ToSet(queue)
      /\ ToSet(queue') \subseteq ToSet(queue)
  BY <1>1, <1>2 DEF ToSet
<1>4. Recorded' \subseteq Recorded /\ ControlTypes'
  BY <1>1, <1>3 DEF Recorded, ControlInv, ControlTypes
<1>. QED
  BY <1>1, <1>4, NothingNew DEF Sent

\* A process that ends forgets everything but the journal.
LEMMA ForgetStep ==
    ASSUME ControlInv, Forget, journal' \in SUBSET Events,
           \A c \in Controls, p \in Phases : <<c, p>> \in journal' =>
               <<c, p>> \in Recorded \/ (Sent(c) /\ p = "unknown")
    PROVE  ControlInv'
<1>1. /\ conn' = "off" /\ queue' = <<>>
      /\ requestIds' = {} /\ requests' = {} /\ accepted' = {} /\ settled' = {} /\ deadlines' = {}
      /\ \A c \in Controls : call'[c] \in {"idle", "done"}
      /\ call' \in [Controls -> {"idle", "done"}]
  BY DEF Forget
<1>2. \A c \in Controls : call'[c] \notin InFlight
  BY <1>1 DEF InFlight, Replies
<1>3. Recorded' = journal' /\ Len(queue') <= QueueSize /\ queue' \in Seq(Events)
  BY <1>1, ControlAssumption DEF Recorded, ToSet
<1>4. ControlTypes' /\ OffIsEmpty' /\ IdsKnown' /\ FlyingIsOpen' /\ DeadlineIffOpen' /\ AcceptedIsKnown'
  BY <1>1, <1>2, <1>3
     DEF ControlTypes, OffIsEmpty, IdsKnown, FlyingIsOpen, DeadlineIffOpen, AcceptedIsKnown
<1>5. Verdicts \subseteq Phases /\ "rpc_accepted" \in Phases \ Verdicts /\ "unknown" \in Verdicts
  BY DEF Phases, Verdicts
<1>6. ASSUME NEW c \in Controls, Sent(c)
      PROVE  \A p \in Verdicts \cup {"rpc_accepted"} : <<c, p>> \notin Recorded
  BY <1>6, SentIsUnrecorded
<1>7. ASSUME NEW c \in Controls, NEW p \in Verdicts, <<c, p>> \in Recorded'
      PROVE  /\ c \in Steers /\ p # "rpc_accepted_only" => <<c, "rpc_accepted">> \notin Recorded'
             /\ \A q \in Verdicts : <<c, q>> \in Recorded' => q = p
  <2>1. CASE Sent(c)
    BY <1>3, <1>5, <1>6, <1>7, <2>1
  <2>2. CASE ~Sent(c)
    BY <1>3, <1>5, <1>7, <2>2 DEF ControlInv, VerdictIsLast
  <2>. QED
    BY <2>1, <2>2
<1>8. VerdictIsLast'
  BY <1>1, <1>2, <1>7 DEF VerdictIsLast
<1>. QED
  BY <1>4, <1>8 DEF ControlInv

\* A crash.
LEMMA CrashStep == ASSUME ControlInv, Crash PROVE ControlInv'
BY ForgetStep DEF Crash, ControlInv, ControlTypes, Recorded

\* close(): the queue is drained, and calls in flight end as unknown.
LEMMA ClosedRecords ==
    ASSUME ControlInv, Close
    PROVE  /\ journal' \in SUBSET Events
           /\ \A c \in Controls, p \in Phases : <<c, p>> \in journal' =>
                 <<c, p>> \in Recorded \/ (Sent(c) /\ p = "unknown")
<1>. DEFINE D == {<<c, "unknown">> : c \in {d \in Controls : call[d] = "sent"}}
<1>1. PICK order \in SetToSeqs(D) :
          journal' = journal \cup ToSet(queue) \cup ToSet(UpTo(order, QueueSize - Len(queue)))
  BY DEF Close
<1>2. D \in SUBSET Events /\ IsFiniteSet(D)
  <2>1. "unknown" \in Phases
    BY DEF Phases, Verdicts
  <2>3. IsFiniteSet(Controls \X {"unknown"})
    BY ControlAssumption, FS_Product, FS_Singleton DEF Controls
  <2>4. D \subseteq Controls \X {"unknown"}
    OBVIOUS
  <2>5. IsFiniteSet(D)
    BY <2>3, <2>4, FS_Subset
  <2>. QED
    BY <2>1, <2>5 DEF Events
<1>3. order \in Seq(D)
  <2>1. order \in [1 .. Cardinality(D) -> D] /\ Cardinality(D) \in Nat
    BY <1>1, <1>2, FS_CardinalityType DEF SetToSeqs
  <2>. QED
    BY <2>1, SeqDef
<1>. HIDE DEF D
<1>4. QueueSize - Len(queue) \in Nat /\ ToSet(queue) \subseteq Events
  BY ControlAssumption DEF ControlInv, ControlTypes, ToSet
<1>5. ToSet(UpTo(order, QueueSize - Len(queue))) \subseteq ToSet(order) /\ ToSet(order) \subseteq D
  <2>1. ToSet(UpTo(order, QueueSize - Len(queue))) \subseteq ToSet(order)
    BY <1>3, <1>4, UpToType
  <2>2. ToSet(order) \subseteq D
    BY <1>3 DEF ToSet
  <2>. QED
    BY <2>1, <2>2
<1>6. journal' \in SUBSET Events
  BY <1>1, <1>2, <1>4, <1>5 DEF ControlInv, ControlTypes
<1>7. \A c \in Controls, p \in Phases : <<c, p>> \in D => Sent(c) /\ p = "unknown"
  BY DEF D, Sent, InFlight
<1>8. \A c \in Controls, p \in Phases : <<c, p>> \in journal' =>
          <<c, p>> \in Recorded \/ (Sent(c) /\ p = "unknown")
  BY <1>1, <1>5, <1>7 DEF Recorded
<1>. QED
  BY <1>6, <1>8

LEMMA CloseStep == ASSUME ControlInv, Close PROVE ControlInv'
BY ClosedRecords, ForgetStep DEF Close

\* Hydration: the ids in memory are those of the journal, and every open interrupt is rearmed.
LEMMA RestartStep == ASSUME ControlInv, Restart PROVE ControlInv'
<1>1. /\ conn = "off" /\ conn' = "down" /\ requestIds' = KnownIds /\ requests' = KnownRequests
      /\ accepted' = Durable({"rpc_accepted"}) /\ settled' = Durable(Verdicts) \cap Interrupts
      /\ deadlines' = Resumed /\ UNCHANGED <<call, queue, journal>>
  BY DEF Restart
<1>2. queue = <<>> /\ Recorded' = journal /\ Recorded = journal
  BY <1>1 DEF ControlInv, OffIsEmpty, Recorded, ToSet
<1>3. \A c \in Controls : call[c] \notin InFlight
  BY <1>1 DEF ControlInv, OffIsEmpty, IdsKnown
<1>4. Verdicts \subseteq Phases /\ "rpc_accepted" \in Phases \ Verdicts
  BY DEF Phases, Verdicts
<1>5. ControlTypes'
  BY <1>1 DEF ControlInv, ControlTypes, KnownIds, KnownRequests, Durable, Resumed
<1>6. OffIsEmpty' /\ FlyingIsOpen' /\ DeadlineIffOpen'
  BY <1>1, <1>3 DEF OffIsEmpty, FlyingIsOpen, DeadlineIffOpen, Resumed
<1>7. IdsKnown'
  BY <1>1, <1>2, <1>3, <1>4 DEF IdsKnown, KnownIds, KnownRequests, Durable
<1>8. AcceptedIsKnown'
  BY <1>1, <1>2 DEF AcceptedIsKnown, Durable
<1>9. VerdictIsLast'
  BY <1>1, <1>2, <1>3, <1>4 DEF ControlInv, VerdictIsLast, Resumed, Durable
<1>. QED
  BY <1>5, <1>6, <1>7, <1>8, <1>9 DEF ControlInv

-----------------------------------------------------------------------------
(* The invariant. *)

LEMMA ControlInvariant == Spec => []ControlInv
<1>1. Init => ControlInv
  <2>. SUFFICES ASSUME Init PROVE ControlInv
    OBVIOUS
  <2>1. Recorded = {}
    BY DEF Init, Recorded, ToSet
  <2>2. \A c \in Controls : call[c] = "idle" /\ "idle" \notin InFlight
    BY DEF Init, InFlight, Replies
  <2>3. ControlTypes
    BY ControlAssumption DEF Init, ControlTypes
  <2>. QED
    BY <2>1, <2>2, <2>3
       DEF Init, ControlInv, OffIsEmpty, IdsKnown, FlyingIsOpen, DeadlineIffOpen, AcceptedIsKnown,
           VerdictIsLast
<1>2. ControlInv /\ [Next]_vars => ControlInv'
  <2>. SUFFICES ASSUME ControlInv, [Next]_vars PROVE ControlInv'
    OBVIOUS
  <2>1. ASSUME NEW c \in Controls, NEW t \in Turns, NEW e \in 1 .. epoch, Dispatch(c, t, e)
        PROVE  ControlInv'
    BY <2>1, DispatchStep
  <2>2. ASSUME NEW c \in Controls, Raise(c) \/ AcceptSteer(c) \/ AcceptInterrupt(c)
        PROVE  ControlInv'
    BY <2>2, RaiseStep, AcceptSteerStep, AcceptInterruptStep
  <2>3. ASSUME NEW c \in Interrupts, Expire(c) PROVE ControlInv'
    BY <2>3, ExpireStep
  <2>4. CASE ConsumeAnswered \/ ConsumeCompleted \/ ConsumePrompt
    BY <2>4, ConsumeAnsweredStep, ConsumeCompletedStep, ConsumePromptStep
  <2>5. CASE Write \/ Crash \/ Close \/ Restart
    BY <2>5, WriteStep, CrashStep, CloseStep, RestartStep
  <2>. QED
    BY <2>1, <2>2, <2>3, <2>4, <2>5, OutsideStep DEF Next
<1>. QED
  BY <1>1, <1>2, PTL DEF Spec

\* No step takes a record out of the journal.
LEMMA JournalGrows == ASSUME [Next]_vars PROVE journal \subseteq journal'
<1>. USE DEF durable
<1>1. CASE \E c \in Controls, t \in Turns, e \in 1 .. epoch : Dispatch(c, t, e)
  BY <1>1 DEF Dispatch
<1>2. CASE \E c \in Controls : AnswerCall(c) \/ Raise(c) \/ AcceptSteer(c) \/ AcceptInterrupt(c)
  BY <1>2 DEF AnswerCall, Raise, AcceptSteer, AcceptInterrupt
<1>3. CASE \E c \in Interrupts : Expire(c)
  BY <1>3 DEF Expire
<1>4. CASE ConsumeStarted \/ ConsumeAnswered \/ ConsumeCompleted \/ ConsumePrompt
  BY <1>4 DEF ConsumeStarted, ConsumeAnswered, ConsumeCompleted, ConsumePrompt
<1>5. CASE Write \/ Crash \/ Close \/ Restart
  BY <1>5 DEF Write, Crash, Close, Restart
<1>6. CASE Connect \/ Resume \/ Reconcile \/ SkipUnloaded \/ Disconnect
  BY <1>6 DEF Connect, Resume, Reconcile, SkipUnloaded, Disconnect
<1>7. CASE UNCHANGED vars
  BY <1>7 DEF vars
<1>. QED
  BY <1>1, <1>2, <1>3, <1>4, <1>5, <1>6, <1>7
     DEF Next, StartTurn, Answer, EndTurn, ShowInput, Notify

-----------------------------------------------------------------------------
(* The results. *)

\* An interrupt accepted and not yet settled has its deadline armed, and no other deadline is.
THEOREM InterruptsBounded == Spec => []OpenInterruptIsBounded
<1>1. ControlInv => OpenInterruptIsBounded
  BY DEF ControlInv, DeadlineIffOpen, OpenInterruptIsBounded
<1>. QED
  BY <1>1, ControlInvariant, PTL

\* Only a dispatch sends, of an id that memory does not know, and memory knows all of the journal.
THEOREM SentOnce == Spec => NeverResent
<1>. DEFINE Once == \A c \in Controls :
                       (call'[c] = "sent" /\ call[c] # "sent") => c \notin Durable(Phases)
<1>1. ControlInv /\ [Next]_vars => Once
  <2>. SUFFICES ASSUME ControlInv, [Next]_vars, NEW d \in Controls,
                       call'[d] = "sent", call[d] # "sent"
                PROVE  d \notin Durable(Phases)
    OBVIOUS
  <2>. USE DEF ControlInv, ControlTypes
  <2>1. ASSUME NEW c \in Controls, NEW t \in Turns, NEW e \in 1 .. epoch, Dispatch(c, t, e)
        PROVE  d \notin Durable(Phases)
    BY <2>1 DEF Dispatch, IdsKnown, Recorded, Durable
  <2>2. ASSUME NEW c \in Controls, AnswerCall(c) \/ Raise(c) \/ AcceptSteer(c) \/ AcceptInterrupt(c)
        PROVE  FALSE
    BY <2>2 DEF AnswerCall, Raise, AcceptSteer, AcceptInterrupt
  <2>3. ASSUME NEW c \in Interrupts, Expire(c) PROVE FALSE
    BY <2>3 DEF Expire
  <2>4. CASE ConsumeStarted \/ ConsumeAnswered \/ ConsumeCompleted \/ ConsumePrompt
    BY <2>4 DEF ConsumeStarted, ConsumeAnswered, ConsumeCompleted, ConsumePrompt, Consumed
  <2>5. CASE Write \/ Crash \/ Close \/ Restart
    BY <2>5 DEF Write, Crash, Close, Restart, Forget
  <2>6. CASE Connect \/ Resume \/ Reconcile \/ SkipUnloaded \/ Disconnect
    BY <2>6 DEF Connect, Resume, Reconcile, SkipUnloaded, Disconnect, Cut
  <2>7. CASE UNCHANGED vars
    BY <2>7 DEF vars
  <2>. QED
    BY <2>1, <2>2, <2>3, <2>4, <2>5, <2>6, <2>7
       DEF Next, StartTurn, Answer, EndTurn, ShowInput, Notify
<1>. QED
  BY <1>1, ControlInvariant, PTL DEF Spec, NeverResent

\* How far the record of a control got, from its one verdict, if it has one.
LEMMA StageOf ==
    ASSUME ControlInv, ControlInv', NEW c \in Controls
    PROVE  /\ \A p \in Verdicts : <<c, p>> \in journal => Stage[c] = p
           /\ \A p \in Verdicts : <<c, p>> \in journal' => Stage'[c] = p
           /\ (\A p \in Verdicts : <<c, p>> \notin journal) =>
                  Stage[c] = IF <<c, "rpc_accepted">> \in journal THEN "accepted"
                             ELSE IF <<c, "dispatch_started">> \in journal THEN "started" ELSE "absent"
           /\ (\A p \in Verdicts : <<c, p>> \notin journal') =>
                  Stage'[c] = IF <<c, "rpc_accepted">> \in journal' THEN "accepted"
                              ELSE IF <<c, "dispatch_started">> \in journal' THEN "started" ELSE "absent"
<1>1. \A p, q \in Verdicts : <<c, p>> \in journal /\ <<c, q>> \in journal => q = p
  BY DEF ControlInv, VerdictIsLast, Recorded
<1>2. \A p, q \in Verdicts : <<c, p>> \in journal' /\ <<c, q>> \in journal' => q = p
  BY DEF ControlInv, VerdictIsLast, Recorded
<1>3. ASSUME NEW p \in Verdicts, <<c, p>> \in journal PROVE Stage[c] = p
  <2>1. VerdictsOf(c) = {p}
    BY <1>1, <1>3 DEF VerdictsOf
  <2>. QED
    BY <2>1 DEF Stage
<1>4. ASSUME NEW p \in Verdicts, <<c, p>> \in journal' PROVE Stage'[c] = p
  <2>1. VerdictsOf(c)' = {p}
    BY <1>2, <1>4 DEF VerdictsOf
  <2>. QED
    BY <2>1 DEF Stage
<1>5. (\A p \in Verdicts : <<c, p>> \notin journal) => VerdictsOf(c) = {}
  BY DEF VerdictsOf
<1>6. (\A p \in Verdicts : <<c, p>> \notin journal') => VerdictsOf(c)' = {}
  BY DEF VerdictsOf
<1>. QED
  BY <1>3, <1>4, <1>5, <1>6 DEF Stage

\* The durable history implements the promise: no record is taken back, and none follows a verdict.
THEOREM RecordOnlyAdvances == Spec => PromiseKept
<1>1. Init => Promise!Init
  <2>. SUFFICES ASSUME Init, NEW c \in Controls PROVE Stage[c] = "absent"
    BY DEF Promise!Init, Stage
  <2>1. journal = {} /\ VerdictsOf(c) = {}
    BY DEF Init, VerdictsOf
  <2>. QED
    BY <2>1 DEF Stage
<1>2. ControlInv /\ ControlInv' /\ [Next]_vars => [Promise!Advance]_Stage
  <2>. SUFFICES ASSUME ControlInv, ControlInv', [Next]_vars, NEW c \in Controls
                PROVE  Stage'[c] \in Promise!After(Stage[c])
    BY DEF Promise!Advance, Stage
  <2>1. journal \subseteq journal'
    BY JournalGrows
  <2>2. Verdicts \cap {"absent", "started", "accepted"} = {}
    BY DEF Verdicts
  <2>3. Stage'[c] \in Promise!Stages
    <3>1. CASE \E p \in Verdicts : <<c, p>> \in journal'
      BY <3>1, StageOf DEF Promise!Stages
    <3>2. CASE \A p \in Verdicts : <<c, p>> \notin journal'
      BY <3>2, StageOf DEF Promise!Stages
    <3>. QED
      BY <3>1, <3>2
  <2>4. CASE \E p \in Verdicts : <<c, p>> \in journal
    <3>1. PICK p \in Verdicts : <<c, p>> \in journal
      BY <2>4
    <3>2. Stage[c] = p /\ Stage'[c] = p
      BY <2>1, <3>1, StageOf
    <3>. QED
      BY <2>2, <3>2 DEF Promise!After
  <2>5. CASE \A p \in Verdicts : <<c, p>> \notin journal
    <3>1. Stage[c] = IF <<c, "rpc_accepted">> \in journal THEN "accepted"
                     ELSE IF <<c, "dispatch_started">> \in journal THEN "started" ELSE "absent"
      BY <2>5, StageOf
    <3>2. CASE \E p \in Verdicts : <<c, p>> \in journal'
      <4>1. Stage'[c] \in Verdicts
        BY <3>2, StageOf
      <4>. QED
        BY <2>2, <2>3, <3>1, <4>1 DEF Promise!After
    <3>3. CASE \A p \in Verdicts : <<c, p>> \notin journal'
      <4>1. Stage'[c] = IF <<c, "rpc_accepted">> \in journal' THEN "accepted"
                        ELSE IF <<c, "dispatch_started">> \in journal' THEN "started" ELSE "absent"
        BY <3>3, StageOf
      <4>. QED
        BY <2>1, <2>3, <3>1, <4>1 DEF Promise!After
    <3>. QED
      BY <3>2, <3>3
  <2>. QED
    BY <2>4, <2>5
<1>3. Spec => Promise!Init /\ [][Promise!Advance]_Stage
  BY <1>1, <1>2, ControlInvariant, PTL DEF Spec
<1>. QED
  BY <1>3 DEF PromiseKept, Promise!Spec

-----------------------------------------------------------------------------
(***************************************************************************)
(* An advisory is not both seen and written off.  It is written off when   *)
(* its turn was answered or completed and its text was not seen; the text  *)
(* may still come, but is then no longer taken to be in its turn: that     *)
(* rests on the order in which a server goes through its turns, and on a   *)
(* control being sent only on a connection that is ready and was saved.    *)
(***************************************************************************)

\* What a turn notifies of, but for the text of a steer.
Kinds == {"started", "answered", "completed"}
Notes == {i \in DOMAIN inbox : inbox[i].kind \in Kinds}

\* The server goes through its turns in order, and through each in order.
Place(kind, t) == 4 * t + (IF kind = "started" THEN 1 ELSE IF kind = "answered" THEN 2 ELSE 3)
PlaceOf(i) == Place(inbox[i].kind, inbox[i].turn)

SteerTypes ==
    /\ turns \in [Turns -> {"future"} \cup LiveStatus \cup EndStatus]
    /\ inbox \in Seq([kind : Kinds \cup {"prompt"}, turn : Turns, control : Steers \cup {Unknown}])
    /\ st \in ThreadStates
    /\ snapshot \in Turns \cup {NoTurn, NoSnapshot}
    /\ target \in [Controls -> [turn : Turns \cup {NoTurn}, epoch : Nat]]

\* What was ready was saved.
Epochs ==
    /\ epoch \in Nat /\ savedEpoch \in Nat /\ savedEpoch <= epoch
    /\ conn = "ready" => savedEpoch = epoch

Past(t) == turns[t] \in EndStatus
PastAnswer(t) == turns[t] \in {"answered"} \cup EndStatus

ServerOrder == \A t, u \in Turns : t < u /\ turns[u] # "future" => Past(t)
InboxOrder ==
    /\ \A i, j \in Notes : i < j => PlaceOf(i) < PlaceOf(j)
    /\ \A i \in Notes : /\ turns[inbox[i].turn] # "future"
                        /\ inbox[i].kind = "answered" => PastAnswer(inbox[i].turn)
                        /\ inbox[i].kind = "completed" => Past(inbox[i].turn)

\* What the daemon saw of a turn is over in the server, and no earlier note of it is to come.
SeenIsPast ==
    /\ st.answer # NoTurn => /\ PastAnswer(st.answer)
                             /\ \A i \in Notes : PlaceOf(i) > Place("answered", st.answer)
    /\ \A t \in st.completed : Past(t) /\ \A i \in Notes : PlaceOf(i) > Place("completed", t)

\* A steer that was sent is aimed at a turn of a connection that was ready: the present one, or
\* one before it.
WrittenOff(c) == <<c, "rpc_accepted_only">> \in Recorded
Heard(c) ==
    call[c] = "accept" \/ c \in accepted \/ <<c, "rpc_accepted">> \in Recorded \/ WrittenOff(c)
Aimed(c) == call[c] \in InFlight \/ Heard(c)
Aims ==
    \A c \in Steers : Aimed(c) =>
        /\ target[c].turn \in Turns /\ target[c].epoch <= savedEpoch
        /\ conn = "reconciling" => target[c].epoch < epoch

Here(c) == conn = "ready" /\ target[c].epoch = epoch

\* The end of the turn of a steer that the server accepted is seen before any later turn, and
\* the turn is not active after it.
EndComes(t) == \E i \in Notes : inbox[i].kind = "completed" /\ inbox[i].turn = t
EndSeenFirst ==
    \A c \in Steers : Heard(c) /\ Here(c) =>
        LET t == target[c].turn IN
        IF t \in st.completed THEN ~(st.active = t /\ st.epoch = epoch)
        ELSE /\ Past(t) => EndComes(t)
             /\ \A j \in Notes : inbox[j].turn > t =>
                   \E i \in Notes : i < j /\ inbox[i].kind = "completed" /\ inbox[i].turn = t

\* The turn of a steer that was written off is answered or completed, and is not again taken for
\* one that is neither.
OffIsOver ==
    \A c \in Steers : WrittenOff(c) /\ Here(c) =>
        LET t == target[c].turn IN
        \/ t \in st.completed
        \/ /\ PastAnswer(t) /\ \A i \in Notes : PlaceOf(i) > Place("answered", t)
           /\ st.active = t /\ st.epoch = epoch => st.answer = t

SeenIsKnown ==
    conn # "off" => \A c \in Steers : <<c, "observed_in_turn">> \in Recorded => c \in observed

OrderInv ==
    /\ SteerTypes
    /\ Epochs
    /\ ServerOrder
    /\ InboxOrder
    /\ SeenIsPast

SteerInv ==
    /\ Aims
    /\ EndSeenFirst
    /\ OffIsOver
    /\ SeenIsKnown
    /\ AdvisoryNotBoth

-----------------------------------------------------------------------------
(* What an event makes of the ThreadState. *)

LEMMA RebasedState ==
    ASSUME NEW s \in ThreadStates, NEW e \in Nat
    PROVE  /\ Rebased(s, e) \in ThreadStates /\ Rebased(s, e).epoch = e
           /\ Rebased(s, e).active = IF s.epoch = e THEN s.active ELSE NoTurn
           /\ Rebased(s, e).completed = s.completed /\ Rebased(s, e).answer = s.answer
BY DEF Rebased, ThreadStates, NoTurn

LEMMA StartedState ==
    ASSUME NEW s \in ThreadStates, NEW t \in Turns, NEW e \in Nat
    PROVE  /\ Started(s, t, e) \in ThreadStates
           /\ t \in s.completed => Started(s, t, e) = s
           /\ t \notin s.completed =>
                 /\ Started(s, t, e).active = t /\ Started(s, t, e).epoch = e
                 /\ Started(s, t, e).completed = s.completed
                 /\ Started(s, t, e).answer = IF s.answer = t THEN t ELSE NoTurn
<1>. DEFINE r == Rebased(s, e)
<1>1. r \in ThreadStates /\ r.epoch = e /\ r.completed = s.completed /\ r.answer = s.answer
  BY RebasedState
<1>. HIDE DEF r
<1>2. CASE t \in s.completed
  BY <1>2 DEF Started
<1>3. CASE t \notin s.completed
  <2>1. Started(s, t, e) = [r EXCEPT !.active = t, !.answer = IF r.answer = t THEN t ELSE NoTurn]
    BY <1>3 DEF Started, r
  <2>. QED
    BY <1>1, <1>3, <2>1 DEF ThreadStates
<1>. QED
  BY <1>2, <1>3

LEMMA AnsweredState ==
    ASSUME NEW s \in ThreadStates, NEW t \in Turns, NEW e \in Nat
    PROVE  /\ Answered(s, t, e) \in ThreadStates
           /\ Answered(s, t, e).active = IF s.epoch = e THEN s.active ELSE NoTurn
           /\ Answered(s, t, e).epoch = e
           /\ Answered(s, t, e).completed = s.completed /\ Answered(s, t, e).answer = t
<1>. DEFINE r == Rebased(s, e)
<1>1. /\ r \in ThreadStates /\ r.epoch = e /\ r.completed = s.completed /\ r.answer = s.answer
      /\ r.active = IF s.epoch = e THEN s.active ELSE NoTurn
  BY RebasedState
<1>2. Answered(s, t, e) = [r EXCEPT !.answer = t]
  BY DEF Answered
<1>. HIDE DEF r
<1>. QED
  BY <1>1, <1>2 DEF ThreadStates

LEMMA CompletedState ==
    ASSUME NEW s \in ThreadStates, NEW t \in Turns, NEW e \in Nat
    PROVE  /\ Completed(s, t, e) \in ThreadStates
           /\ Completed(s, t, e).active = NoTurn /\ Completed(s, t, e).epoch = e
           /\ Completed(s, t, e).completed = s.completed \cup {t}
           /\ Completed(s, t, e).answer = s.answer
<1>. DEFINE r == Rebased(s, e)
<1>1. r \in ThreadStates /\ r.epoch = e /\ r.completed = s.completed /\ r.answer = s.answer
  BY RebasedState
<1>2. Completed(s, t, e) = [r EXCEPT !.active = NoTurn, !.ready = FALSE, !.completed = r.completed \cup {t}]
  BY DEF Completed
<1>. DEFINE done == r.completed \cup {t}
<1>3. done \in SUBSET Turns /\ done = s.completed \cup {t}
  BY <1>1 DEF ThreadStates
<1>4. Completed(s, t, e) = [r EXCEPT !.active = NoTurn, !.ready = FALSE, !.completed = done]
  BY <1>2
<1>. HIDE DEF r, done
<1>. QED
  BY <1>1, <1>3, <1>4 DEF ThreadStates

LEMMA ReconciledState ==
    ASSUME NEW s \in ThreadStates, NEW t \in Turns \cup {NoTurn}, NEW e \in Nat
    PROVE  /\ Reconciled(s, t, e) \in ThreadStates
           /\ Reconciled(s, t, e).completed = s.completed /\ Reconciled(s, t, e).answer = s.answer
<1>. DEFINE r == Rebased(s, e)
<1>1. r \in ThreadStates /\ r.epoch = e /\ r.completed = s.completed /\ r.answer = s.answer
  BY RebasedState
<1>2. Reconciled(s, t, e) = [r EXCEPT !.active = t, !.ready = (t # NoTurn)]
  BY DEF Reconciled
<1>. HIDE DEF r
<1>3. (t # NoTurn) \in BOOLEAN
  OBVIOUS
<1>. DEFINE b == (t # NoTurn)
<1>. HIDE DEF b
<1>4. b \in BOOLEAN /\ Reconciled(s, t, e) = [r EXCEPT !.active = t, !.ready = b]
  BY <1>2, <1>3 DEF b
<1>. QED
  BY <1>1, <1>4 DEF ThreadStates

LEMMA HydratedState ==
    ASSUME NEW s \in ThreadStates
    PROVE  /\ Hydrated(s) \in ThreadStates
           /\ Hydrated(s).completed = s.completed /\ Hydrated(s).answer = s.answer
BY DEF Hydrated, ThreadStates

-----------------------------------------------------------------------------
(* What an append and a take make of the notes. *)

Messages == [kind : Kinds \cup {"prompt"}, turn : Turns, control : Steers \cup {Unknown}]

LEMMA NotesAre ==
    ASSUME SteerTypes
    PROVE  \A i \in Notes : i \in Nat /\ inbox[i].turn \in Turns /\ inbox[i].kind \in Kinds
                            /\ PlaceOf(i) \in Nat
                            /\ PlaceOf(i) = Place(inbox[i].kind, inbox[i].turn)
<1>1. inbox \in Seq(Messages)
  BY DEF SteerTypes, Messages
<1>2. \A i \in DOMAIN inbox : i \in Nat /\ inbox[i] \in Messages
  BY <1>1
<1>3. \A t \in Turns : t \in Nat
  BY TurnAssumption DEF Turns
<1>. QED
  BY <1>2, <1>3 DEF Notes, PlaceOf, Place, Messages

LEMMA NotesGrow ==
    ASSUME SteerTypes, NEW kind \in Kinds \cup {"prompt"}, NEW t \in Turns,
           NEW c \in Steers \cup {Unknown}, Notify(kind, t, c)
    PROVE  /\ inbox' \in Seq(Messages)
           /\ \A i \in Notes : i \in Notes' /\ inbox'[i] = inbox[i]
           /\ \/ inbox' = inbox /\ ~Subscribed
              \/ kind = "prompt" /\ Notes' = Notes
              \/ \E n \in Notes' : /\ Notes' = Notes \cup {n} /\ inbox'[n].kind = kind
                                   /\ inbox'[n].turn = t /\ n \in Nat
                                   /\ \A i \in Notes : i < n
<1>1. inbox \in Seq(Messages)
  BY DEF SteerTypes, Messages
<1>. DEFINE m == [kind |-> kind, turn |-> t, control |-> c]
<1>2. m \in Messages
  BY DEF Messages
<1>3. CASE ~Subscribed
  BY <1>1, <1>3 DEF Notify, Notes
<1>4. CASE Subscribed
  <2>1. inbox' = Append(inbox, m)
    BY <1>4 DEF Notify
  <2>2. m.kind = kind /\ m.turn = t
    OBVIOUS
  <2>. HIDE DEF m
  <2>3. /\ inbox' \in Seq(Messages) /\ DOMAIN inbox' = DOMAIN inbox \cup {Len(inbox) + 1}
        /\ \A i \in DOMAIN inbox : inbox'[i] = inbox[i] /\ i < Len(inbox) + 1
        /\ inbox'[Len(inbox) + 1] = m /\ Len(inbox) + 1 \in Nat
    BY <1>1, <1>2, <2>1
  <2>. DEFINE n == Len(inbox) + 1
  <2>. HIDE DEF n
  <2>4. /\ DOMAIN inbox' = DOMAIN inbox \cup {n} /\ inbox'[n] = m /\ n \in Nat
        /\ \A i \in DOMAIN inbox : inbox'[i] = inbox[i] /\ i < n
    BY <2>3 DEF n
  <2>5. CASE kind = "prompt"
    <3>1. n \notin Notes'
      BY <2>2, <2>4, <2>5 DEF Notes, Kinds
    <3>. QED
      BY <2>3, <2>4, <2>5, <3>1 DEF Notes
  <2>6. CASE kind \in Kinds
    <3>1. n \in Notes' /\ Notes' = Notes \cup {n}
      BY <2>2, <2>4, <2>6 DEF Notes
    <3>. QED
      BY <2>2, <2>3, <2>4, <3>1 DEF Notes
  <2>. QED
    BY <2>5, <2>6
<1>. QED
  BY <1>3, <1>4

LEMMA NotesShrink ==
    ASSUME SteerTypes, inbox # <<>>, inbox' = Tail(inbox)
    PROVE  /\ inbox' \in Seq(Messages) /\ inbox[1] \in Messages
           /\ \A i \in Notes' : i \in Nat /\ i + 1 \in Notes /\ i + 1 # 1 /\ inbox'[i] = inbox[i + 1]
           /\ \A i \in Notes : i # 1 => i - 1 \in Notes' /\ inbox'[i - 1] = inbox[i]
           /\ inbox[1].kind \in Kinds => 1 \in Notes
           /\ \A i \in Notes : i \in Nat /\ (i # 1 => 1 < i)
<1>1. inbox \in Seq(Messages)
  BY DEF SteerTypes, Messages
<1>2. /\ inbox' \in Seq(Messages) /\ 1 \in DOMAIN inbox /\ inbox[1] \in Messages
      /\ \A i \in DOMAIN inbox' : i \in Nat /\ i + 1 \in DOMAIN inbox /\ i + 1 # 1
                                  /\ inbox'[i] = inbox[i + 1]
      /\ \A i \in DOMAIN inbox : i \in Nat /\ (i # 1 => 1 < i /\ i - 1 \in DOMAIN inbox'
                                                         /\ inbox'[i - 1] = inbox[i])
  BY <1>1
<1>. QED
  BY <1>2 DEF Notes

-----------------------------------------------------------------------------
(* The order of turns and of notes. *)

LEMMA OrderInit == Init => OrderInv
<1>. SUFFICES ASSUME Init PROVE OrderInv
  OBVIOUS
<1>1. inbox \in Seq(Messages) /\ Notes = {}
  BY DEF Init, Notes
<1>2. SteerTypes
  BY <1>1, TurnAssumption
     DEF Init, SteerTypes, Messages, Unobserved, ThreadStates, Turns, NoTurn, NoSnapshot
<1>3. Epochs /\ ServerOrder /\ InboxOrder /\ SeenIsPast
  BY <1>1, TurnAssumption
     DEF Init, Epochs, ServerOrder, InboxOrder, SeenIsPast, Unobserved, Turns, NoTurn
<1>. QED
  BY <1>2, <1>3 DEF OrderInv

\* A turn goes on, and its notification joins the inbox of a connection that gets it.
LEMMA TurnOrder ==
    ASSUME OrderInv, NEW t \in Turns, NEW kind \in Kinds, NEW now, turns' = [turns EXCEPT ![t] = now],
           UNCHANGED <<snapshot, conn, epoch, st, target, savedEpoch>>,
           Notify(kind, t, Unknown),
           \/ /\ kind = "started" /\ now = "active" /\ turns[t] = "future"
              /\ \A u \in Turns : u < t => turns[u] \in EndStatus
           \/ kind = "answered" /\ now = "answered" /\ turns[t] = "active"
           \/ kind = "completed" /\ now \in EndStatus /\ Live(t)
    PROVE  OrderInv'
<1>. USE DEF OrderInv
<1>1. /\ turns' \in [Turns -> {"future"} \cup LiveStatus \cup EndStatus]
      /\ turns'[t] = now /\ \A u \in Turns : u # t => turns'[u] = turns[u]
  BY DEF SteerTypes, LiveStatus
<1>2. /\ now # "future" /\ ~Past(t)
      /\ \A u \in Turns : /\ turns[u] # "future" => turns'[u] # "future"
                          /\ PastAnswer(u) => PastAnswer(u)'
                          /\ Past(u) => Past(u)'
  BY <1>1 DEF Past, PastAnswer, Live, LiveStatus, EndStatus
<1>3. /\ inbox' \in Seq(Messages)
      /\ \A i \in Notes : i \in Notes' /\ inbox'[i] = inbox[i]
      /\ \/ inbox' = inbox
         \/ \E n \in Notes' : /\ Notes' = Notes \cup {n} /\ inbox'[n].kind = kind
                              /\ inbox'[n].turn = t /\ n \in Nat
                              /\ \A i \in Notes : i < n
  BY NotesGrow DEF Kinds
<1>4. SteerTypes'
  BY <1>1, <1>3 DEF SteerTypes, Messages
<1>5. \A u \in Turns : u < t => Past(u)
  BY <1>2 DEF ServerOrder, Past, Live, LiveStatus, EndStatus
<1>6. \A u \in Turns : t < u => turns[u] = "future"
  BY <1>2 DEF ServerOrder
<1>7. ServerOrder'
  <2>. SUFFICES ASSUME NEW u \in Turns, NEW v \in Turns, u < v, turns'[v] # "future"
                PROVE  Past(u)'
    BY DEF ServerOrder
  <2>1. CASE v = t
    BY <1>2, <1>5, <2>1
  <2>2. CASE v # t
    BY <1>1, <1>2, <2>2 DEF ServerOrder
  <2>. QED
    BY <2>1, <2>2
<1>8. \A u \in Turns : u \in Nat
  BY TurnAssumption DEF Turns
<1>9. \A i \in Notes : PlaceOf(i) < Place(kind, t) /\ PlaceOf(i)' = PlaceOf(i)
  <2>. TAKE i \in Notes
  <2>1. /\ inbox[i].turn \in Turns /\ inbox[i].kind \in Kinds
        /\ PlaceOf(i) = Place(inbox[i].kind, inbox[i].turn)
    BY NotesAre
  <2>. DEFINE u == inbox[i].turn
  <2>2. turns[u] # "future" /\ (inbox[i].kind = "answered" => PastAnswer(u))
        /\ (inbox[i].kind = "completed" => Past(u))
    BY DEF InboxOrder
  <2>3. u = t => /\ inbox[i].kind # "completed"
                 /\ inbox[i].kind = "answered" => kind = "completed"
                 /\ inbox[i].kind = "started" => kind # "started"
    BY <1>2, <2>2 DEF PastAnswer, Past, Live, LiveStatus, EndStatus
  <2>4. u = t \/ u < t
    BY <1>6, <1>8, <2>1, <2>2
  <2>5. PlaceOf(i)' = PlaceOf(i)
    BY <1>3 DEF PlaceOf
  <2>. HIDE DEF u
  <2>6. u \in Nat /\ t \in Nat /\ PlaceOf(i) = Place(inbox[i].kind, u)
    BY <1>8, <2>1 DEF u
  <2>7. PlaceOf(i) < Place(kind, t)
    BY <2>1, <2>3, <2>4, <2>6 DEF Place, Kinds
  <2>. QED
    BY <2>5, <2>7
<1>10. InboxOrder'
  <2>1. CASE inbox' = inbox
    <3>1. Notes' = Notes /\ \A i \in Notes : PlaceOf(i)' = PlaceOf(i)
      BY <1>9, <2>1 DEF Notes
    <3>2. \A i \in Notes : inbox[i].turn \in Turns
      BY NotesAre
    <3>. QED
      BY <1>2, <2>1, <3>1, <3>2 DEF InboxOrder
  <2>2. ASSUME NEW n \in Notes', Notes' = Notes \cup {n}, inbox'[n].kind = kind, inbox'[n].turn = t,
               n \in Nat, \A i \in Notes : i < n
        PROVE  InboxOrder'
    <3>1. PlaceOf(n)' = Place(kind, t)
      BY <2>2 DEF PlaceOf
    <3>2. \A i \in Notes : i \in Nat /\ inbox[i].turn \in Turns
      BY NotesAre
    <3>3. \A i, j \in Notes' : i < j => PlaceOf(i)' < PlaceOf(j)'
      <4>1. ASSUME NEW i \in Notes', NEW j \in Notes', i < j PROVE PlaceOf(i)' < PlaceOf(j)'
        <5>1. i \in Notes
          <6>1. (i \in Notes \/ i = n) /\ (j \in Notes \/ j = n)
            BY <2>2, <4>1
          <6>2. j \in Nat /\ j <= n
            BY <2>2, <3>2, <6>1
          <6>3. i # n
            BY <2>2, <4>1, <6>2
          <6>. QED
            BY <6>1, <6>3
        <5>2. CASE j \in Notes
          BY <1>9, <4>1, <5>1, <5>2 DEF InboxOrder
        <5>3. CASE j = n
          BY <1>9, <3>1, <5>1, <5>3
        <5>. QED
          BY <2>2, <5>2, <5>3
      <4>. QED
        BY <4>1
    <3>4. \A i \in Notes : /\ turns'[inbox'[i].turn] # "future"
                           /\ inbox'[i].kind = "answered" => PastAnswer(inbox[i].turn)'
                           /\ inbox'[i].kind = "completed" => Past(inbox[i].turn)'
      BY <1>2, <1>3, <3>2 DEF InboxOrder, PastAnswer, Past
    <3>5. /\ turns'[t] # "future" /\ (kind = "answered" => turns'[t] \in {"answered"} \cup EndStatus)
          /\ kind = "completed" => turns'[t] \in EndStatus
      BY <1>1, <1>2
    <3>. QED
      BY <1>3, <2>2, <3>3, <3>4, <3>5 DEF InboxOrder, PastAnswer, Past
  <2>. QED
    BY <1>3, <2>1, <2>2
<1>11. SeenIsPast'
  <2>1. \A i \in Notes' : i \in Notes \/ PlaceOf(i)' = Place(kind, t)
    <3>1. CASE inbox' = inbox
      BY <3>1 DEF Notes
    <3>2. ASSUME NEW n \in Notes', Notes' = Notes \cup {n}, inbox'[n].kind = kind, inbox'[n].turn = t
          PROVE  \A i \in Notes' : i \in Notes \/ PlaceOf(i)' = Place(kind, t)
      BY <3>2 DEF PlaceOf
    <3>. QED
      BY <1>3, <3>1, <3>2
  <2>2. ASSUME st.answer # NoTurn
        PROVE  PastAnswer(st.answer)' /\ \A i \in Notes' : PlaceOf(i)' > Place("answered", st.answer)
    <3>1. /\ PastAnswer(st.answer) /\ st.answer \in Turns
          /\ \A i \in Notes : PlaceOf(i) > Place("answered", st.answer)
      BY <2>2 DEF SeenIsPast, SteerTypes, ThreadStates
    <3>2. st.answer < t \/ (st.answer = t /\ kind = "completed")
      BY <1>6, <1>8, <2>2, <3>1 DEF PastAnswer, Live, LiveStatus, EndStatus
    <3>3. Place(kind, t) > Place("answered", st.answer)
      BY <1>8, <3>1, <3>2 DEF Place
    <3>. QED
      BY <1>2, <1>9, <2>1, <3>1, <3>3
  <2>3. ASSUME NEW u \in st.completed
        PROVE  Past(u)' /\ \A i \in Notes' : PlaceOf(i)' > Place("completed", u)
    <3>1. /\ Past(u) /\ u \in Turns /\ \A i \in Notes : PlaceOf(i) > Place("completed", u)
      BY DEF SeenIsPast, SteerTypes, ThreadStates
    <3>2. u < t
      BY <1>2, <1>6, <1>8, <3>1 DEF Past, EndStatus
    <3>3. Place(kind, t) > Place("completed", u)
      BY <1>8, <3>1, <3>2 DEF Place
    <3>. QED
      BY <1>2, <1>9, <2>1, <3>1, <3>3
  <2>. QED
    BY <2>2, <2>3 DEF SeenIsPast, PastAnswer, Past
<1>. QED
  BY <1>4, <1>7, <1>10, <1>11 DEF Epochs

\* A step that leaves the server alone, and the inbox or empties it.
LEMMA ApartOrder ==
    ASSUME OrderInv, UNCHANGED turns, inbox' = inbox \/ inbox' = <<>>,
           st' \in ThreadStates, st'.completed = st.completed, st'.answer = st.answer,
           snapshot' \in Turns \cup {NoTurn, NoSnapshot},
           target' \in [Controls -> [turn : Turns \cup {NoTurn}, epoch : Nat]],
           Epochs'
    PROVE  OrderInv'
<1>1. inbox' \in Seq(Messages) /\ (Notes' = {} \/ (Notes' = Notes /\ inbox' = inbox))
  <2>1. CASE inbox' = inbox
    BY <2>1 DEF OrderInv, SteerTypes, Messages, Notes
  <2>2. CASE inbox' = <<>>
    <3>1. inbox' \in Seq(Messages) /\ DOMAIN inbox' = {}
      BY <2>2
    <3>. QED
      BY <3>1 DEF Notes
  <2>. QED
    BY <2>1, <2>2
<1>2. SteerTypes'
  BY <1>1 DEF OrderInv, SteerTypes, Messages
<1>3. ServerOrder' /\ InboxOrder' /\ SeenIsPast'
  BY <1>1 DEF OrderInv, ServerOrder, InboxOrder, SeenIsPast, PastAnswer, Past, PlaceOf
<1>. QED
  BY <1>2, <1>3 DEF OrderInv

\* A notification is consumed: what it says of its turn is seen, and was so in the server.
LEMMA ConsumeOrder ==
    ASSUME OrderInv, ConsumeStarted \/ ConsumeAnswered \/ ConsumeCompleted \/ ConsumePrompt
    PROVE  OrderInv'
<1>. USE DEF OrderInv
<1>. DEFINE m == inbox[1]
            t == inbox[1].turn
<1>1. /\ inbox # <<>> /\ inbox' = Tail(inbox) /\ savedEpoch' = epoch
      /\ UNCHANGED <<turns, snapshot, conn, epoch, target>>
  BY DEF ConsumeStarted, ConsumeAnswered, ConsumeCompleted, ConsumePrompt, Next1, Consumed, server
<1>2. /\ inbox' \in Seq(Messages) /\ m \in Messages
      /\ \A i \in Notes' : i \in Nat /\ i + 1 \in Notes /\ i + 1 # 1 /\ inbox'[i] = inbox[i + 1]
      /\ inbox[1].kind \in Kinds => 1 \in Notes
      /\ \A i \in Notes : i \in Nat /\ (i # 1 => 1 < i)
  BY <1>1, NotesShrink
<1>3. /\ t \in Turns /\ epoch \in Nat /\ st \in ThreadStates
  BY <1>2 DEF Messages, Epochs, SteerTypes
<1>4. \A i \in Notes' : PlaceOf(i)' = PlaceOf(i + 1)
  BY <1>2 DEF PlaceOf
<1>5. m.kind \in Kinds => \A i \in Notes' : PlaceOf(i)' > Place(m.kind, t)
  <2>. SUFFICES ASSUME m.kind \in Kinds, NEW i \in Notes' PROVE PlaceOf(i)' > Place(m.kind, t)
    OBVIOUS
  <2>1. 1 \in Notes /\ i + 1 \in Notes /\ 1 < i + 1
    BY <1>2
  <2>2. PlaceOf(1) < PlaceOf(i + 1)
    BY <2>1 DEF InboxOrder
  <2>3. PlaceOf(1) = Place(m.kind, t) /\ PlaceOf(1) \in Nat /\ PlaceOf(i + 1) \in Nat
    BY <2>1, NotesAre
  <2>. QED
    BY <1>4, <2>2, <2>3
<1>6. /\ m.kind = "answered" => PastAnswer(t)
      /\ m.kind = "completed" => Past(t)
  BY <1>2 DEF InboxOrder, Kinds
<1>7. ServerOrder' /\ Epochs'
  BY <1>1 DEF ServerOrder, Past, Epochs
<1>8. InboxOrder'
  <2>1. ASSUME NEW i \in Notes', NEW j \in Notes', i < j PROVE PlaceOf(i)' < PlaceOf(j)'
    <3>1. i + 1 \in Notes /\ j + 1 \in Notes /\ i + 1 < j + 1
      BY <1>2, <2>1
    <3>. QED
      BY <1>4, <3>1 DEF InboxOrder
  <2>2. \A i \in Notes' : /\ turns'[inbox'[i].turn] # "future"
                          /\ inbox'[i].kind = "answered" => PastAnswer(inbox'[i].turn)
                          /\ inbox'[i].kind = "completed" => Past(inbox'[i].turn)
    BY <1>1, <1>2 DEF InboxOrder
  <2>. QED
    BY <1>1, <2>1, <2>2 DEF InboxOrder, PastAnswer, Past
<1>9. /\ st.answer # NoTurn => /\ PastAnswer(st.answer)
                               /\ \A i \in Notes' : PlaceOf(i)' > Place("answered", st.answer)
      /\ \A u \in st.completed : Past(u) /\ \A i \in Notes' : PlaceOf(i)' > Place("completed", u)
  BY <1>2, <1>4 DEF SeenIsPast
<1>. HIDE DEF m, t
<1>10. /\ st' \in ThreadStates
       /\ st'.completed = st.completed \/ (st'.completed = st.completed \cup {t} /\ m.kind = "completed")
       /\ st'.answer \in {st.answer, NoTurn} \/ (st'.answer = t /\ m.kind = "answered")
  <2>1. CASE ConsumeStarted
    <3>1. st' = Started(st, t, epoch)
      BY <2>1 DEF ConsumeStarted, t
    <3>. QED
      BY <1>3, <3>1, StartedState
  <2>2. CASE ConsumeAnswered
    <3>1. st' = Answered(st, t, epoch) /\ m.kind = "answered"
      BY <2>2 DEF ConsumeAnswered, Next1, t, m
    <3>. QED
      BY <1>3, <3>1, AnsweredState
  <2>3. CASE ConsumeCompleted
    <3>1. st' = Completed(st, t, epoch) /\ m.kind = "completed"
      BY <2>3 DEF ConsumeCompleted, Next1, t, m
    <3>. QED
      BY <1>3, <3>1, CompletedState
  <2>4. CASE ConsumePrompt
    <3>1. st' = Rebased(st, epoch)
      BY <2>4 DEF ConsumePrompt
    <3>. QED
      BY <1>3, <3>1, RebasedState
  <2>. QED
    BY <2>1, <2>2, <2>3, <2>4
<1>11. SeenIsPast'
  <2>1. ASSUME st'.answer # NoTurn
        PROVE  /\ PastAnswer(st'.answer)
               /\ \A i \in Notes' : PlaceOf(i)' > Place("answered", st'.answer)
    <3>1. CASE st'.answer = st.answer
      BY <1>9, <2>1, <3>1
    <3>2. CASE st'.answer = t /\ m.kind = "answered"
      BY <1>5, <1>6, <3>2 DEF Kinds
    <3>. QED
      BY <1>10, <2>1, <3>1, <3>2
  <2>2. ASSUME NEW u \in st'.completed
        PROVE  Past(u) /\ \A i \in Notes' : PlaceOf(i)' > Place("completed", u)
    <3>1. CASE u \in st.completed
      BY <1>9, <3>1
    <3>2. CASE u = t /\ m.kind = "completed"
      BY <1>5, <1>6, <3>2 DEF Kinds
    <3>. QED
      BY <1>10, <2>2, <3>1, <3>2
  <2>. QED
    BY <1>1, <2>1, <2>2 DEF SeenIsPast, PastAnswer, Past
<1>12. SteerTypes'
  BY <1>1, <1>2, <1>10 DEF SteerTypes, Messages
<1>. QED
  BY <1>7, <1>8, <1>11, <1>12

\* The text of a steer is no note.
LEMMA ShownNotes ==
    ASSUME SteerTypes, NEW c \in Steers, NEW t \in Turns, ShowInput(c, t)
    PROVE  /\ inbox' \in Seq(Messages) /\ Notes' = Notes
           /\ \A i \in Notes : inbox'[i] = inbox[i]
<1>1. Notify("prompt", t, c)
  BY DEF ShowInput
<1>2. /\ inbox' \in Seq(Messages)
      /\ \A i \in Notes : i \in Notes' /\ inbox'[i] = inbox[i]
      /\ \/ inbox' = inbox /\ ~Subscribed
         \/ "prompt" = "prompt" /\ Notes' = Notes
         \/ \E n \in Notes' : /\ Notes' = Notes \cup {n} /\ inbox'[n].kind = "prompt"
                              /\ inbox'[n].turn = t /\ n \in Nat
                              /\ \A i \in Notes : i < n
  BY <1>1, NotesGrow
<1>3. \A n \in Notes' : inbox'[n].kind # "prompt"
  BY DEF Notes, Kinds
<1>4. inbox' = inbox => Notes' = Notes
  BY DEF Notes
<1>. QED
  BY <1>2, <1>3, <1>4

LEMMA ShowOrder ==
    ASSUME OrderInv, NEW c \in Steers, NEW t \in Turns, ShowInput(c, t) PROVE OrderInv'
<1>1. UNCHANGED <<turns, snapshot, conn, epoch, st, target, savedEpoch>>
  BY DEF ShowInput, Notify, durable
<1>2. /\ inbox' \in Seq(Messages) /\ Notes' = Notes
      /\ \A i \in Notes : inbox'[i] = inbox[i]
  BY ShownNotes DEF OrderInv
<1>3. SteerTypes'
  BY <1>1, <1>2 DEF OrderInv, SteerTypes, Messages
<1>4. \A i \in Notes : PlaceOf(i)' = PlaceOf(i)
  BY <1>2 DEF PlaceOf
<1>5. InboxOrder' /\ SeenIsPast'
  BY <1>1, <1>2, <1>4 DEF OrderInv, InboxOrder, SeenIsPast, PastAnswer, Past
<1>. QED
  BY <1>1, <1>3, <1>5 DEF OrderInv, Epochs, ServerOrder, Past

\* What each remaining step does to the order.
LEMMA RestOrder ==
    ASSUME OrderInv,
           \/ \E c \in Controls, t \in Turns, e \in 1 .. epoch : Dispatch(c, t, e)
           \/ \E c \in Controls : AnswerCall(c) \/ Raise(c) \/ AcceptSteer(c) \/ AcceptInterrupt(c)
           \/ \E c \in Interrupts : Expire(c)
           \/ Write \/ Connect \/ Resume \/ Reconcile \/ SkipUnloaded \/ Disconnect
           \/ Crash \/ Close \/ Restart \/ UNCHANGED vars
    PROVE  OrderInv'
<1>. USE DEF OrderInv
<1>1. UNCHANGED turns /\ (inbox' = inbox \/ inbox' = <<>>)
  BY DEF Dispatch, AnswerCall, Raise, AcceptSteer, AcceptInterrupt, Expire, Write, Connect, Resume,
         Reconcile, SkipUnloaded, Disconnect, Crash, Close, Forget, Restart, vars, server
<1>2. st' \in ThreadStates /\ st'.completed = st.completed /\ st'.answer = st.answer
  <2>1. st \in ThreadStates /\ snapshot \in Turns \cup {NoTurn, NoSnapshot} /\ epoch \in Nat
    BY DEF SteerTypes, Epochs
  <2>2. CASE Reconcile
    <3>1. st' = Reconciled(st, snapshot, epoch) /\ snapshot # NoSnapshot
      BY <2>2 DEF Reconcile
    <3>. QED
      BY <2>1, <3>1, ReconciledState
  <2>3. CASE Restart
    <3>1. st' = Hydrated(st)
      BY <2>3 DEF Restart
    <3>. QED
      BY <2>1, <3>1, HydratedState
  <2>4. CASE st' = st
    BY <2>1, <2>4
  <2>. QED
    BY <2>2, <2>3, <2>4
       DEF Dispatch, AnswerCall, Raise, AcceptSteer, AcceptInterrupt, Expire, Write, Connect, Resume,
           SkipUnloaded, Disconnect, Crash, Close, Forget, vars
<1>3. snapshot' \in Turns \cup {NoTurn, NoSnapshot}
  <2>1. CASE Resume
    BY <2>1 DEF Resume
  <2>2. CASE snapshot' \in {snapshot, NoSnapshot}
    BY <2>2 DEF SteerTypes
  <2>. QED
    BY <2>1, <2>2
       DEF Dispatch, AnswerCall, Raise, AcceptSteer, AcceptInterrupt, Expire, Write, Connect,
           Reconcile, SkipUnloaded, Disconnect, Crash, Close, Forget, Restart, vars
<1>4. target' \in [Controls -> [turn : Turns \cup {NoTurn}, epoch : Nat]]
  <2>1. ASSUME NEW c \in Controls, NEW t \in Turns, NEW e \in 1 .. epoch, Dispatch(c, t, e)
        PROVE  target' \in [Controls -> [turn : Turns \cup {NoTurn}, epoch : Nat]]
    <3>1. e \in Nat
      BY DEF Epochs
    <3>2. [turn |-> t, epoch |-> e] \in [turn : Turns \cup {NoTurn}, epoch : Nat]
      BY <3>1
    <3>3. target' = [target EXCEPT ![c] = [turn |-> t, epoch |-> e]]
      BY <2>1 DEF Dispatch
    <3>. QED
      BY <3>2, <3>3 DEF SteerTypes
  <2>2. CASE target' = target
    BY <2>2 DEF SteerTypes
  <2>. QED
    BY <2>1, <2>2
       DEF AnswerCall, Raise, AcceptSteer, AcceptInterrupt, Expire, Write, Connect, Resume,
           Reconcile, SkipUnloaded, Disconnect, Crash, Close, Forget, Restart, vars
<1>5. Epochs'
  <2>1. CASE UNCHANGED <<epoch, savedEpoch>> /\ (conn' = "ready" => conn = "ready")
    BY <2>1 DEF Epochs
  <2>2. CASE Connect
    BY <2>2 DEF Connect, Epochs, durable
  <2>3. CASE Reconcile \/ SkipUnloaded
    BY <2>3 DEF Reconcile, SkipUnloaded, Epochs
  <2>4. CASE Restart
    BY <2>4 DEF Restart, Epochs
  <2>. QED
    BY <2>1, <2>2, <2>3, <2>4
       DEF Dispatch, AnswerCall, Raise, AcceptSteer, AcceptInterrupt, Expire, Write, Resume,
           Disconnect, Crash, Close, Forget, vars, durable
<1>. QED
  BY <1>1, <1>2, <1>3, <1>4, <1>5, ApartOrder

LEMMA OrderInvariant == Spec => []OrderInv
<1>1. OrderInv /\ [Next]_vars => OrderInv'
  <2>. SUFFICES ASSUME OrderInv, [Next]_vars PROVE OrderInv'
    OBVIOUS
  <2>1. ASSUME NEW t \in Turns, StartTurn(t) PROVE OrderInv'
    BY <2>1, TurnOrder DEF StartTurn, Notify, durable, Kinds
  <2>2. ASSUME NEW t \in Turns, Answer(t) PROVE OrderInv'
    BY <2>2, TurnOrder DEF Answer, Notify, durable, Kinds
  <2>3. ASSUME NEW t \in Turns, NEW status \in EndStatus, EndTurn(t, status) PROVE OrderInv'
    BY <2>3, TurnOrder DEF EndTurn, Notify, durable, Kinds
  <2>. QED
    BY <2>1, <2>2, <2>3, ConsumeOrder, ShowOrder, RestOrder DEF Next
<1>. QED
  BY <1>1, OrderInit, PTL DEF Spec

-----------------------------------------------------------------------------
(* What a step may do to the steers. *)

Telling == {"rpc_accepted", "rpc_accepted_only", "observed_in_turn"}

\* A step that tells nothing new of a steer, and sends one only on a connection that is ready.
LEMMA SteerKept ==
    ASSUME SteerInv, OrderInv, OrderInv',
           \A c \in Steers, p \in Telling : <<c, p>> \in Recorded' => <<c, p>> \in Recorded,
           \A c \in Steers : c \in accepted' => c \in accepted \/ <<c, "rpc_accepted">> \in Recorded,
           \A c \in Steers : call'[c] = "accept" => call[c] = "accept",
           \A c \in Steers : call'[c] \in InFlight =>
               \/ call[c] \in InFlight /\ target'[c] = target[c]
               \/ conn' = "ready" /\ target'[c].turn \in Turns /\ target'[c].epoch <= savedEpoch',
           \A c \in Steers : Heard(c) => target'[c] = target[c],
           savedEpoch <= savedEpoch',
           conn' = "reconciling" => savedEpoch < epoch' \/ (conn = "reconciling" /\ epoch' = epoch),
           conn' = "ready" => \/ conn = "ready" /\ UNCHANGED <<turns, inbox, st, epoch>>
                              \/ conn = "reconciling" /\ epoch' = epoch,
           conn' # "off" => \A c \in Steers : <<c, "observed_in_turn">> \in Recorded => c \in observed'
    PROVE  SteerInv'
<1>. USE DEF SteerInv
<1>1. \A c \in Steers : /\ Heard(c)' => Heard(c) /\ target'[c] = target[c]
                        /\ WrittenOff(c)' => WrittenOff(c)
  BY DEF Heard, WrittenOff, Telling
<1>2. /\ savedEpoch \in Nat /\ savedEpoch' \in Nat /\ epoch \in Nat /\ epoch' \in Nat
      /\ \A c \in Steers : target[c].epoch \in Nat /\ target'[c].epoch \in Nat
  BY DEF OrderInv, Epochs, SteerTypes, Controls
<1>3. Aims'
  <2>. SUFFICES ASSUME NEW c \in Steers, Aimed(c)'
                PROVE  /\ target'[c].turn \in Turns /\ target'[c].epoch <= savedEpoch'
                       /\ conn' = "reconciling" => target'[c].epoch < epoch'
    BY DEF Aims
  <2>1. CASE Aimed(c) /\ target'[c] = target[c]
    BY <1>2, <2>1 DEF Aims
  <2>2. CASE conn' = "ready" /\ target'[c].turn \in Turns /\ target'[c].epoch <= savedEpoch'
    BY <2>2
  <2>. QED
    BY <1>1, <2>1, <2>2 DEF Aimed
<1>4. \A c \in Steers : Heard(c)' /\ Here(c)' =>
          Heard(c) /\ Here(c) /\ target'[c] = target[c] /\ UNCHANGED <<turns, inbox, st, epoch>>
  <2>. SUFFICES ASSUME NEW c \in Steers, Heard(c)', Here(c)'
                PROVE  /\ Heard(c) /\ Here(c) /\ target'[c] = target[c]
                       /\ UNCHANGED <<turns, inbox, st, epoch>>
    OBVIOUS
  <2>1. Heard(c) /\ target'[c] = target[c]
    BY <1>1
  <2>2. conn # "reconciling" \/ epoch' # epoch
    BY <1>2, <2>1 DEF Aims, Aimed, Here
  <2>. QED
    BY <2>1, <2>2 DEF Here
<1>5. EndSeenFirst'
  <2>. SUFFICES ASSUME NEW c \in Steers, Heard(c)', Here(c)'
                PROVE  (LET t == target[c].turn IN
                          IF t \in st.completed THEN ~(st.active = t /\ st.epoch = epoch)
                          ELSE /\ Past(t) => EndComes(t)
                               /\ \A j \in Notes : inbox[j].turn > t =>
                                     \E i \in Notes : i < j /\ inbox[i].kind = "completed" /\ inbox[i].turn = t)'
    BY DEF EndSeenFirst
  <2>1. /\ Heard(c) /\ Here(c) /\ target'[c] = target[c]
        /\ UNCHANGED <<turns, inbox, st, epoch>>
    BY <1>4
  <2>. QED
    BY <2>1 DEF EndSeenFirst, Past, EndComes, Notes
<1>6. OffIsOver'
  <2>. SUFFICES ASSUME NEW c \in Steers, WrittenOff(c)', Here(c)'
                PROVE  (LET t == target[c].turn IN
                          \/ t \in st.completed
                          \/ /\ PastAnswer(t) /\ \A i \in Notes : PlaceOf(i) > Place("answered", t)
                             /\ st.active = t /\ st.epoch = epoch => st.answer = t)'
    BY DEF OffIsOver
  <2>1. /\ WrittenOff(c) /\ Here(c) /\ target'[c] = target[c]
        /\ UNCHANGED <<turns, inbox, st, epoch>>
    BY <1>1, <1>4 DEF Heard
  <2>. QED
    BY <2>1 DEF OffIsOver, PastAnswer, PlaceOf, Notes
<1>7. SeenIsKnown' /\ AdvisoryNotBoth'
  BY DEF SeenIsKnown, AdvisoryNotBoth, Telling
<1>. QED
  BY <1>3, <1>5, <1>6, <1>7

\* What joins the queue joins the records.
LEMMA EnqueueRecords ==
    ASSUME ControlInv, NEW s \in Seq(Events), Enqueue(s), journal' = journal
    PROVE  Recorded' \subseteq Recorded \cup ToSet(s)
BY EnqueueType DEF ControlInv, Recorded

LEMMA OneRecord ==
    ASSUME ControlInv, NEW c \in Controls, NEW p \in Phases, Enqueue(New(c, p)), journal' = journal
    PROVE  Recorded' \subseteq Recorded \cup {<<c, p>>}
BY NewType, EnqueueRecords

\* A dispatch sends on a connection that is ready, or tells that its target is stale.
LEMMA DispatchSteer ==
    ASSUME ControlInv, OrderInv, OrderInv', SteerInv, NEW c \in Controls, NEW t \in Turns,
           NEW e \in 1 .. epoch, Dispatch(c, t, e)
    PROVE  SteerInv'
<1>1. /\ conn # "off" /\ c \notin requestIds
      /\ target' = [target EXCEPT ![c] = [turn |-> t, epoch |-> e]]
      /\ UNCHANGED <<turns, inbox, conn, epoch, st, accepted, observed, journal, savedEpoch>>
  BY DEF Dispatch, durable, server
<1>2. /\ ~Sent(c) /\ c \notin accepted /\ \A p \in Phases : <<c, p>> \notin Recorded
  BY <1>1, UnknownIsUnrecorded
<1>3. Recorded' \subseteq Recorded \cup {<<c, "dispatch_started">>, <<c, "stale">>}
  <2>1. "dispatch_started" \in Phases /\ "stale" \in Phases
    BY DEF Phases, Verdicts
  <2>. QED
    BY <1>1, <2>1, OneRecord DEF Dispatch
<1>4. \A d \in Steers, p \in Telling : <<d, p>> \in Recorded' => <<d, p>> \in Recorded
  BY <1>3 DEF Telling
<1>5. target'[c] = [turn |-> t, epoch |-> e] /\ \A d \in Controls : d # c => target'[d] = target[d]
  BY <1>1 DEF OrderInv, SteerTypes
<1>6. ~Heard(c)
  <2>1. "rpc_accepted" \in Phases /\ "rpc_accepted_only" \in Phases
    BY DEF Phases, Verdicts
  <2>. QED
    BY <1>2, <2>1 DEF Heard, WrittenOff, Sent, InFlight, Replies
<1>7. /\ \A d \in Controls : d # c => call'[d] = call[d]
      /\ call'[c] = call[c] \/ (call'[c] = "sent" /\ Valid(c, t, e))
  BY DEF Dispatch, ControlInv, ControlTypes
<1>8. Valid(c, t, e) => conn' = "ready" /\ e <= savedEpoch'
  BY <1>1 DEF Valid, OrderInv, Epochs
<1>9. /\ \A d \in Steers : call'[d] = "accept" => call[d] = "accept"
      /\ \A d \in Steers : call'[d] \in InFlight =>
               \/ call[d] \in InFlight /\ target'[d] = target[d]
               \/ conn' = "ready" /\ target'[d].turn \in Turns /\ target'[d].epoch <= savedEpoch'
      /\ \A d \in Steers : Heard(d) => target'[d] = target[d]
  BY <1>2, <1>5, <1>6, <1>7, <1>8 DEF Sent, Controls
<1>10. savedEpoch <= savedEpoch'
  BY <1>1 DEF OrderInv, Epochs
<1>11. conn' # "off" => \A d \in Steers : <<d, "observed_in_turn">> \in Recorded => d \in observed'
  BY <1>1 DEF SteerInv, SeenIsKnown
<1>. QED
  BY <1>1, <1>4, <1>9, <1>10, <1>11, SteerKept

\* Memory and telemetry: steps that concern interrupts, and a raised call.
LEMMA MemorySteer ==
    ASSUME ControlInv, OrderInv, OrderInv', SteerInv,
           \/ \E c \in Controls : Raise(c) \/ AcceptInterrupt(c)
           \/ \E c \in Interrupts : Expire(c)
           \/ Write \/ UNCHANGED vars
    PROVE  SteerInv'
<1>1. /\ conn' = conn
      /\ UNCHANGED <<turns, inbox, epoch, st, target, observed, savedEpoch>>
      /\ \A c \in Steers : c \in accepted' => c \in accepted
      /\ \A c \in Controls : call'[c] \in {call[c], "done"}
  BY ControlAssumption, ZenonT(40)
     DEF Raise, AcceptInterrupt, Expire, Write, vars, durable, server, memory, ControlInv, ControlTypes
<1>2. \A c \in Steers, p \in Telling : <<c, p>> \in Recorded' => <<c, p>> \in Recorded
  <2>1. ASSUME NEW c \in Controls, Raise(c) PROVE <1>2
    <3>. DEFINE verdict == IF call[c] = "lost" THEN "unknown" ELSE call[c]
    <3>1. verdict \in {"unknown", "stale", "failed"} /\ Enqueue(New(c, verdict)) /\ journal' = journal
      BY <2>1 DEF Raise, Replies, durable
    <3>2. {"unknown", "stale", "failed"} \subseteq Phases /\ {"unknown", "stale", "failed"} \cap Telling = {}
      BY DEF Phases, Verdicts, Telling
    <3>. HIDE DEF verdict
    <3>. QED
      BY <3>1, <3>2, OneRecord
  <2>2. ASSUME NEW c \in Controls, AcceptInterrupt(c) PROVE <1>2
    <3>1. c \in Interrupts /\ c \notin Steers /\ journal' = journal
      BY <2>2, ControlAssumption DEF AcceptInterrupt, durable
    <3>2. /\ Classify(terminalStatus[target[c].turn]) \in Phases /\ "rpc_accepted" \in Phases
      BY DEF Classify, Phases, Verdicts
    <3>3. PICK p \in Phases : Enqueue(New(c, "rpc_accepted") \o New(c, p))
                              \/ Enqueue(New(c, "rpc_accepted"))
      BY <2>2, <3>2 DEF AcceptInterrupt
    <3>4. /\ New(c, "rpc_accepted") \in Seq(Events) /\ New(c, p) \in Seq(Events)
          /\ ToSet(New(c, "rpc_accepted")) \subseteq {<<c, "rpc_accepted">>}
          /\ ToSet(New(c, p)) \subseteq {<<c, p>>}
      BY <3>2, NewType
    <3>5. /\ New(c, "rpc_accepted") \o New(c, p) \in Seq(Events)
          /\ ToSet(New(c, "rpc_accepted") \o New(c, p)) \subseteq {<<c, "rpc_accepted">>, <<c, p>>}
      BY <3>4, ToSetConcat
    <3>6. Recorded' \subseteq Recorded \cup {<<c, "rpc_accepted">>, <<c, p>>}
      BY <3>1, <3>3, <3>4, <3>5, EnqueueRecords
    <3>. QED
      BY <3>1, <3>6
  <2>3. ASSUME NEW c \in Interrupts, Expire(c) PROVE <1>2
    <3>1. c \in Controls /\ c \notin Steers /\ Enqueue(New(c, "unknown")) /\ journal' = journal
      BY <2>3, ControlAssumption DEF Expire, durable, Controls
    <3>2. "unknown" \in Phases
      BY DEF Phases, Verdicts
    <3>. QED
      BY <3>1, <3>2, OneRecord
  <2>4. CASE Write
    <3>1. queue \in Seq(Events) /\ queue # <<>> /\ queue' = Tail(queue)
          /\ journal' \in {journal, journal \cup {Head(queue)}}
      BY <2>4 DEF Write, ControlInv, ControlTypes
    <3>2. Recorded' \subseteq Recorded
      BY <3>1 DEF Recorded, ToSet
    <3>. QED
      BY <3>2
  <2>5. CASE UNCHANGED vars
    BY <2>5 DEF vars, durable, telemetry, Recorded
  <2>. QED
    BY <2>1, <2>2, <2>3, <2>4, <2>5
<1>3. "done" \notin InFlight /\ "accept" \in InFlight
  BY DEF InFlight, Replies
<1>4. /\ \A c \in Steers : call'[c] = "accept" => call[c] = "accept"
      /\ \A c \in Steers : call'[c] \in InFlight => call[c] \in InFlight
  BY <1>1, <1>3 DEF Controls
<1>5. savedEpoch <= savedEpoch'
  BY <1>1 DEF OrderInv, Epochs
<1>6. conn' # "off" => \A c \in Steers : <<c, "observed_in_turn">> \in Recorded => c \in observed'
  BY <1>1 DEF SteerInv, SeenIsKnown
<1>. QED
  BY <1>1, <1>2, <1>4, <1>5, <1>6, SteerKept

\* The connection.
LEMMA ConnectionSteer ==
    ASSUME ControlInv, OrderInv, OrderInv', SteerInv,
           Connect \/ Resume \/ Reconcile \/ SkipUnloaded \/ Disconnect
    PROVE  SteerInv'
<1>1. /\ UNCHANGED <<target, accepted, observed, queue, journal>>
      /\ conn # "off" /\ conn' # "off"
      /\ \A c \in Controls : call'[c] = call[c] \/ (call[c] \in InFlight /\ call'[c] = "lost")
  BY DEF Connect, Resume, Reconcile, SkipUnloaded, Disconnect, Cut, memory, telemetry, durable,
         ControlInv, ControlTypes
<1>2. Recorded' = Recorded
  BY <1>1 DEF Recorded
<1>3. /\ savedEpoch <= savedEpoch'
      /\ conn' = "reconciling" => savedEpoch < epoch' \/ (conn = "reconciling" /\ epoch' = epoch)
      /\ conn' = "ready" => conn = "reconciling" /\ epoch' = epoch
  <2>1. savedEpoch \in Nat /\ epoch \in Nat /\ savedEpoch <= epoch
    BY DEF OrderInv, Epochs
  <2>2. CASE Connect
    BY <2>1, <2>2 DEF Connect, durable
  <2>3. CASE Resume
    BY <2>1, <2>3 DEF Resume, durable
  <2>4. CASE Reconcile \/ SkipUnloaded
    BY <2>1, <2>4 DEF Reconcile, SkipUnloaded
  <2>5. CASE Disconnect
    BY <2>1, <2>5 DEF Disconnect, durable
  <2>. QED
    BY <2>2, <2>3, <2>4, <2>5
<1>4. /\ \A c \in Steers : call'[c] = "accept" => call[c] = "accept"
      /\ \A c \in Steers : call'[c] \in InFlight => call[c] \in InFlight
  BY <1>1 DEF Controls
<1>5. \A c \in Steers : <<c, "observed_in_turn">> \in Recorded => c \in observed'
  BY <1>1 DEF SteerInv, SeenIsKnown
<1>. QED
  BY <1>1, <1>2, <1>3, <1>4, <1>5, SteerKept

\* The process: what it forgets it learns again from the journal.
LEMMA ProcessSteer ==
    ASSUME ControlInv, OrderInv, OrderInv', SteerInv, Crash \/ Close \/ Restart
    PROVE  SteerInv'
<1>1. CASE Restart
  <2>1. /\ conn = "off" /\ conn' = "down" /\ accepted' = Durable({"rpc_accepted"})
        /\ observed' = Durable({"observed_in_turn", "observed_outside"})
        /\ UNCHANGED <<call, target, queue, journal, savedEpoch>>
    BY <1>1 DEF Restart
  <2>2. queue = <<>> /\ Recorded' = journal /\ Recorded = journal
    BY <2>1 DEF ControlInv, OffIsEmpty, Recorded, ToSet
  <2>3. /\ \A c \in Steers : c \in accepted' => <<c, "rpc_accepted">> \in Recorded
        /\ \A c \in Steers : <<c, "observed_in_turn">> \in Recorded => c \in observed'
    BY <2>1, <2>2 DEF Durable, Controls
  <2>4. savedEpoch <= savedEpoch'
    BY <2>1 DEF OrderInv, Epochs
  <2>. QED
    BY <2>1, <2>2, <2>3, <2>4, SteerKept
<1>2. CASE Crash \/ Close
  <2>1. /\ conn' = "off" /\ queue' = <<>> /\ accepted' = {} /\ UNCHANGED <<target, savedEpoch>>
        /\ \A c \in Controls : call'[c] \in {"idle", "done"}
    BY <1>2 DEF Crash, Close, Forget
  <2>2. \A c \in Controls : call'[c] \notin InFlight /\ call'[c] # "accept"
    BY <2>1 DEF InFlight, Replies
  <2>3. \A c \in Steers, p \in Telling : <<c, p>> \in Recorded' => <<c, p>> \in Recorded
    <3>1. Recorded' = journal'
      BY <2>1 DEF Recorded, ToSet
    <3>2. CASE Crash
      BY <3>1, <3>2 DEF Crash, Recorded
    <3>3. CASE Close
      <4>1. \A c \in Controls, p \in Phases : <<c, p>> \in journal' =>
                <<c, p>> \in Recorded \/ p = "unknown"
        BY <3>3, ClosedRecords
      <4>2. Telling \subseteq Phases \ {"unknown"}
        BY DEF Telling, Phases, Verdicts
      <4>. QED
        BY <3>1, <4>1, <4>2 DEF Controls
    <3>. QED
      BY <1>2, <3>2, <3>3
  <2>4. savedEpoch <= savedEpoch'
    BY <2>1 DEF OrderInv, Epochs
  <2>. QED
    BY <2>1, <2>2, <2>3, <2>4, SteerKept DEF Controls
<1>. QED
  BY <1>1, <1>2

\* A turn goes on: its end is notified before anything of a later turn.
LEMMA TurnSteer ==
    ASSUME OrderInv, OrderInv', SteerInv,
           NEW t \in Turns, NEW kind \in Kinds, NEW now, turns' = [turns EXCEPT ![t] = now],
           UNCHANGED <<call, conn, epoch, st, target, savedEpoch, accepted, observed, queue, journal>>,
           Notify(kind, t, Unknown),
           \/ /\ kind = "started" /\ now = "active" /\ turns[t] = "future"
              /\ \A u \in Turns : u < t => turns[u] \in EndStatus
           \/ kind = "answered" /\ now = "answered" /\ turns[t] = "active"
           \/ kind = "completed" /\ now \in EndStatus /\ Live(t)
    PROVE  SteerInv'
<1>. USE DEF SteerInv
<1>1. /\ turns'[t] = now /\ \A u \in Turns : u # t => turns'[u] = turns[u]
      /\ now \in EndStatus => kind = "completed"
      /\ ~Past(t) /\ now # "future"
      /\ \A u \in Turns : PastAnswer(u) => PastAnswer(u)'
  <2>1. turns'[t] = now /\ \A u \in Turns : u # t => turns'[u] = turns[u]
    BY DEF OrderInv, SteerTypes
  <2>. QED
    BY <2>1 DEF Past, PastAnswer, Live, LiveStatus, EndStatus
<1>2. /\ \A i \in Notes : i \in Notes' /\ inbox'[i] = inbox[i] /\ i \in Nat
      /\ \/ inbox' = inbox /\ ~Subscribed
         \/ \E n \in Notes' : /\ Notes' = Notes \cup {n} /\ inbox'[n].kind = kind
                              /\ inbox'[n].turn = t /\ n \in Nat
                              /\ \A i \in Notes : i < n
  BY NotesGrow, NotesAre DEF Kinds, OrderInv
<1>3. Recorded' = Recorded /\ \A c : Here(c)' <=> Here(c)
  BY DEF Recorded, Here
<1>4. \A c : (Heard(c)' <=> Heard(c)) /\ (WrittenOff(c)' <=> WrittenOff(c)) /\ (Aimed(c)' <=> Aimed(c))
  BY <1>3 DEF Heard, WrittenOff, Aimed
<1>5. Aims' /\ SeenIsKnown' /\ AdvisoryNotBoth'
  BY <1>3, <1>4 DEF Aims, SeenIsKnown, AdvisoryNotBoth
<1>6. \A u \in Turns : u \in Nat
  BY TurnAssumption DEF Turns
<1>7. EndSeenFirst'
  <2>. SUFFICES ASSUME NEW c \in Steers, Heard(c), Here(c), target[c].turn \notin st.completed
                PROVE  /\ Past(target[c].turn)' => EndComes(target[c].turn)'
                       /\ \A j \in Notes' : inbox'[j].turn > target[c].turn =>
                             \E i \in Notes' : i < j /\ inbox'[i].kind = "completed"
                                               /\ inbox'[i].turn = target[c].turn
    BY <1>3, <1>4 DEF EndSeenFirst
  <2>. DEFINE u == target[c].turn
  <2>1. u \in Turns /\ (Past(u) => EndComes(u))
        /\ \A j \in Notes : inbox[j].turn > u =>
              \E i \in Notes : i < j /\ inbox[i].kind = "completed" /\ inbox[i].turn = u
    BY DEF Aims, Aimed, EndSeenFirst
  <2>2. PICK n \in Notes' : /\ Notes' = Notes \cup {n} /\ inbox'[n].kind = kind
                            /\ inbox'[n].turn = t /\ n \in Nat
                            /\ \A i \in Notes : i < n
    BY <1>2 DEF Here, Subscribed
  <2>3. u \notin st.completed /\ target' = target
    OBVIOUS
  <2>. HIDE DEF u
  <2>4. EndComes(u) => \E i \in Notes : inbox'[i].kind = "completed" /\ inbox'[i].turn = u /\ i < n
                                        /\ i \in Notes'
    BY <1>2, <2>2 DEF EndComes
  <2>5. turns'[u] \in EndStatus =>
            \E i \in Notes' : inbox'[i].kind = "completed" /\ inbox'[i].turn = u
    <3>1. CASE u = t
      BY <1>1, <2>2, <3>1
    <3>2. CASE u # t
      BY <1>1, <2>1, <2>4, <3>2 DEF Past
    <3>. QED
      BY <3>1, <3>2
  <2>6. ASSUME NEW j \in Notes', inbox'[j].turn > u
        PROVE  \E i \in Notes' : i < j /\ inbox'[i].kind = "completed" /\ inbox'[i].turn = u
    <3>1. CASE j \in Notes
      <4>1. PICK i \in Notes : i < j /\ inbox[i].kind = "completed" /\ inbox[i].turn = u
        BY <1>2, <2>1, <2>6, <3>1
      <4>. QED
        BY <1>2, <4>1
    <3>2. CASE j = n
      <4>1. t > u
        BY <2>2, <2>6, <3>2
      <4>2. turns[u] \in EndStatus
        <5>1. turns'[u] \in EndStatus
          BY <1>1, <1>6, <2>1, <4>1 DEF OrderInv, ServerOrder, Past
        <5>. QED
          BY <1>1, <1>6, <2>1, <4>1, <5>1
      <4>. QED
        BY <2>1, <2>4, <3>2, <4>2 DEF Past
    <3>. QED
      BY <2>2, <3>1, <3>2
  <2>. QED
    BY <2>5, <2>6 DEF Past, EndComes, u
<1>8. OffIsOver'
  <2>. SUFFICES ASSUME NEW c \in Steers, WrittenOff(c), Here(c), target[c].turn \notin st.completed,
                       PastAnswer(target[c].turn),
                       \A i \in Notes : PlaceOf(i) > Place("answered", target[c].turn)
                PROVE  /\ PastAnswer(target[c].turn)'
                       /\ \A i \in Notes' : PlaceOf(i)' > Place("answered", target[c].turn)
    BY <1>3, <1>4 DEF OffIsOver
  <2>1. target[c].turn \in Turns
    BY DEF Aims, Aimed, Heard
  <2>. DEFINE u == target[c].turn
  <2>2. /\ u \in Turns /\ PastAnswer(u) /\ target' = target
        /\ \A i \in Notes : PlaceOf(i) > Place("answered", u)
    BY <2>1
  <2>. HIDE DEF u
  <2>3. u < t \/ (u = t /\ kind = "completed")
    BY <1>1, <1>6, <2>2 DEF OrderInv, ServerOrder, PastAnswer, Past, Live, LiveStatus, EndStatus
  <2>4. Place(kind, t) > Place("answered", u)
    BY <1>6, <2>2, <2>3 DEF Place
  <2>5. \A i \in Notes' : PlaceOf(i)' > Place("answered", u)
    <3>1. \A i \in Notes : PlaceOf(i)' = PlaceOf(i)
      BY <1>2 DEF PlaceOf
    <3>2. \A i \in Notes' : i \in Notes \/ PlaceOf(i)' = Place(kind, t)
      <4>1. CASE inbox' = inbox
        BY <4>1 DEF Notes
      <4>2. CASE \E n \in Notes' : Notes' = Notes \cup {n} /\ inbox'[n].kind = kind /\ inbox'[n].turn = t
        BY <4>2 DEF PlaceOf
      <4>. QED
        BY <1>2, <4>1, <4>2
    <3>. QED
      BY <2>2, <2>4, <3>1, <3>2
  <2>6. turns'[u] \in {"answered"} \cup EndStatus
    BY <1>1, <2>2 DEF PastAnswer
  <2>. QED
    BY <2>5, <2>6 DEF PastAnswer, u
<1>. QED
  BY <1>5, <1>7, <1>8

\* A text that shows is no note, and nothing is known of it yet.
LEMMA ShowSteer ==
    ASSUME OrderInv, OrderInv', SteerInv, NEW d \in Steers, NEW t \in Turns, ShowInput(d, t)
    PROVE  SteerInv'
<1>. USE DEF SteerInv
<1>1. UNCHANGED <<turns, call, conn, epoch, st, target, savedEpoch, accepted, observed, queue, journal>>
  BY DEF ShowInput, Notify, memory, telemetry, durable
<1>2. Notes' = Notes /\ \A i \in Notes : inbox'[i] = inbox[i]
  BY ShownNotes DEF OrderInv
<1>3. Recorded' = Recorded /\ \A c : Here(c)' <=> Here(c)
  BY <1>1 DEF Recorded, Here
<1>4. \A c : (Heard(c)' <=> Heard(c)) /\ (WrittenOff(c)' <=> WrittenOff(c)) /\ (Aimed(c)' <=> Aimed(c))
  BY <1>1, <1>3 DEF Heard, WrittenOff, Aimed
<1>5. Aims' /\ SeenIsKnown' /\ AdvisoryNotBoth'
  BY <1>1, <1>3, <1>4 DEF Aims, SeenIsKnown, AdvisoryNotBoth
<1>6. \A i \in Notes : PlaceOf(i)' = PlaceOf(i)
  BY <1>2 DEF PlaceOf
<1>7. OffIsOver'
  BY <1>1, <1>2, <1>3, <1>4, <1>6 DEF OffIsOver, PastAnswer
<1>8. EndSeenFirst'
  BY <1>1, <1>2, <1>3, <1>4 DEF EndSeenFirst, EndComes, Past
<1>. QED
  BY <1>5, <1>7, <1>8

\* The server accepts a steer only while its turn is live: the end of that turn is still to come,
\* and nothing of a later turn came yet.
LEMMA AnswerSteer ==
    ASSUME ControlInv, OrderInv, OrderInv', SteerInv, NEW d \in Controls, AnswerCall(d)
    PROVE  SteerInv'
<1>. USE DEF SteerInv
<1>1. /\ UNCHANGED <<turns, inbox, conn, epoch, st, target, savedEpoch, accepted, observed, queue, journal>>
      /\ call[d] = "sent"
  BY DEF AnswerCall, memory, telemetry, durable
<1>2. \E reply \in {"accept", "stale", "failed"} :
          call' = [call EXCEPT ![d] = reply] /\ (reply = "accept" => Live(target[d].turn))
  BY DEF AnswerCall
<1>3. /\ \A c \in Controls : c # d => call'[c] = call[c]
      /\ call'[d] = "accept" => Live(target[d].turn)
  BY <1>2 DEF ControlInv, ControlTypes
<1>4. Recorded' = Recorded /\ \A c : Here(c)' <=> Here(c)
  BY <1>1 DEF Recorded, Here
<1>5. \A c \in Steers : /\ Heard(c)' => Heard(c) \/ (c = d /\ Live(target[d].turn))
                        /\ WrittenOff(c)' <=> WrittenOff(c)
                        /\ Aimed(c)' => Aimed(c)
  <2>1. "sent" \in InFlight
    BY DEF InFlight
  <2>. QED
    BY <1>1, <1>3, <1>4, <2>1 DEF Heard, WrittenOff, Aimed, Controls
<1>6. Aims' /\ SeenIsKnown' /\ AdvisoryNotBoth'
  BY <1>1, <1>4, <1>5 DEF Aims, SeenIsKnown, AdvisoryNotBoth
<1>7. OffIsOver'
  BY <1>1, <1>4, <1>5 DEF OffIsOver, PastAnswer, PlaceOf, Notes
<1>8. d \in Steers => target[d].turn \in Turns
  <2>1. call[d] \in InFlight
    BY <1>1 DEF InFlight
  <2>. QED
    BY <2>1 DEF Aims, Aimed
<1>9. ASSUME NEW t \in Turns, Live(t)
      PROVE  /\ t \notin st.completed /\ ~Past(t)
             /\ \A j \in Notes : ~(inbox[j].turn > t)
  <2>1. ~Past(t)
    BY <1>9 DEF Past, Live, LiveStatus, EndStatus
  <2>2. t \notin st.completed
    BY <2>1 DEF OrderInv, SeenIsPast
  <2>3. ASSUME NEW j \in Notes PROVE ~(inbox[j].turn > t)
    <3>1. inbox[j].turn \in Turns /\ turns[inbox[j].turn] # "future"
      BY NotesAre DEF OrderInv, InboxOrder
    <3>2. t \in Nat /\ inbox[j].turn \in Nat
      BY <3>1, TurnAssumption DEF Turns
    <3>. QED
      BY <2>1, <3>1, <3>2 DEF OrderInv, ServerOrder
  <2>. QED
    BY <2>1, <2>2, <2>3
<1>10. EndSeenFirst'
  <2>. SUFFICES ASSUME NEW c \in Steers, Heard(c)', Here(c)
                PROVE  LET t == target[c].turn IN
                         IF t \in st.completed THEN ~(st.active = t /\ st.epoch = epoch)
                         ELSE /\ Past(t) => EndComes(t)
                              /\ \A j \in Notes : inbox[j].turn > t =>
                                    \E i \in Notes : i < j /\ inbox[i].kind = "completed" /\ inbox[i].turn = t
    BY <1>1, <1>4 DEF EndSeenFirst, Past, EndComes, Notes
  <2>1. CASE Heard(c)
    BY <2>1 DEF EndSeenFirst
  <2>2. CASE c = d /\ Live(target[d].turn)
    BY <1>8, <1>9, <2>2
  <2>. QED
    BY <1>5, <2>1, <2>2
<1>. QED
  BY <1>6, <1>7, <1>10

\* An accepted steer is written off at once only if the daemon saw the answer or the end of its turn.
LEMMA AcceptSteerSteer ==
    ASSUME ControlInv, OrderInv, OrderInv', SteerInv, NEW d \in Controls, AcceptSteer(d)
    PROVE  SteerInv'
<1>. USE DEF SteerInv
<1>. DEFINE over == target[d].turn \in st.completed \/ st.answer = target[d].turn
<1>1. /\ UNCHANGED <<turns, inbox, conn, epoch, st, target, savedEpoch, observed, journal>>
      /\ d \in Steers /\ call[d] = "accept" /\ accepted' = accepted \cup {d} /\ conn # "off"
      /\ call' = [call EXCEPT ![d] = "done"]
      /\ \/ over /\ d \notin observed /\ Enqueue(New(d, "rpc_accepted") \o New(d, "rpc_accepted_only"))
         \/ Enqueue(New(d, "rpc_accepted"))
  BY DEF AcceptSteer, server, durable
<1>2. \A c \in Controls : call'[c] \in {call[c], "done"}
  BY <1>1 DEF ControlInv, ControlTypes
<1>3. Heard(d) /\ target[d].turn \in Turns
  BY <1>1 DEF Heard, Aims, Aimed
<1>4. /\ Recorded' \subseteq Recorded \cup {<<d, "rpc_accepted">>, <<d, "rpc_accepted_only">>}
      /\ <<d, "rpc_accepted_only">> \in Recorded' =>
            <<d, "rpc_accepted_only">> \in Recorded \/ (over /\ d \notin observed)
  <2>1. "rpc_accepted" \in Phases /\ "rpc_accepted_only" \in Phases
    BY DEF Phases, Verdicts
  <2>2. /\ New(d, "rpc_accepted") \in Seq(Events) /\ New(d, "rpc_accepted_only") \in Seq(Events)
        /\ ToSet(New(d, "rpc_accepted")) \subseteq {<<d, "rpc_accepted">>}
        /\ ToSet(New(d, "rpc_accepted_only")) \subseteq {<<d, "rpc_accepted_only">>}
    BY <2>1, NewType
  <2>3. /\ New(d, "rpc_accepted") \o New(d, "rpc_accepted_only") \in Seq(Events)
        /\ ToSet(New(d, "rpc_accepted") \o New(d, "rpc_accepted_only"))
              \subseteq {<<d, "rpc_accepted">>, <<d, "rpc_accepted_only">>}
    BY <2>2, ToSetConcat
  <2>. HIDE DEF over
  <2>4. CASE over /\ d \notin observed /\ Enqueue(New(d, "rpc_accepted") \o New(d, "rpc_accepted_only"))
    <3>1. Recorded' \subseteq Recorded \cup ToSet(New(d, "rpc_accepted") \o New(d, "rpc_accepted_only"))
      BY <1>1, <2>3, <2>4, EnqueueRecords
    <3>. QED
      BY <2>3, <2>4, <3>1
  <2>5. CASE Enqueue(New(d, "rpc_accepted"))
    <3>1. Recorded' \subseteq Recorded \cup ToSet(New(d, "rpc_accepted"))
      BY <1>1, <2>2, <2>5, EnqueueRecords
    <3>. QED
      BY <2>2, <3>1
  <2>. QED
    BY <1>1, <2>4, <2>5
<1>5. \A c : Here(c)' <=> Here(c)
  BY <1>1 DEF Here
<1>6. \A c \in Steers : /\ Heard(c)' => Heard(c)
                        /\ WrittenOff(c)' => WrittenOff(c) \/ (c = d /\ over /\ d \notin observed)
                        /\ Aimed(c)' => Aimed(c)
  <2>1. "done" \notin InFlight
    BY DEF InFlight, Replies
  <2>. HIDE DEF over
  <2>2. \A c \in Steers : /\ Heard(c)' => Heard(c)
                          /\ WrittenOff(c)' => WrittenOff(c) \/ (c = d /\ over /\ d \notin observed)
    BY <1>1, <1>2, <1>3, <1>4 DEF Heard, WrittenOff, Controls
  <2>. QED
    BY <1>2, <2>1, <2>2 DEF Aimed, Controls
<1>7. Aims' /\ SeenIsKnown'
  BY <1>1, <1>4, <1>6 DEF Aims, SeenIsKnown
<1>8. AdvisoryNotBoth'
  <2>1. ASSUME NEW c \in Steers, <<c, "observed_in_turn">> \in Recorded'
        PROVE  <<c, "observed_in_turn">> \in Recorded /\ c \in observed
    BY <1>1, <1>4, <2>1 DEF SeenIsKnown
  <2>2. ASSUME NEW c \in Steers, <<c, "rpc_accepted_only">> \in Recorded'
        PROVE  <<c, "rpc_accepted_only">> \in Recorded \/ c \notin observed
    BY <1>4, <2>2
  <2>. QED
    BY <2>1, <2>2 DEF AdvisoryNotBoth
<1>9. EndSeenFirst'
  BY <1>1, <1>5, <1>6 DEF EndSeenFirst, Past, EndComes, Notes
<1>10. over => \/ target[d].turn \in st.completed
               \/ /\ PastAnswer(target[d].turn)
                  /\ \A i \in Notes : PlaceOf(i) > Place("answered", target[d].turn)
                  /\ st.answer = target[d].turn
  <2>1. target[d].turn # NoTurn
    BY <1>3, TurnAssumption DEF Turns, NoTurn
  <2>. QED
    BY <2>1 DEF OrderInv, SeenIsPast
<1>11. OffIsOver'
  <2>. SUFFICES ASSUME NEW c \in Steers, WrittenOff(c)', Here(c)
                PROVE  LET t == target[c].turn IN
                         \/ t \in st.completed
                         \/ /\ PastAnswer(t) /\ \A i \in Notes : PlaceOf(i) > Place("answered", t)
                            /\ st.active = t /\ st.epoch = epoch => st.answer = t
    BY <1>1, <1>5 DEF OffIsOver, PastAnswer, PlaceOf, Notes
  <2>. HIDE DEF over
  <2>1. CASE WrittenOff(c)
    BY <2>1 DEF OffIsOver
  <2>2. CASE c = d /\ over
    BY <1>10, <2>2
  <2>. QED
    BY <1>6, <2>1, <2>2
<1>. QED
  BY <1>7, <1>8, <1>9, <1>11

\* What a consumed notification leaves of what is known of the steers heard of before.
LEMMA ConsumeKept ==
    ASSUME OrderInv, OrderInv', SteerInv,
           ConsumeStarted \/ ConsumeAnswered \/ ConsumeCompleted \/ ConsumePrompt,
           NEW c \in Steers, Heard(c), Here(c)
    PROVE  LET t == target[c].turn IN
             /\ IF t \in st'.completed THEN ~(st'.active = t /\ st'.epoch = epoch)
                ELSE /\ Past(t) => \E i \in Notes' : inbox'[i].kind = "completed" /\ inbox'[i].turn = t
                     /\ \A j \in Notes' : inbox'[j].turn > t =>
                           \E i \in Notes' : i < j /\ inbox'[i].kind = "completed" /\ inbox'[i].turn = t
             /\ WrittenOff(c) =>
                  \/ t \in st'.completed
                  \/ /\ PastAnswer(t) /\ \A i \in Notes' : PlaceOf(i)' > Place("answered", t)
                     /\ st'.active = t /\ st'.epoch = epoch => st'.answer = t
<1>. DEFINE m == inbox[1]
            t == inbox[1].turn
            u == target[c].turn
<1>1. inbox # <<>> /\ inbox' = Tail(inbox)
  BY DEF ConsumeStarted, ConsumeAnswered, ConsumeCompleted, ConsumePrompt, Next1, Consumed
<1>2. /\ inbox' \in Seq(Messages) /\ m \in Messages
      /\ \A i \in Notes' : i \in Nat /\ i + 1 \in Notes /\ i + 1 # 1 /\ inbox'[i] = inbox[i + 1]
      /\ \A i \in Notes : i # 1 => i - 1 \in Notes' /\ inbox'[i - 1] = inbox[i]
      /\ m.kind \in Kinds => 1 \in Notes
      /\ \A i \in Notes : i \in Nat /\ (i # 1 => 1 < i)
  BY <1>1, NotesShrink DEF OrderInv
<1>3. /\ t \in Turns /\ epoch \in Nat /\ st \in ThreadStates /\ u \in Turns /\ u # NoTurn
  BY <1>2, TurnAssumption DEF Messages, OrderInv, Epochs, SteerTypes, SteerInv, Aims, Aimed, Turns, NoTurn
<1>4. \A i \in Notes' : PlaceOf(i)' = PlaceOf(i + 1)
  BY <1>2 DEF PlaceOf
<1>5. 1 \in Notes => PlaceOf(1) = Place(m.kind, t)
  BY DEF PlaceOf
<1>6. /\ u \in st.completed => ~(st.active = u /\ st.epoch = epoch)
      /\ u \notin st.completed =>
            /\ Past(u) => \E i \in Notes : inbox[i].kind = "completed" /\ inbox[i].turn = u
            /\ \A j \in Notes : inbox[j].turn > u =>
                  \E i \in Notes : i < j /\ inbox[i].kind = "completed" /\ inbox[i].turn = u
  BY DEF SteerInv, EndSeenFirst, EndComes
<1>7. WrittenOff(c) => \/ u \in st.completed
                       \/ /\ PastAnswer(u) /\ \A i \in Notes : PlaceOf(i) > Place("answered", u)
                          /\ st.active = u /\ st.epoch = epoch => st.answer = u
  BY DEF SteerInv, OffIsOver
<1>. HIDE DEF m, t, u
<1>8. \/ m.kind = "started" /\ st' = Started(st, t, epoch)
      \/ m.kind = "answered" /\ st' = Answered(st, t, epoch)
      \/ m.kind = "completed" /\ st' = Completed(st, t, epoch)
      \/ m.kind = "prompt" /\ st' = Rebased(st, epoch)
  BY DEF ConsumeStarted, ConsumeAnswered, ConsumeCompleted, ConsumePrompt, Next1, t, m
<1>9. \/ /\ m.kind = "started"
         /\ \/ t \in st.completed /\ st' = st
            \/ t \notin st.completed /\ st'.active = t /\ st'.epoch = epoch /\ st'.completed = st.completed
      \/ /\ m.kind \in {"answered", "prompt"} /\ st'.epoch = epoch /\ st'.completed = st.completed
         /\ st'.active = IF st.epoch = epoch THEN st.active ELSE NoTurn
         /\ st'.answer = IF m.kind = "answered" THEN t ELSE st.answer
      \/ m.kind = "completed" /\ st'.active = NoTurn /\ st'.completed = st.completed \cup {t}
  <2>1. CASE m.kind = "started" /\ st' = Started(st, t, epoch)
    BY <1>3, <2>1, StartedState
  <2>2. CASE m.kind = "answered" /\ st' = Answered(st, t, epoch)
    BY <1>3, <2>2, AnsweredState
  <2>3. CASE m.kind = "completed" /\ st' = Completed(st, t, epoch)
    BY <1>3, <2>3, CompletedState
  <2>4. CASE m.kind = "prompt" /\ st' = Rebased(st, epoch)
    BY <1>3, <2>4, RebasedState
  <2>. QED
    BY <1>8, <2>1, <2>2, <2>3, <2>4
<1>10. st.completed \subseteq st'.completed
  BY <1>9
<1>11. u \in st'.completed => ~(st'.active = u /\ st'.epoch = epoch)
  BY <1>3, <1>6, <1>9
<1>12. ASSUME u \notin st'.completed, NEW i \in Notes, inbox[i].kind = "completed", inbox[i].turn = u
       PROVE  i # 1
  BY <1>9, <1>12 DEF m, t
<1>13. ASSUME u \notin st'.completed
       PROVE  /\ Past(u) => \E i \in Notes' : inbox'[i].kind = "completed" /\ inbox'[i].turn = u
              /\ \A j \in Notes' : inbox'[j].turn > u =>
                    \E i \in Notes' : i < j /\ inbox'[i].kind = "completed" /\ inbox'[i].turn = u
  <2>1. u \notin st.completed
    BY <1>10, <1>13
  <2>2. ASSUME Past(u) PROVE \E i \in Notes' : inbox'[i].kind = "completed" /\ inbox'[i].turn = u
    <3>1. PICK i \in Notes : inbox[i].kind = "completed" /\ inbox[i].turn = u
      BY <1>6, <2>1, <2>2
    <3>. QED
      BY <1>2, <1>12, <1>13, <3>1
  <2>3. ASSUME NEW j \in Notes', inbox'[j].turn > u
        PROVE  \E i \in Notes' : i < j /\ inbox'[i].kind = "completed" /\ inbox'[i].turn = u
    <3>1. j + 1 \in Notes /\ inbox[j + 1].turn > u /\ j \in Nat
      BY <1>2, <2>3
    <3>2. PICK i \in Notes : i < j + 1 /\ inbox[i].kind = "completed" /\ inbox[i].turn = u
      BY <1>6, <2>1, <3>1
    <3>3. i # 1 /\ i \in Nat
      BY <1>2, <1>12, <1>13, <3>2
    <3>4. i - 1 \in Notes' /\ inbox'[i - 1] = inbox[i] /\ i - 1 < j
      BY <1>2, <3>1, <3>2, <3>3
    <3>. QED
      BY <3>2, <3>4
  <2>. QED
    BY <2>2, <2>3
<1>14. ASSUME WrittenOff(c), u \notin st'.completed
       PROVE  /\ PastAnswer(u) /\ \A i \in Notes' : PlaceOf(i)' > Place("answered", u)
              /\ st'.active = u /\ st'.epoch = epoch => st'.answer = u
  <2>1. /\ u \notin st.completed
        /\ PastAnswer(u) /\ \A i \in Notes : PlaceOf(i) > Place("answered", u)
        /\ st.active = u /\ st.epoch = epoch => st.answer = u
    BY <1>7, <1>10, <1>14
  <2>2. \A i \in Notes' : PlaceOf(i)' > Place("answered", u)
    BY <1>2, <1>4, <2>1
  <2>3. u \in Nat /\ t \in Nat
    BY <1>3, TurnAssumption DEF Turns
  <2>4. ASSUME st'.active = u, st'.epoch = epoch PROVE st'.answer = u
    <3>1. CASE m.kind = "started"
      <4>1. Place("started", t) > Place("answered", u)
        BY <1>2, <1>5, <2>1, <3>1 DEF Kinds
      <4>2. t # u
        BY <2>3, <4>1 DEF Place
      <4>. QED
        BY <1>9, <2>1, <2>4, <3>1, <4>2
    <3>2. CASE m.kind = "answered"
      <4>1. 1 \in Notes /\ Place("answered", t) > Place("answered", u)
        BY <1>2, <1>5, <2>1, <3>2 DEF Kinds
      <4>2. inbox[1].turn > u
        BY <2>3, <4>1 DEF Place, t
      <4>3. PICK i \in Notes : i < 1
        BY <1>6, <2>1, <4>1, <4>2
      <4>. QED
        BY <1>2, <4>3
    <3>3. CASE m.kind = "completed"
      BY <1>3, <1>9, <2>4, <3>3
    <3>4. CASE m.kind = "prompt"
      BY <1>3, <1>9, <2>1, <2>4, <3>4
    <3>. QED
      BY <1>9, <3>1, <3>2, <3>3, <3>4
  <2>. QED
    BY <2>1, <2>2, <2>4
<1>. QED
  BY <1>11, <1>13, <1>14 DEF u

\* A consumed notification writes off only steers of its turn that were not seen, and shows only
\* one that was not written off.
LEMMA ConsumedSteer ==
    ASSUME OrderInv, OrderInv', SteerInv,
           ConsumeStarted \/ ConsumeAnswered \/ ConsumeCompleted \/ ConsumePrompt,
           \A c \in Steers : <<c, "rpc_accepted">> \in Recorded' => <<c, "rpc_accepted">> \in Recorded,
           \A c \in Steers : WrittenOff(c)' =>
               \/ WrittenOff(c)
               \/ ConsumeAnswered /\ c \in Unseen(inbox[1].turn)
               \/ ConsumeCompleted /\ c \in Unseen(inbox[1].turn),
           \A c \in Steers : <<c, "observed_in_turn">> \in Recorded' =>
               \/ <<c, "observed_in_turn">> \in Recorded
               \/ c \in observed' /\ ~WrittenOff(c) /\ ConsumePrompt,
           observed \subseteq observed', ConsumePrompt \/ observed' = observed
    PROVE  SteerInv'
<1>. USE DEF SteerInv
<1>1. /\ UNCHANGED <<turns, call, conn, epoch, target, accepted>>
      /\ savedEpoch' = epoch /\ conn # "off"
      /\ inbox # <<>> /\ inbox' = Tail(inbox)
  BY DEF ConsumeStarted, ConsumeAnswered, ConsumeCompleted, ConsumePrompt, Next1, Consumed, server, memory
<1>2. \A c : Here(c)' <=> Here(c)
  BY <1>1 DEF Here
<1>3. \A c \in Steers : (Heard(c)' => Heard(c)) /\ (Aimed(c)' => Aimed(c))
  BY <1>1 DEF Heard, Aimed, Unseen
<1>4. Aims'
  BY <1>1, <1>3 DEF Aims, OrderInv, Epochs, SteerTypes, Controls
<1>5. SeenIsKnown'
  BY <1>1 DEF SeenIsKnown
<1>6. AdvisoryNotBoth'
  <2>. SUFFICES ASSUME NEW c \in Steers, <<c, "observed_in_turn">> \in Recorded', WrittenOff(c)'
                PROVE  FALSE
    BY DEF AdvisoryNotBoth, WrittenOff
  <2>1. CASE <<c, "observed_in_turn">> \in Recorded
    <3>1. c \in observed /\ ~WrittenOff(c)
      BY <1>1, <2>1 DEF SeenIsKnown, AdvisoryNotBoth, WrittenOff
    <3>. QED
      BY <3>1 DEF Unseen
  <2>2. CASE ~WrittenOff(c) /\ ConsumePrompt
    BY <2>2 DEF ConsumePrompt, ConsumeAnswered, ConsumeCompleted, Next1
  <2>. QED
    BY <2>1, <2>2
<1>7. ASSUME NEW c \in Steers, Heard(c), Here(c)
      PROVE  LET t == target[c].turn IN
               /\ IF t \in st'.completed THEN ~(st'.active = t /\ st'.epoch = epoch)
                  ELSE /\ Past(t) => \E i \in Notes' : inbox'[i].kind = "completed" /\ inbox'[i].turn = t
                       /\ \A j \in Notes' : inbox'[j].turn > t =>
                             \E i \in Notes' : i < j /\ inbox'[i].kind = "completed" /\ inbox'[i].turn = t
               /\ WrittenOff(c) =>
                    \/ t \in st'.completed
                    \/ /\ PastAnswer(t) /\ \A i \in Notes' : PlaceOf(i)' > Place("answered", t)
                       /\ st'.active = t /\ st'.epoch = epoch => st'.answer = t
  BY <1>7, ConsumeKept
<1>8. EndSeenFirst'
  BY <1>1, <1>2, <1>3, <1>7 DEF EndSeenFirst, EndComes, Past
<1>9. ASSUME NEW c \in Steers, WrittenOff(c)', ~WrittenOff(c)
      PROVE  LET t == target[c].turn IN
               \/ t \in st'.completed
               \/ /\ PastAnswer(t) /\ \A i \in Notes' : PlaceOf(i)' > Place("answered", t)
                  /\ st'.active = t /\ st'.epoch = epoch => st'.answer = t
  <2>. DEFINE t == inbox[1].turn
  <2>1. /\ target[c].turn = t /\ t \in Turns /\ t # NoTurn /\ st \in ThreadStates /\ epoch \in Nat
    <3>1. target[c].turn = t
      BY <1>9 DEF Unseen
    <3>2. c \in accepted
      BY <1>9 DEF Unseen
    <3>3. target[c].turn \in Turns
      BY <3>2 DEF Aims, Aimed, Heard
    <3>. QED
      BY <3>1, <3>3, TurnAssumption DEF Turns, NoTurn, OrderInv, SteerTypes, Epochs
  <2>2. \/ st' = Answered(st, t, epoch)
        \/ st' = Completed(st, t, epoch)
    BY <1>9 DEF ConsumeAnswered, ConsumeCompleted
  <2>. HIDE DEF t
  <2>3. st'.answer = t \/ t \in st'.completed
    BY <2>1, <2>2, AnsweredState, CompletedState
  <2>4. st'.answer = t => turns'[t] \in {"answered"} \cup EndStatus
                           /\ \A i \in Notes' : PlaceOf(i)' > Place("answered", t)
    <3>1. /\ st'.answer # NoTurn => turns'[st'.answer] \in {"answered"} \cup EndStatus
          /\ st'.answer # NoTurn => \A i \in Notes' : PlaceOf(i)' > Place("answered", st'.answer)
      BY DEF OrderInv, SeenIsPast, PastAnswer
    <3>. QED
      BY <2>1, <3>1
  <2>5. turns'[t] \in {"answered"} \cup EndStatus <=> PastAnswer(t)
    BY <1>1 DEF PastAnswer
  <2>. QED
    BY <2>1, <2>3, <2>4, <2>5
<1>10. OffIsOver'
  <2>. SUFFICES ASSUME NEW c \in Steers, WrittenOff(c)', Here(c)
                PROVE  LET t == target[c].turn IN
                         \/ t \in st'.completed
                         \/ /\ PastAnswer(t) /\ \A i \in Notes' : PlaceOf(i)' > Place("answered", t)
                            /\ st'.active = t /\ st'.epoch = epoch => st'.answer = t
    BY <1>1, <1>2 DEF OffIsOver, PastAnswer
  <2>1. CASE WrittenOff(c)
    BY <1>7, <2>1 DEF Heard
  <2>2. CASE ~WrittenOff(c)
    BY <1>9, <2>2
  <2>. QED
    BY <2>1, <2>2
<1>. QED
  BY <1>4, <1>5, <1>6, <1>8, <1>10

\* Of the notifications, an answer and an end write off, a text shows, and a start tells nothing.
LEMMA ConsumeSteer ==
    ASSUME ControlInv, OrderInv, OrderInv', SteerInv,
           ConsumeStarted \/ ConsumeAnswered \/ ConsumeCompleted \/ ConsumePrompt
    PROVE  SteerInv'
<1>1. CASE ConsumeStarted
  <2>1. Recorded' = Recorded /\ observed' = observed
    BY <1>1 DEF ConsumeStarted, Recorded, telemetry, memory
  <2>. QED
    BY <1>1, <2>1, ConsumedSteer DEF WrittenOff
<1>2. CASE ConsumeAnswered
  <2>. DEFINE S == Unseen(Head(inbox).turn)
  <2>1. S \in SUBSET Controls /\ S = Unseen(inbox[1].turn)
    BY DEF Unseen, Controls
  <2>2. PICK unproved \in NewOfEach(S, "rpc_accepted_only") : Enqueue(unproved)
    BY <1>2 DEF ConsumeAnswered
  <2>3. journal' = journal /\ observed' = observed
    BY <1>2 DEF ConsumeAnswered, memory
  <2>. HIDE DEF S
  <2>4. "rpc_accepted_only" \in Phases
    BY DEF Phases, Verdicts
  <2>5. unproved \in Seq(Events) /\ ToSet(unproved) \subseteq S \X {"rpc_accepted_only"}
    BY <2>1, <2>4, NewOfEachType
  <2>6. Recorded' \subseteq Recorded \cup (S \X {"rpc_accepted_only"})
    BY <2>2, <2>3, <2>5, EnqueueRecords
  <2>7. /\ \A c \in Steers : <<c, "rpc_accepted">> \in Recorded' => <<c, "rpc_accepted">> \in Recorded
        /\ \A c \in Steers : <<c, "observed_in_turn">> \in Recorded' => <<c, "observed_in_turn">> \in Recorded
        /\ \A c \in Steers : <<c, "rpc_accepted_only">> \in Recorded' =>
              <<c, "rpc_accepted_only">> \in Recorded \/ c \in S
    BY <2>6
  <2>. QED
    BY <1>2, <2>1, <2>3, <2>7, ConsumedSteer DEF WrittenOff
<1>3. CASE ConsumeCompleted
  <2>. DEFINE t == Head(inbox).turn
              S == Unseen(t)
              E == {c \in (accepted \cap Interrupts) \ settled :
                        target[c] = [turn |-> t, epoch |-> epoch]}
              v == Classify(turns[t])
  <2>1. S \in SUBSET Controls /\ S = Unseen(inbox[1].turn) /\ E \in SUBSET Controls /\ E \cap Steers = {}
    BY ControlAssumption DEF Unseen, Controls
  <2>2. PICK unproved \in NewOfEach(S, "rpc_accepted_only"), ends \in NewOfEach(E, v) :
            Enqueue(unproved \o ends)
    BY <1>3 DEF ConsumeCompleted
  <2>3. journal' = journal /\ observed' = observed
    BY <1>3 DEF ConsumeCompleted
  <2>4. "rpc_accepted_only" \in Phases /\ v \in Phases
    BY DEF Phases, Verdicts, Classify
  <2>. HIDE DEF S, E, v, t
  <2>5. /\ unproved \in Seq(Events) /\ ToSet(unproved) \subseteq S \X {"rpc_accepted_only"}
        /\ ends \in Seq(Events) /\ ToSet(ends) \subseteq E \X {v}
    BY <2>1, <2>4, NewOfEachType
  <2>6. /\ unproved \o ends \in Seq(Events)
        /\ ToSet(unproved \o ends) = ToSet(unproved) \cup ToSet(ends)
    BY <2>5, ToSetConcat
  <2>7. Recorded' \subseteq Recorded \cup (S \X {"rpc_accepted_only"}) \cup (E \X {v})
    <3>1. Recorded' \subseteq Recorded \cup ToSet(unproved \o ends)
      BY <2>2, <2>3, <2>6, EnqueueRecords
    <3>. QED
      BY <2>5, <2>6, <3>1
  <2>8. /\ \A c \in Steers : <<c, "rpc_accepted">> \in Recorded' => <<c, "rpc_accepted">> \in Recorded
        /\ \A c \in Steers : <<c, "observed_in_turn">> \in Recorded' => <<c, "observed_in_turn">> \in Recorded
        /\ \A c \in Steers : <<c, "rpc_accepted_only">> \in Recorded' =>
              <<c, "rpc_accepted_only">> \in Recorded \/ c \in S
    BY <2>1, <2>7
  <2>. QED
    BY <1>3, <2>1, <2>3, <2>8, ConsumedSteer DEF WrittenOff
<1>4. CASE ConsumePrompt
  <2>. DEFINE c == Head(inbox).control
              t == Head(inbox).turn
              p == IF InTarget(c, t) THEN "observed_in_turn" ELSE "observed_outside"
  <2>1. /\ queue' = queue /\ conn \in {"reconciling", "ready"}
        /\ \/ UNCHANGED <<observed, journal>>
           \/ /\ c \in requests /\ observed' = observed \cup {c}
              /\ journal' = journal \cup {<<c, p>>}
    BY <1>4 DEF ConsumePrompt, Next1, telemetry
  <2>2. Recorded' = Recorded \/ (observed' = observed \cup {c} /\ Recorded' = Recorded \cup {<<c, p>>})
    BY <2>1 DEF Recorded
  <2>3. InTarget(c, t) /\ c \in Steers => ~WrittenOff(c)
    <3>. SUFFICES ASSUME target[c] = [turn |-> t, epoch |-> epoch], st.active = t, st.epoch = epoch,
                         st.answer # t, c \in Steers, WrittenOff(c)
                  PROVE  FALSE
      BY DEF InTarget
    <3>. HIDE DEF c, t
    <3>1. Heard(c) /\ Aimed(c) /\ target[c].turn = t /\ target[c].epoch = epoch /\ epoch \in Nat
      BY DEF Heard, Aimed, OrderInv, Epochs
    <3>2. conn = "ready" /\ Here(c)
      BY <2>1, <3>1 DEF SteerInv, Aims, Here
    <3>. QED
      BY <3>1, <3>2 DEF SteerInv, OffIsOver, EndSeenFirst
  <2>4. p = "observed_in_turn" => InTarget(c, t)
    OBVIOUS
  <2>5. p \in {"observed_in_turn", "observed_outside"}
    OBVIOUS
  <2>. HIDE DEF c, t, p
  <2>6. /\ \A d \in Steers : <<d, "rpc_accepted">> \in Recorded' => <<d, "rpc_accepted">> \in Recorded
        /\ \A d \in Steers : <<d, "rpc_accepted_only">> \in Recorded' => <<d, "rpc_accepted_only">> \in Recorded
    BY <2>2, <2>5
  <2>7. \A d \in Steers : <<d, "observed_in_turn">> \in Recorded' =>
               \/ <<d, "observed_in_turn">> \in Recorded
               \/ d \in observed' /\ ~WrittenOff(d)
    BY <2>2, <2>3, <2>4, <2>5
  <2>. QED
    BY <1>4, <2>1, <2>6, <2>7, ConsumedSteer DEF WrittenOff
<1>. QED
  BY <1>1, <1>2, <1>3, <1>4

LEMMA SteerInit == Init => SteerInv
<1>. SUFFICES ASSUME Init PROVE SteerInv
  OBVIOUS
<1>1. Recorded = {} /\ conn = "down" /\ \A c \in Steers : call[c] = "idle" /\ c \notin accepted
  BY DEF Init, Recorded, ToSet, Controls
<1>2. \A c \in Steers : ~Heard(c) /\ ~Aimed(c) /\ ~WrittenOff(c)
  BY <1>1 DEF Heard, Aimed, WrittenOff, InFlight, Replies
<1>. QED
  BY <1>1, <1>2 DEF SteerInv, Aims, EndSeenFirst, OffIsOver, SeenIsKnown, AdvisoryNotBoth

LEMMA SteerStep == ASSUME ControlInv, OrderInv, OrderInv', SteerInv, [Next]_vars PROVE SteerInv'
<1>1. ASSUME NEW t \in Turns, StartTurn(t) PROVE SteerInv'
  BY <1>1, TurnSteer DEF StartTurn, Notify, durable, memory, telemetry, Kinds
<1>2. ASSUME NEW t \in Turns, Answer(t) PROVE SteerInv'
  BY <1>2, TurnSteer DEF Answer, Notify, durable, memory, telemetry, Kinds
<1>3. ASSUME NEW t \in Turns, NEW status \in EndStatus, EndTurn(t, status) PROVE SteerInv'
  BY <1>3, TurnSteer DEF EndTurn, Notify, durable, memory, telemetry, Kinds
<1>4. ASSUME NEW c \in Steers, NEW t \in Turns, ShowInput(c, t) PROVE SteerInv'
  BY <1>4, ShowSteer
<1>5. ASSUME NEW c \in Controls, NEW t \in Turns, NEW e \in 1 .. epoch, Dispatch(c, t, e) PROVE SteerInv'
  BY <1>5, DispatchSteer
<1>6. ASSUME NEW c \in Controls, AnswerCall(c) PROVE SteerInv'
  BY <1>6, AnswerSteer
<1>7. ASSUME NEW c \in Controls, AcceptSteer(c) PROVE SteerInv'
  BY <1>7, AcceptSteerSteer
<1>8. CASE \/ \E c \in Controls : Raise(c) \/ AcceptInterrupt(c)
           \/ \E c \in Interrupts : Expire(c)
           \/ Write \/ UNCHANGED vars
  BY <1>8, MemorySteer
<1>9. CASE ConsumeStarted \/ ConsumeAnswered \/ ConsumeCompleted \/ ConsumePrompt
  BY <1>9, ConsumeSteer
<1>10. CASE Connect \/ Resume \/ Reconcile \/ SkipUnloaded \/ Disconnect
  BY <1>10, ConnectionSteer
<1>11. CASE Crash \/ Close \/ Restart
  BY <1>11, ProcessSteer
<1>. QED
  BY <1>1, <1>2, <1>3, <1>4, <1>5, <1>6, <1>7, <1>8, <1>9, <1>10, <1>11 DEF Next

\* AppServerRecoveryLoop: an advisory is never both recorded as visible in its turn and written
\* off as merely accepted -- in whatever order its reply, its text, the final answer and the end of
\* its turn are handled, across reconnects, crashes and restarts, and with a full telemetry queue.
THEOREM SeenOrWrittenOff == Spec => []AdvisoryNotBoth
<1>1. ControlInv /\ OrderInv /\ OrderInv' /\ SteerInv /\ [Next]_vars => SteerInv'
  BY SteerStep
<1>2. SteerInv => AdvisoryNotBoth
  BY DEF SteerInv
<1>. QED
  BY <1>1, <1>2, SteerInit, ControlInvariant, OrderInvariant, PTL DEF Spec
=============================================================================

---------------------------- MODULE GateExchange -----------------------------
(***************************************************************************)
(* One Hook process per tool proposal or session start (cli._hook_main,     *)
(* hook.run_hook), the control request it sends to spotterd (DaemonClient,  *)
(* DaemonServer._handle), and what each of them does when the other is      *)
(* gone, late, of another build or fails.                                   *)
(*                                                                          *)
(* A Hook reads the manifest, then the configuration, then asks the daemon  *)
(* under GATE_TIMEOUT; the daemon judges with the policy it is sent and,    *)
(* after it has answered, projects a denial into the trace of the turn the  *)
(* App Server connection knows.  In between the user edits the              *)
(* configuration, upgrades the package and runs setup, the daemon dies and  *)
(* starts, the connection to the App Server is lost and restored, and turns *)
(* start and end.  The Gate itself is the constant Verdict.                 *)
(***************************************************************************)
EXTENDS Integers, ThreadLifecycle

CONSTANTS
    Hooks,            \* Hook processes
    Proposals,        \* what a PreToolUse payload proposes
    Policies,         \* configurations resolve_config can return
    Fallback,         \* SpotterConfig.from_mapping with no file: the defaults
    Verdict(_, _),    \* policy, proposal -> "allow", "uncertain" or "deny"
    Observes(_),      \* policy -> observation_only
    Oversized(_),     \* proposal -> its request exceeds _MAX_REQUEST_BYTES
    Builds,           \* installed package builds, in order 1, 2, ...
    Protocol(_),      \* build -> PROTOCOL_VERSION
    Peers(_),         \* build -> min_peer_protocol .. max_peer_protocol
    None, Unusable,
    MaxEpoch, MaxSetup, MaxFaults   \* bounds, with MaxTurn of ThreadLifecycle

ASSUME ExchangeAssumption ==
    /\ Fallback \in Policies
    /\ \E n \in Builds : n \in Nat /\ Builds = 1 .. n
    /\ \A b \in Builds : Protocol(b) \in Peers(b)
    /\ {MaxEpoch, MaxSetup, MaxFaults} \subseteq Nat
    /\ \A policy \in Policies, proposal \in Proposals :
          Verdict(policy, proposal) \in {"allow", "uncertain", "deny"}
    /\ None \notin {"ok", "timeout", "unavailable", "allow", "deny"}

VARIABLES
    config,      \* the configuration files: a policy, or unusable
    installed,   \* the build on disk
    fence,       \* the integration generation in the installed Hook commands
    manifest,    \* the committed manifest: generation and setup build
    hook,        \* hook[h]: the process of Hook h
    daemon,      \* spotterd: build, active policy, App Server connection
    handler,     \* handler[h]: the daemon's task for h's connection
    thread,      \* the daemon's ThreadState of the agent thread
    contact,     \* what its connection to the App Server has to do with the thread
    turn,        \* the turn the agent is in, NoTurn between turns
    turns,       \* turns started so far
    timeline,    \* deterministic_gate_block records: the Hook, the stamped turn
    faults       \* failures of the environment so far

exchangeVars == <<config, installed, fence, manifest, hook, daemon, handler, thread,
                  contact, turn, turns, timeline, faults>>
agent == <<turn, turns>>
files == <<config, installed, fence, manifest>>
view == <<thread, contact>>

\* What a connection may have had to do with the thread: "subscribed", events arrive;
\* "notified", a change of status said that it exists; "refused", thread/resume was;
\* "unlisted", thread/list did not return it.
Contacts == {"subscribed", "notified", "refused", "unlisted"}

\* "seen" and "lost" are history: the contacts there were while the Hook ran, and
\* that the daemon died with its request.
NewHook == [pc |-> "idle", proposal |-> None, turn |-> NoTurn, generation |-> 0,
            build |-> 0, policy |-> None, status |-> None, verdict |-> None,
            journaled |-> None, answer |-> None, seen |-> {}, lost |-> FALSE]
NoHandler == [pc |-> "none", verdict |-> None, observing |-> FALSE]

Resolved == IF config = Unusable THEN Fallback ELSE config

ExchangeInit ==
    /\ config \in Policies \cup {Unusable}
    /\ installed = 1 /\ fence = 1
    /\ manifest = [generation |-> 1, build |-> 1]
    /\ hook = [h \in Hooks |-> NewHook]
    /\ daemon = [up |-> TRUE, build |-> 1, ready |-> FALSE, epoch |-> 0,
                 policy |-> Resolved]
    /\ handler = [h \in Hooks |-> NoHandler]
    /\ thread = Unobserved /\ contact = "none"
    /\ turn = NoTurn /\ turns = 0
    /\ timeline = {}
    /\ faults = 0

Fault == faults < MaxFaults /\ faults' = faults + 1

(***************************** the environment *****************************)

EditConfig ==
    /\ Fault
    /\ \E p \in (Policies \cup {Unusable}) \ {config} : config' = p
    /\ UNCHANGED <<installed, fence, manifest, hook, daemon, handler, view,
                   agent, timeline>>

Upgrade ==
    /\ installed + 1 \in Builds
    /\ installed' = installed + 1
    /\ UNCHANGED <<config, fence, manifest, hook, daemon, handler, view,
                   agent, timeline, faults>>

\* Setup writes the Hook commands first and commits the manifest after.
SetupInstallsHook ==
    /\ fence = manifest.generation /\ fence < MaxSetup
    /\ fence' = fence + 1
    /\ UNCHANGED <<config, installed, manifest, hook, daemon, handler, view,
                   agent, timeline, faults>>

SetupCommits ==
    /\ fence # manifest.generation
    /\ manifest' = [generation |-> fence, build |-> installed]
    /\ UNCHANGED <<config, installed, fence, hook, daemon, handler, view,
                   agent, timeline, faults>>

\* The process dies with its connections: a reply already written can still be
\* read, a Hook that waits for one reads end of file.
DaemonDies ==
    /\ daemon.up /\ Fault
    /\ daemon' = [daemon EXCEPT !.up = FALSE, !.ready = FALSE]
    /\ contact' = "none"
    /\ handler' = [h \in Hooks |->
                     CASE handler[h].pc = "sent" -> [NoHandler EXCEPT !.pc = "closed"]
                       [] handler[h].pc = "answered" -> [handler[h] EXCEPT !.pc = "noted"]
                       [] OTHER -> handler[h]]
    /\ hook' = [h \in Hooks |-> [hook[h] EXCEPT !.lost = @ \/ handler[h].pc = "sent"]]
    /\ UNCHANGED <<files, thread, agent, timeline>>

\* main() resolves the configuration once and hydrates the threads.
DaemonStarts ==
    /\ ~daemon.up
    /\ daemon' = [daemon EXCEPT !.up = TRUE, !.build = installed, !.policy = Resolved]
    /\ thread' = Hydrated(thread)
    /\ UNCHANGED <<files, hook, handler, contact, agent, timeline, faults>>

\* History: the Hooks that run now ran during this contact.
Mark(c) == {c} \cap Contacts
Seen(c) ==
    hook' = [h \in Hooks |-> IF hook[h].pc \in {"idle", "done"} THEN hook[h]
                            ELSE [hook[h] EXCEPT !.seen = hook[h].seen \cup Mark(c)]]

\* The walk over the server's threads: this one is resumed, or read because it may not
\* be; it is not loaded, as between turns, or not known and not listed; it is known but
\* not listed any more.
Reconcile(epoch) ==
    \/ thread' = Reconciled(thread, turn, epoch) /\ contact' \in {"subscribed", "refused"}
    \/ (turn = NoTurn \/ thread.epoch = 0) /\ UNCHANGED view
    \/ thread.epoch # 0 /\ thread' = Unavailable(thread, epoch) /\ contact' = "unlisted"

\* READY follows the walk.
Connect ==
    /\ daemon.up /\ ~daemon.ready /\ daemon.epoch < MaxEpoch
    /\ daemon' = [daemon EXCEPT !.ready = TRUE, !.epoch = @ + 1]
    /\ Reconcile(daemon.epoch + 1)
    /\ Seen(contact')
    /\ UNCHANGED <<files, handler, agent, timeline, faults>>

Disconnect ==
    /\ daemon.ready /\ Fault
    /\ daemon' = [daemon EXCEPT !.ready = FALSE]
    /\ contact' = "none"
    /\ UNCHANGED <<files, hook, handler, thread, agent, timeline>>

\* A subscribed connection hears of a turn's start and end, any other only that the
\* thread's status changed.
Hears(st) ==
    \/ contact = "subscribed" /\ thread' = st /\ UNCHANGED contact
    \/ /\ daemon.ready /\ contact # "subscribed"
       /\ thread' = Rebased(thread, daemon.epoch)
       /\ contact' = "notified"
    \/ ~daemon.ready /\ UNCHANGED view

StartTurn ==
    /\ turn = NoTurn /\ turns < MaxTurn
    /\ turns' = turns + 1 /\ turn' = turns'
    /\ Hears(Started(thread, turns + 1, daemon.epoch))
    /\ Seen(contact')
    /\ UNCHANGED <<files, daemon, handler, timeline, faults>>

EndTurn ==
    /\ turn # NoTurn
    /\ turn' = NoTurn
    /\ Hears(Completed(thread, turn, daemon.epoch))
    /\ Seen(contact')
    /\ UNCHANGED <<files, turns, daemon, handler, timeline, faults>>

\* Notified of a thread it is not subscribed to, the daemon resumes it; the start of
\* the turn may have come before that.
Subscribe ==
    /\ daemon.ready /\ contact = "notified"
    /\ \/ contact' \in {"subscribed", "refused"} /\ UNCHANGED thread
       \/ /\ turn # NoTurn
          /\ contact' = "subscribed"
          /\ thread' = Started(thread, turn, daemon.epoch)
    /\ Seen(contact')
    /\ UNCHANGED <<files, daemon, handler, agent, timeline, faults>>

(********************************* the Hook *********************************)

AsksGate(h) == hook[h].proposal # None

\* Only the named Hook moves; h's record takes the given fields.
Moves(h, to) ==
    /\ hook' = [hook EXCEPT ![h] = to]
    /\ UNCHANGED <<files, daemon, view, agent, timeline>>

\* Codex runs a tool proposal's Hook inside a turn, a session's before one.
\* The generated command carries its generation; 0 is a command without one.
Launch(h) ==
    /\ hook[h].pc = "idle"
    /\ \E g \in {fence, 0}, p \in Proposals \cup {None} :
          /\ (p = None) = (turn = NoTurn)
          /\ Moves(h, [hook[h] EXCEPT !.pc = "fence", !.proposal = p, !.turn = turn,
                                      !.generation = g, !.build = installed,
                                      !.seen = Mark(contact)])
    /\ UNCHANGED <<handler, faults>>

\* A Hook of another setup, or of a package setup has not seen, allows.
CurrentIntegration(h) ==
    \/ hook[h].generation = 0
    \/ manifest = [generation |-> hook[h].generation, build |-> hook[h].build]

Fence(h) ==
    /\ hook[h].pc = "fence"
    /\ Moves(h, IF CurrentIntegration(h) THEN [hook[h] EXCEPT !.pc = "resolve"]
                ELSE [hook[h] EXCEPT !.pc = "done", !.status = "stale", !.answer = "allow"])
    /\ UNCHANGED <<handler, faults>>

\* Only a generated Hook asks for the live status of its session.
Resolve(h) ==
    /\ hook[h].pc = "resolve"
    /\ Moves(h, IF AsksGate(h) \/ hook[h].generation # 0
                THEN [hook[h] EXCEPT !.pc = "ask", !.policy = Resolved]
                ELSE [hook[h] EXCEPT !.pc = "done", !.policy = Resolved, !.answer = "allow"])
    /\ UNCHANGED <<handler, faults>>

\* What the Hook makes of an exchange without a usable reply: its own Gate
\* when the daemon is away, no judgement when what it said cannot be used.
Without(h, status) ==
    IF ~AsksGate(h) THEN [hook[h] EXCEPT !.pc = "done", !.status = status, !.answer = "warn"]
    ELSE [hook[h] EXCEPT !.pc = "observe", !.status = status,
                         !.verdict = IF status = "protocol_error" THEN "uncertain"
                                     ELSE Verdict(hook[h].policy, hook[h].proposal)]

Ask(h) ==
    /\ hook[h].pc = "ask"
    /\ IF daemon.up
       THEN /\ handler' = [handler EXCEPT ![h].pc = "sent"]
            /\ Moves(h, [hook[h] EXCEPT !.pc = "waiting"])
       ELSE /\ Moves(h, Without(h, "unavailable"))
            /\ UNCHANGED handler
    /\ UNCHANGED faults

\* SPOTTER_CAPTURE_ONLY: the local Gate, and no request.
CaptureOnly(h) ==
    /\ hook[h].pc = "ask" /\ AsksGate(h)
    /\ Moves(h, Without(h, "capture_only"))
    /\ UNCHANGED <<handler, faults>>

\* asyncio.timeout: whatever the daemon is doing, or has done.
Expire(h) ==
    /\ hook[h].pc = "waiting"
    /\ Moves(h, Without(h, "timeout"))
    /\ UNCHANGED <<handler, faults>>

\* At a session start the Hook is silent only if the daemon confirms this very thread.
Announced(observing) == IF observing THEN "allow" ELSE "warn"

Receive(h) ==
    /\ hook[h].pc = "waiting" /\ handler[h].pc \in {"answered", "noted"}
    /\ Moves(h, CASE handler[h].verdict = "error" -> Without(h, "protocol_error")
                  [] handler[h].verdict # "error" /\ AsksGate(h) ->
                       [hook[h] EXCEPT !.pc = "observe", !.status = "ok",
                                       !.verdict = handler[h].verdict]
                  [] OTHER -> [hook[h] EXCEPT !.pc = "done", !.status = "ok",
                                 !.answer = Announced(handler[h].observing)])
    /\ UNCHANGED <<handler, faults>>

\* readline() returns nothing, or the socket is reset with the request unread.
Closed(h) ==
    /\ hook[h].pc = "waiting" /\ handler[h].pc = "closed"
    /\ \E status \in {"protocol_error", "unavailable"} : Moves(h, Without(h, status))
    /\ UNCHANGED <<handler, faults>>

Enforces(h) == ~Observes(hook[h].policy) /\ hook[h].status # "capture_only"

\* SpotterRuntime.observe and what follows it up to the answer.
Observe(h) ==
    /\ hook[h].pc = "observe"
    /\ LET denied == hook[h].verdict = "deny"
           noted == [hook[h] EXCEPT !.pc = "done",
                       !.journaled = CASE denied /\ Enforces(h) -> "gate_block"
                                       [] denied -> "gate_shadow_block"
                                       [] hook[h].verdict = "uncertain" -> "gate_fail_open"
                                       [] OTHER -> None,
                       !.answer = IF denied /\ Enforces(h) THEN "deny" ELSE "allow"]
       IN  Moves(h, noted)
    /\ UNCHANGED <<handler, faults>>

\* The journal, the snapshot lock or the review's log fails: the exception
\* reaches _hook_main, which allows.
ObserveFails(h) ==
    /\ hook[h].pc = "observe" /\ Fault
    /\ \E written \in {None} \cup (IF hook[h].verdict = "deny" /\ Enforces(h)
                                  THEN {"gate_block"} ELSE {}) :
          Moves(h, [hook[h] EXCEPT !.pc = "done", !.status = "failed",
                                   !.journaled = written, !.answer = "allow"])
    /\ UNCHANGED handler

HookSteps(h) ==
    \/ Fence(h) \/ Resolve(h) \/ Ask(h) \/ CaptureOnly(h)
    \/ Expire(h) \/ Receive(h) \/ Closed(h) \/ Observe(h)

(******************************** the daemon ********************************)

\* The peers' versions, as the daemon checks the request and the Hook the
\* reply; an incompatible request is answered too, with the daemon's version.
Speaks(own, other) == Protocol(own) = Protocol(other) /\ Protocol(own) \in Peers(other)

\* Mutant: a thread observed on any connection counts.
OnAnyConnection(entry) == daemon.ready /\ entry.epoch # 0
\* _session_status: the thread is observed on the connection there is now.
Confirms(entry) == daemon.ready /\ entry.epoch = daemon.epoch

\* Mutant: the daemon judges under the policy it loaded.
JudgedByOwn(h) == Verdict(daemon.policy, hook[h].proposal)
\* The daemon judges under the policy it was sent.
Judged(h) == Verdict(hook[h].policy, hook[h].proposal)

Handle(h) ==
    /\ daemon.up /\ handler[h].pc = "sent"
    /\ LET usable == /\ Speaks(daemon.build, hook[h].build)
                     /\ Speaks(hook[h].build, daemon.build)
                     /\ AsksGate(h) => ~Oversized(hook[h].proposal)
       IN  handler' = [handler EXCEPT ![h] =
                         [pc |-> "answered",
                          verdict |-> IF ~usable THEN "error"
                                      ELSE IF AsksGate(h) THEN Judged(h) ELSE None,
                          observing |-> Confirms(thread)]]
    /\ UNCHANGED <<files, hook, daemon, view, agent, timeline, faults>>

\* The thread has control, and the turn the proposal named is the active one.
InTurn(h) == thread.ready /\ thread.active = hook[h].turn

\* record_gate_decision, after the reply has been written.
Note(h) ==
    /\ daemon.up /\ handler[h].pc = "answered"
    /\ handler' = [handler EXCEPT ![h].pc = "noted"]
    /\ timeline' = IF handler[h].verdict = "deny" /\ InTurn(h)
                   THEN timeline \cup {[hook |-> h, turn |-> thread.active]}
                   ELSE timeline
    /\ UNCHANGED <<files, hook, daemon, view, agent, faults>>

Done ==
    /\ \A h \in Hooks : hook[h].pc = "done" /\ handler[h].pc \in {"none", "noted", "closed"}
    /\ UNCHANGED exchangeVars

ExchangeNext ==
    \/ EditConfig \/ Upgrade \/ SetupInstallsHook \/ SetupCommits
    \/ DaemonDies \/ DaemonStarts \/ Connect \/ Disconnect
    \/ StartTurn \/ EndTurn \/ Subscribe
    \/ \E h \in Hooks : Launch(h) \/ HookSteps(h) \/ ObserveFails(h) \/ Handle(h) \/ Note(h)
    \/ Done

ExchangeSpec == ExchangeInit /\ [][ExchangeNext]_exchangeVars

(******************************** properties ********************************)

ExchangeTypeOK ==
    /\ config \in Policies \cup {Unusable}
    /\ installed \in Builds /\ fence \in Nat /\ faults \in 0 .. MaxFaults
    /\ manifest \in [generation : Nat, build : Builds]
    /\ thread \in ThreadStates /\ contact \in Contacts \cup {"none"}
    /\ turn \in 0 .. MaxTurn /\ turns \in 0 .. MaxTurn
    /\ timeline \subseteq [hook : Hooks, turn : Turns]
    /\ \A h \in Hooks : hook[h].policy \in Policies \cup {None}

Denies(h) == Enforces(h) /\ Verdict(hook[h].policy, hook[h].proposal) = "deny"

\* A daemon that answers in time, late, not at all, or with a configuration of
\* its own decides nothing: a Hook that asked it and got an answer or none
\* stops the tool exactly when the policy the Hook resolved says so
\* (hook._gate_over_ipc, daemon._evaluate_gate).
PolicyDecides ==
    \A h \in Hooks :
        /\ hook[h].answer = "deny" => Denies(h)
        /\ (/\ hook[h].pc = "done" /\ AsksGate(h)
            /\ hook[h].status \in {"ok", "timeout", "unavailable"}
            /\ Denies(h))
              => hook[h].answer = "deny"

Silent(h) ==
    hook[h].proposal = None /\ hook[h].status = "ok" /\ hook[h].answer = "allow"

\* A session start that prints no warning was not answered from what an earlier
\* connection saw: while the Hook ran, the App Server connection of the daemon was
\* subscribed to the thread, or knew of it from this very connection, because it had
\* been notified of it, was refused the subscription, or did not find it in the list
\* (hook._live_observation_warning, daemon._session_status).
SilenceIsCurrent == \A h \in Hooks : Silent(h) => hook[h].seen # {}

\* The documented meaning of it: "A thread read but not subscribed sees no later
\* events: its coverage must not read as a live subscription."
SilenceMeansObserved == \A h \in Hooks : Silent(h) => "subscribed" \in hook[h].seen

\* The documented promise: while the daemon is down the Hook keeps enforcing
\* with its local Gate, here when it goes down during the exchange.
DowntimeKeepsGate ==
    \A h \in Hooks :
        (hook[h].lost /\ hook[h].pc = "done" /\ AsksGate(h) /\ hook[h].status # "failed" /\ Denies(h))
          => hook[h].answer = "deny"

\* The documented meaning of the timeline: what it records as blocked, the
\* Hook rejected.
BlockedWasDenied ==
    \A b \in timeline : hook[b.hook].pc = "done" => hook[b.hook].answer = "deny"
=============================================================================

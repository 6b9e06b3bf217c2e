----------------------------- MODULE Inspector -----------------------------
(***************************************************************************)
(* JsRuntimeInspector: the sessions of debuggers and workers, polled by    *)
(* the event loop, by V8 interrupts, and by the isolate's thread while it  *)
(* is paused or waits for a debugger.  Debuggers and workers are threads   *)
(* of their own: they put a proxy or a message into a channel and then     *)
(* wake its receiver, in two steps.                                        *)
(*                                                                         *)
(* What a message says is abstracted to the five commands that change the  *)
(* inspector's state and "plain" for the rest, which V8 answers.           *)
(***************************************************************************)
EXTENDS Naturals, Sequences, FiniteSets

CONSTANTS
  Debuggers, InsWorkers,
  Commands,        \* commands that debuggers send, see AllCommands
  InsMaxMsgs,      \* bound: messages of one debugger or worker
  InsMaxPauses     \* bound: `debugger` statements

AllCommands == {"plain", "run", "resume", "discover", "attach", "to_worker"}

ASSUME InspectorAssumption ==
  /\ InsMaxMsgs \in Nat /\ InsMaxPauses \in Nat
  /\ Commands \subseteq AllCommands
  /\ Debuggers \cap InsWorkers = {}
  /\ {"sessions", "nobody"} \cap (Debuggers \cup InsWorkers) = {}

Nobody == "nobody"
Peers == Debuggers \cup InsWorkers
Channels == {"sessions"} \cup Peers

VARIABLES
  insThread,   \* the isolate's thread, see ThreadType
  insWaker,    \* InspectorWakerInner and what follows from it
  insSess,     \* SessionContainer and the enabled flags
  insPeer,     \* debugger or worker -> its side of the channels
  insChan      \* channel -> [waker: one is registered, due: the sender has yet to wake]

insVars == <<insThread, insWaker, insSess, insPeer, insChan>>

ThreadType ==
  [pc       : {"away",     \* the event loop's task is not being polled
               "js",       \* in a poll of the event loop, or a script before it
               "poll",     \* the inner loop of poll_sessions
               "established",  \* its poll of the established sessions
               "pump",     \* pump_inspector_session_messages of `cur`
               "update",   \* the inner loop is done
               "parked",   \* thread::park
               "unreachable"},
   from     : {"loop", "js", "wait"},   \* who called poll_sessions
   cur      : Debuggers \cup {Nobody},
   on_pause : BOOLEAN,
   waiting  : BOOLEAN,     \* waiting_for_session
   pauses   : 0 .. InsMaxPauses]

WakerType ==
  [poll_state : {"Idle", "Woken", "Polling", "Parked"},
   task       : BOOLEAN,   \* task_waker is set
   ptr        : BOOLEAN,   \* inspector_state_ptr is set
   interrupt  : BOOLEAN,   \* V8 has a requested interrupt
   polls      : BOOLEAN,   \* the executor will poll the event loop's task
   unpark     : BOOLEAN]   \* the token of thread::park

InsTypeOK ==
  /\ insThread \in ThreadType /\ insWaker \in WakerType
  /\ insSess.established \subseteq Debuggers /\ insSess.local \subseteq Debuggers
  /\ insSess.queue \in Seq(Peers)
  /\ \A p \in Peers : insPeer[p].state \in {"new", "sent", "on", "off"}
  /\ insChan \in [Channels -> [waker : BOOLEAN, due : BOOLEAN]]

(* The inspector exists and has polled its sessions once; the embedder may *)
(* wait_for_session before it runs anything.                               *)
InsInit ==
  /\ \E waits \in BOOLEAN :
       /\ insThread = [pc |-> IF waits THEN "poll" ELSE "js", from |-> IF waits THEN "wait" ELSE "js",
                       cur |-> Nobody, on_pause |-> FALSE, waiting |-> waits, pauses |-> 0]
       /\ insWaker = [poll_state |-> IF waits THEN "Polling" ELSE "Idle", task |-> FALSE,
                      ptr |-> TRUE, interrupt |-> FALSE, polls |-> TRUE, unpark |-> FALSE]
  /\ insSess = [queue |-> <<>>, handshake |-> Nobody, established |-> {}, local |-> {},
                main |-> Nobody, targets |-> {}, attached |-> {}, discover |-> FALSE,
                auto_attach |-> FALSE, tasks |-> {}, to_worker |-> 0]
  /\ insPeer = [p \in Peers |-> [state |-> "new", inbox |-> <<>>, sent |-> 0,
                                 created |-> 0, attach |-> 0, got |-> 0]]
  /\ insChan = [c \in Channels |-> [waker |-> c = "sessions", due |-> FALSE]]

(***************************************************************************)
(* The other threads.                                                      *)
(***************************************************************************)
Sent(c) == insChan' = [insChan EXCEPT ![c] = [@ EXCEPT !.due = TRUE]]

(* A debugger connects, or a worker starts: its proxy goes into the queue. *)
Connect(p) ==
  /\ insPeer[p].state = "new"
  /\ insPeer' = [insPeer EXCEPT ![p] = [@ EXCEPT !.state = "sent"]]
  /\ insSess' = [insSess EXCEPT !.queue = Append(insSess.queue, p)]
  /\ Sent("sessions") /\ UNCHANGED <<insThread, insWaker>>

Send(p, cmd) ==
  /\ insPeer[p].state \in {"sent", "on"} /\ insPeer[p].sent < InsMaxMsgs
  /\ insPeer' = [insPeer EXCEPT ![p] = [[@ EXCEPT !.sent = insPeer[p].sent + 1]
                                           EXCEPT !.inbox = Append(insPeer[p].inbox, cmd)]]
  /\ Sent(p) /\ UNCHANGED <<insThread, insWaker, insSess>>

(* The other end of the channels is dropped. *)
Leave(p) ==
  /\ insPeer[p].state \in {"sent", "on"}
  /\ insPeer' = [insPeer EXCEPT ![p] = [@ EXCEPT !.state = "off"]]
  /\ Sent(p) /\ UNCHANGED <<insThread, insWaker, insSess>>

(* InspectorWaker::wake_by_ref. *)
Woken(w) ==
  [poll_state |-> "Woken",
   polls      |-> w.polls \/ (w.poll_state = "Idle" /\ w.task),
   task       |-> w.task /\ w.poll_state # "Idle",
   interrupt  |-> w.interrupt \/ (w.poll_state = "Idle" /\ w.ptr),
   ptr        |-> w.ptr /\ w.poll_state # "Idle",
   unpark     |-> w.unpark \/ w.poll_state = "Parked"]

(* The channel's registered waker is taken and called. *)
WakeReceiver(c) ==
  /\ insChan[c].due
  /\ insChan' = [insChan EXCEPT ![c] = [waker |-> FALSE, due |-> FALSE]]
  /\ insWaker' = IF insChan[c].waker THEN Woken(insWaker) ELSE insWaker
  /\ UNCHANGED <<insThread, insSess, insPeer>>

(***************************************************************************)
(* The isolate's thread enters poll_sessions.                              *)
(***************************************************************************)
Enter(from, w) ==
  /\ insThread' = [[insThread EXCEPT !.from = from] EXCEPT
       !.pc = IF w.poll_state \in {"Idle", "Woken"} THEN "poll" ELSE "unreachable"]
  /\ insWaker' = [w EXCEPT !.poll_state = "Polling"]

(* The executor polls the event loop: poll_sessions_from_event_loop. *)
InsPoll ==
  /\ insThread.pc = "away" /\ insWaker.polls
  /\ Enter("loop", [insWaker EXCEPT !.polls = FALSE])
  /\ UNCHANGED <<insSess, insPeer, insChan>>

(* The tick ends; JavaScript may have made the loop go round again. *)
TickEnds ==
  /\ insThread.pc = "js"
  /\ insThread' = [insThread EXCEPT !.pc = "away"]
  /\ UNCHANGED <<insWaker, insSess, insPeer, insChan>>

(* handle_interrupt, honoured where JavaScript runs. *)
Interrupt ==
  /\ insThread.pc = "js" /\ insWaker.interrupt
  /\ Enter("js", [insWaker EXCEPT !.interrupt = FALSE])
  /\ UNCHANGED <<insSess, insPeer, insChan>>

(* run_message_loop_on_pause, from a script (PumpMessage has the other     *)
(* case).                                                                  *)
Pause ==
  /\ insThread.pc = "js" /\ insSess.local # {} /\ insThread.pauses < InsMaxPauses
  /\ insThread' = [[[[insThread EXCEPT !.pc = "poll"] EXCEPT !.from = "js"]
                     EXCEPT !.on_pause = TRUE] EXCEPT !.pauses = insThread.pauses + 1]
  /\ insWaker' = [insWaker EXCEPT !.poll_state = "Polling"]
  /\ UNCHANGED <<insSess, insPeer, insChan>>

(***************************************************************************)
(* The inner loop: one handshake, one connection, the workers' messages,   *)
(* then the established sessions.                                          *)
(***************************************************************************)
Polling == insThread.pc = "poll"

Listening(chans) ==
  insChan' = [c \in Channels |-> IF c \in chans THEN [insChan[c] EXCEPT !.waker = TRUE]
                                 ELSE insChan[c]]

Pumping(d) == insThread' = [[insThread EXCEPT !.pc = "pump"] EXCEPT !.cur = d]

Handshake ==
  /\ Polling /\ insSess.handshake # Nobody
  /\ Pumping(insSess.handshake)
  /\ UNCHANGED <<insWaker, insSess, insPeer, insChan>>

(* A proxy that is taken from the queue; its sender may have left. *)
Arrived(p) == IF insPeer[p].state = "sent" THEN "on" ELSE insPeer[p].state

(* The notifications a new worker causes; they go to the main session. *)
AcceptWorker(w) ==
  LET Told(flag) == IF insSess.main # Nobody /\ flag THEN 1 ELSE 0
  IN /\ insSess' = [[[insSess EXCEPT !.queue = Tail(insSess.queue)]
                       EXCEPT !.targets = insSess.targets \cup {w}]
                       EXCEPT !.attached = IF Told(insSess.auto_attach) = 1
                                           THEN insSess.attached \cup {w} ELSE insSess.attached]
     /\ insPeer' = [insPeer EXCEPT ![w] =
          [[[@ EXCEPT !.state = Arrived(w)]
              EXCEPT !.created = insPeer[w].created + Told(insSess.discover)]
              EXCEPT !.attach = insPeer[w].attach + Told(insSess.auto_attach)]]

Accept ==
  /\ Polling /\ insSess.handshake = Nobody /\ insSess.queue # <<>>
  /\ LET p == Head(insSess.queue)
     IN \/ p \in InsWorkers /\ AcceptWorker(p)
        \/ /\ p \in Debuggers
           /\ insSess' = [[insSess EXCEPT !.queue = Tail(insSess.queue)] EXCEPT !.handshake = p]
           /\ insPeer' = [insPeer EXCEPT ![p] = [@ EXCEPT !.state = Arrived(p)]]
  /\ UNCHANGED <<insThread, insWaker, insChan>>

Accepted == Polling /\ insSess.handshake = Nobody /\ insSess.queue = <<>>

Heard(p) == insPeer[p].inbox # <<>>
Ended(p) == insPeer[p].inbox = <<>> /\ insPeer[p].state = "off"

(* A worker's message is forwarded to the main session, a worker that has  *)
(* ended is removed; then the loop starts over.                            *)
PollWorker(w) ==
  /\ Accepted /\ insSess.main # Nobody /\ w \in insSess.targets
  /\ \/ /\ Heard(w)
        /\ insPeer' = [insPeer EXCEPT ![w] = [@ EXCEPT !.inbox = Tail(insPeer[w].inbox)]]
        /\ UNCHANGED insSess
     \/ /\ Ended(w)
        /\ insSess' = [insSess EXCEPT !.targets = insSess.targets \ {w}] /\ UNCHANGED insPeer
  /\ Listening({"sessions"}) /\ UNCHANGED <<insThread, insWaker>>

WorkersQuiet ==
  insSess.main = Nobody \/ \A w \in insSess.targets : ~Heard(w) /\ ~Ended(w)

PolledWorkers == IF insSess.main = Nobody THEN {} ELSE insSess.targets

(* established.poll_next_unpin goes on to the other sessions until one has *)
(* ended or none has a message.                                            *)
Rest == insThread.pc = "established"

PollEstablished(d) ==
  /\ Rest \/ (Accepted /\ WorkersQuiet)
  /\ d \in insSess.established /\ (Heard(d) \/ Ended(d))
  /\ Pumping(d) /\ Listening(IF Rest THEN {} ELSE {"sessions"} \cup PolledWorkers)
  /\ UNCHANGED <<insWaker, insSess, insPeer>>

InnerLoopEnds ==
  /\ Rest \/ (Accepted /\ WorkersQuiet)
  /\ \A d \in insSess.established : ~Heard(d) /\ ~Ended(d)
  /\ insThread' = [insThread EXCEPT !.pc = "update"]
  /\ Listening(insSess.established \cup IF Rest THEN {} ELSE {"sessions"} \cup PolledWorkers)
  /\ UNCHANGED <<insWaker, insSess, insPeer>>

(***************************************************************************)
(* pump_inspector_session_messages.                                        *)
(***************************************************************************)
(* JavaScript that V8 runs for a message may honour an interrupt, or break *)
(* at a `debugger` statement: the poll_sessions of either finds the        *)
(* sessions borrowed and gives up, but the break has set on_pause by then. *)
PumpMessage ==
  /\ insThread.pc = "pump" /\ Heard(insThread.cur)
  /\ LET d == insThread.cur
         cmd == Head(insPeer[d].inbox)
     IN /\ insPeer' = [insPeer EXCEPT ![d] = [@ EXCEPT !.inbox = Tail(insPeer[d].inbox)]]
        /\ \E breaks \in BOOLEAN :
             /\ breaks => cmd = "plain" /\ insThread.pauses < InsMaxPauses
             /\ insThread' =
                  [[[insThread EXCEPT
                      !.on_pause = breaks \/ (@ /\ cmd # "resume")]  \* quit_message_loop_on_pause
                    EXCEPT !.waiting = @ /\ cmd # "run"]             \* run_if_waiting_for_debugger
                    EXCEPT !.pauses = @ + (IF breaks THEN 1 ELSE 0)]
        /\ insSess' =
             [[[[insSess EXCEPT !.discover = insSess.discover \/ cmd = "discover"]
                 EXCEPT !.auto_attach = insSess.auto_attach \/ cmd = "attach"]
                 EXCEPT !.tasks = insSess.tasks \cup ({cmd} \cap {"discover", "attach"})]
                 EXCEPT !.to_worker = insSess.to_worker + (IF cmd = "to_worker" THEN 1 ELSE 0)]
        /\ insWaker' \in {insWaker} \cup
             (IF cmd = "plain" THEN {[insWaker EXCEPT !.interrupt = FALSE]} ELSE {})
  /\ UNCHANGED insChan

(* The future is pending, or it is finished and is not kept; a new session *)
(* enters `local` either way, and none ever leaves it.                     *)
PumpEnds ==
  /\ insThread.pc = "pump" /\ ~Heard(insThread.cur)
  /\ LET d == insThread.cur
         done == insPeer[d].state = "off"
     IN /\ insSess' =
             [[[[insSess EXCEPT !.handshake = Nobody]
                 EXCEPT !.established = IF done THEN insSess.established \ {d}
                                        ELSE insSess.established \cup {d}]
                 EXCEPT !.local = insSess.local \cup {d}]
                 EXCEPT !.main = IF insSess.main = Nobody THEN d ELSE insSess.main]
        /\ Listening({d})
        /\ insThread' = [[insThread EXCEPT !.cur = Nobody] EXCEPT
             !.pc = IF done \/ insSess.handshake # Nobody THEN "poll" ELSE "established"]
  /\ UNCHANGED <<insWaker, insPeer>>

(***************************************************************************)
(* After the inner loop.                                                   *)
(***************************************************************************)
should_block == insThread.on_pause \/ insThread.waiting

(* Faulty variant: a wake that came while polling is overlooked. *)
WokenIgnored(state) == IF should_block THEN "Parked" ELSE "Idle"

NewState(state) ==
  CASE state = "Woken" -> "Polling"
    [] state = "Polling" /\ ~should_block -> "Idle"
    [] state = "Polling" /\ should_block -> "Parked"
    [] OTHER -> "unreachable"

(* wait_for_session goes round its loop until a session is in `local`. *)
AfterIdle ==
  CASE insThread.from = "wait" /\ insSess.local = {} -> "poll"
    [] OTHER -> "js"

Update ==
  /\ insThread.pc = "update"
  /\ LET new == NewState(insWaker.poll_state)
         again == new = "Idle" /\ AfterIdle = "poll"
     IN /\ insWaker' =
             IF new = "Idle"
             THEN [[[insWaker EXCEPT !.poll_state = IF again THEN "Polling" ELSE "Idle"]
                      EXCEPT !.ptr = TRUE]
                      EXCEPT !.task = insWaker.task \/ insThread.from = "loop"]
             ELSE [insWaker EXCEPT !.poll_state = IF new = "unreachable" THEN @ ELSE new]
        /\ insThread' = [[insThread EXCEPT !.waiting = insThread.waiting \/ again] EXCEPT
             !.pc = CASE new = "Idle" -> AfterIdle [] new = "Polling" -> "poll"
                      [] new = "Parked" -> "parked" [] OTHER -> "unreachable"]
  (* the messages that sessions queued for workers are sent *)
  /\ insPeer' = [p \in Peers |-> IF p \in insSess.targets
                                 THEN [insPeer[p] EXCEPT !.got = insPeer[p].got + insSess.to_worker]
                                 ELSE insPeer[p]]
  /\ insSess' = [insSess EXCEPT !.to_worker = 0]
  /\ UNCHANGED insChan

Unparked ==
  /\ insThread.pc = "parked" /\ insWaker.unpark
  /\ insThread' = [insThread EXCEPT !.pc = "poll"]
  /\ insWaker' = [insWaker EXCEPT !.unpark = FALSE]
  /\ UNCHANGED <<insSess, insPeer, insChan>>

(* thread::park may also return for no reason, and nothing then tells the  *)
(* loop around it from a wake.                                             *)
SpuriousReturn ==
  /\ insThread.pc = "parked" /\ ~insWaker.unpark
  /\ insThread' = [insThread EXCEPT !.pc = "poll"]
  /\ UNCHANGED <<insWaker, insSess, insPeer, insChan>>

NotYetAttached(ws) == ws \ insSess.attached

(* Tasks that commands spawned tell the sender about the workers there     *)
(* are; the executor runs them between polls of the event loop.            *)
NotifyWorkers(cmd) ==
  /\ insThread.pc = "away" /\ cmd \in insSess.tasks
  /\ LET attach == IF cmd = "attach" THEN NotYetAttached(insSess.targets) ELSE {}
     IN /\ insPeer' = [p \in Peers |->
             IF p \notin insSess.targets THEN insPeer[p]
             ELSE [[insPeer[p] EXCEPT
                      !.created = insPeer[p].created + (IF cmd = "discover" THEN 1 ELSE 0)]
                      EXCEPT !.attach = insPeer[p].attach + (IF p \in attach THEN 1 ELSE 0)]]
        /\ insSess' = [[insSess EXCEPT !.tasks = insSess.tasks \ {cmd}]
                         EXCEPT !.attached = insSess.attached \cup attach]
  /\ UNCHANGED <<insThread, insWaker, insChan>>

IsolateStep ==
  \/ InsPoll \/ TickEnds \/ Interrupt \/ Pause \/ Handshake \/ Accept
  \/ \E w \in InsWorkers : PollWorker(w)
  \/ \E d \in Debuggers : PollEstablished(d)
  \/ InnerLoopEnds \/ PumpMessage \/ PumpEnds \/ Update \/ Unparked

InsNext ==
  \/ \E p \in Peers : Connect(p) \/ Leave(p)
  \/ \E d \in Debuggers, cmd \in Commands : Send(d, cmd)
  \/ \E w \in InsWorkers : Send(w, "plain")
  \/ \E c \in Channels : WakeReceiver(c)
  \/ \E cmd \in {"discover", "attach"} : NotifyWorkers(cmd)
  \/ IsolateStep

InsSpec == InsInit /\ [][InsNext]_insVars

(* Threads as the standard library describes them. *)
SpuriousSpec == InsInit /\ [][InsNext \/ SpuriousReturn]_insVars

(***************************************************************************)
(* Properties.                                                             *)
(***************************************************************************)
(* No activity of a debugger is overlooked: while a connection, a message  *)
(* or a disconnection that has been announced waits, the thread is looking *)
(* at the channels, or has been unparked, or the event loop's task will be *)
(* polled (the states of InspectorWaker, poll_sessions).  A wake that      *)
(* finds no task waker relies on the wake before it.                       *)
Announced(c) == ~insChan[c].due
Waiting ==
  \/ insSess.queue # <<>> /\ Announced("sessions")
  \/ \E d \in insSess.established : (Heard(d) \/ Ended(d)) /\ Announced(d)
  \/ \E w \in PolledWorkers : (Heard(w) \/ Ended(w)) /\ Announced(w)

NoActivityOverlooked ==
  Waiting =>
    \/ insThread.pc \in {"poll", "established", "pump", "update"}
    \/ insThread.pc = "parked" /\ insWaker.unpark
    \/ insThread.pc \in {"js", "away"} /\ insWaker.polls

(* The unreachable!() arms of poll_sessions are never reached, whoever     *)
(* calls it: the event loop, an interrupt or a pause. (It does not hold    *)
(* where park returns without a wake: poll_state is still Parked then.)    *)
PollStatesMatch == insThread.pc # "unreachable"

(* A worker is announced with Target.attachedToTarget once, whether the    *)
(* worker or the command came first (TargetSession.attached).              *)
AttachedOnce == \A w \in InsWorkers : insPeer[w].attach <= 1

(* However debuggers, workers, interrupts and pauses interleave with the   *)
(* polls, the inspector overlooks nothing, reaches no unreachable!() and   *)
(* announces no worker twice.                                              *)
SessionsConsistent == InsTypeOK /\ NoActivityOverlooked /\ PollStatesMatch /\ AttachedOnce

(* A session that counts as active (sessions_state, which the event loop   *)
(* waits for) has a debugger at its other end, or has not yet been polled  *)
(* since its debugger left. (It does not hold: no session ever leaves      *)
(* `local`.)                                                               *)
ActiveMeansConnected ==
  \A d \in insSess.local : insPeer[d].state = "on" \/ d \in insSess.established
=============================================================================

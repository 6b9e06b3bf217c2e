------------------------------- MODULE UvLoop -------------------------------
(***************************************************************************)
(* The libuv replacement of uv_compat.rs without its sockets: timers, the  *)
(* idle, prepare and check handles ("watchers"), and the closing of        *)
(* handles, in the phases in which poll_event_loop_inner runs them.        *)
(*                                                                         *)
(* The loop keeps raw pointers to handles that C code owns.  C code calls  *)
(* the uv functions between polls and inside every callback (`callback` is *)
(* the handle whose callback runs), and frees a handle in its close        *)
(* callback.                                                               *)
(***************************************************************************)
EXTENDS Integers, Sequences, FiniteSets, SequencesExt

CONSTANTS
  UvTimers,          \* uv_timer_t handles
  Watchers,          \* uv_idle_t, uv_prepare_t and uv_check_t handles
  WatcherKind,       \* Watchers -> Kinds
  UvMaxTime,         \* bound: clock
  UvMaxCalls,        \* bound: calls of uv functions
  StartsClosing      \* C code also starts handles that are closing

Kinds == {"idle", "prepare", "check"}
Handles == UvTimers \cup Watchers
UvNone == "no handle"

ASSUME UvAssumption ==
  /\ UvMaxTime \in Nat /\ UvMaxCalls \in Nat /\ StartsClosing \in BOOLEAN
  /\ WatcherKind \in [Watchers -> Kinds]
  /\ UvTimers \cap Watchers = {} /\ UvNone \notin Handles

TimerIds == 1 .. UvMaxCalls

VARIABLES
  uv_now,
  uv_calls,          \* calls made: also alloc_timer_id's counter
  handle,            \* flags and fields of each handle, see HandleType
  uv_timers,         \* the BTreeSet of <<deadline, id>>
  timer_handles,     \* id -> handle
  watchers,          \* idle_handles, prepare_handles, check_handles
  closing_handles,
  uv_pc,             \* the phase under way
  cursor,            \* index of run_idle, run_prepare, run_check
  uv_expired,        \* run_timers: the keys taken, first deadline first
  closing_now,       \* run_close: the handles taken
  callback           \* the handle whose callback runs

tableVars == <<uv_timers, timer_handles, watchers, closing_handles>>
phaseVars == <<uv_pc, cursor, uv_expired, closing_now>>
uvVars == <<uv_now, uv_calls, handle, tableVars, phaseVars, callback>>

HandleType == [active : BOOLEAN, referenced : BOOLEAN, closing : BOOLEAN, freed : BOOLEAN,
               id : 0 .. UvMaxCalls, deadline : Nat, repeat : 0 .. 1]

(* uv_timer_init, uv_idle_init, uv_prepare_init, uv_check_init. *)
UvInit ==
  /\ uv_now = 0 /\ uv_calls = 0
  /\ handle = [h \in Handles |-> [active |-> FALSE, referenced |-> TRUE, closing |-> FALSE,
                                  freed |-> FALSE, id |-> 0, deadline |-> 0, repeat |-> 0]]
  /\ uv_timers = {} /\ timer_handles = [i \in TimerIds |-> UvNone]
  /\ watchers = [k \in Kinds |-> <<>>] /\ closing_handles = <<>>
  /\ uv_pc = "outside" /\ cursor = 0 /\ uv_expired = {} /\ closing_now = <<>>
  /\ callback = UvNone

(***************************************************************************)
(* The uv functions.                                                       *)
(***************************************************************************)
CodeRuns == uv_pc = "outside" \/ callback # UvNone

UvCall(h) ==
  /\ CodeRuns /\ uv_calls < UvMaxCalls /\ ~handle[h].freed
  /\ uv_calls' = uv_calls + 1
  /\ UNCHANGED <<uv_now, phaseVars, callback>>

MayStart(h) == ~handle[h].closing \/ StartsClosing

(* Faulty variants of definitions below. *)
KeepsHandle(h) == timer_handles
OldIdRuns(h) == [timer_handles EXCEPT ![handle[h].id] = IF uv_pc = "timers" THEN h ELSE UvNone]
(* stop_timer: what is left of the two tables. *)
WithoutHandle(h) ==
  IF handle[h].id = 0 THEN timer_handles ELSE [timer_handles EXCEPT ![handle[h].id] = UvNone]
WithoutKey(h) == uv_timers \ {<<handle[h].deadline, handle[h].id>>}

(* A timer is armed under a new id, after stop_timer if it is active. *)
Arm(h, delay, repeat) ==
  LET due == uv_now + delay
      id == uv_calls + 1
      wipe == handle[h].active
  IN /\ uv_timers' = (IF wipe THEN WithoutKey(h) ELSE uv_timers) \cup {<<due, id>>}
     /\ timer_handles' = [(IF wipe THEN WithoutHandle(h) ELSE timer_handles) EXCEPT ![id] = h]
     /\ handle' = [handle EXCEPT ![h] = [[[[@ EXCEPT !.active = TRUE] EXCEPT !.id = id]
                                             EXCEPT !.deadline = due] EXCEPT !.repeat = repeat]]
     /\ UNCHANGED <<watchers, closing_handles>>

TimerStart(h, timeout, repeat) == UvCall(h) /\ MayStart(h) /\ Arm(h, timeout, repeat)

(* UV_EINVAL for a timer that does not repeat. *)
TimerAgain(h) ==
  UvCall(h) /\ MayStart(h) /\ handle[h].repeat > 0 /\ Arm(h, handle[h].repeat, handle[h].repeat)

TimerSetRepeat(h, repeat) ==
  /\ UvCall(h) /\ handle' = [handle EXCEPT ![h] = [@ EXCEPT !.repeat = repeat]]
  /\ UNCHANGED tableVars

TimerStop(h) ==
  /\ UvCall(h)
  /\ uv_timers' = WithoutKey(h) /\ timer_handles' = WithoutHandle(h)
  /\ handle' = [handle EXCEPT ![h] = [@ EXCEPT !.active = FALSE]]
  /\ UNCHANGED <<watchers, closing_handles>>

(* uv_idle_start and its like: an active handle only changes its callback. *)
WatcherStart(w) ==
  /\ UvCall(w) /\ MayStart(w) /\ ~handle[w].active
  /\ handle' = [handle EXCEPT ![w] = [@ EXCEPT !.active = TRUE]]
  /\ watchers' = [watchers EXCEPT ![WatcherKind[w]] = Append(@, w)]
  /\ UNCHANGED <<uv_timers, timer_handles, closing_handles>>

(* stop_idle and its like; a handle is in its list at most once. *)
WithoutWatcher(w) == [watchers EXCEPT ![WatcherKind[w]] = RemoveFirst(@, w)]

WatcherStop(w) ==
  /\ UvCall(w) /\ handle[w].active
  /\ handle' = [handle EXCEPT ![w] = [@ EXCEPT !.active = FALSE]]
  /\ watchers' = WithoutWatcher(w)
  /\ UNCHANGED <<uv_timers, timer_handles, closing_handles>>

(* "Must not be called twice on the same handle". *)
UvClose(h) ==
  /\ UvCall(h) /\ ~handle[h].closing
  /\ handle' = [handle EXCEPT ![h] = [[@ EXCEPT !.closing = TRUE] EXCEPT !.active = FALSE]]
  /\ IF h \in UvTimers
     THEN uv_timers' = WithoutKey(h) /\ timer_handles' = WithoutHandle(h) /\ UNCHANGED watchers
     ELSE watchers' = WithoutWatcher(h) /\ UNCHANGED <<uv_timers, timer_handles>>
  /\ closing_handles' = Append(closing_handles, h)

UvSetRef(h, r) ==
  /\ UvCall(h) /\ handle[h].referenced # r
  /\ handle' = [handle EXCEPT ![h] = [@ EXCEPT !.referenced = r]] /\ UNCHANGED tableVars

HasAliveHandles ==
  \/ \E i \in TimerIds : LET h == timer_handles[i] IN
       h # UvNone /\ handle[h].active /\ handle[h].referenced
  \/ \E k \in Kinds : \E w \in ToSet(watchers[k]) : handle[w].active /\ handle[w].referenced
  \/ closing_handles # <<>>

(***************************************************************************)
(* The phases.                                                             *)
(***************************************************************************)
KeyBefore(a, b) == a[1] < b[1] \/ (a[1] = b[1] /\ a[2] < b[2])

(* run_timers takes the keys that are due. *)
PollTimers ==
  /\ uv_pc = "outside" /\ uv_pc' = "timers"
  /\ uv_expired' = {key \in uv_timers : key[1] <= uv_now}
  /\ UNCHANGED <<uv_now, uv_calls, handle, tableVars, cursor, closing_now, callback>>

(* The key whose turn it is. *)
NextExpired(key) ==
  /\ uv_pc = "timers" /\ callback = UvNone
  /\ key \in uv_expired /\ \A other \in uv_expired : ~KeyBefore(other, key)
  /\ uv_expired' = uv_expired \ {key}

StillArmed(key) == LET h == timer_handles[key[2]] IN h # UvNone /\ handle[h].active

(* The key's timer was stopped or armed anew by an earlier callback. *)
SkipTimer(key) ==
  /\ NextExpired(key) /\ ~StillArmed(key)
  /\ uv_timers' = uv_timers \ {key}
  /\ timer_handles' = [timer_handles EXCEPT ![key[2]] = UvNone]
  /\ UNCHANGED <<uv_now, uv_calls, handle, watchers, closing_handles, uv_pc,
                 cursor, closing_now, callback>>

RunTimer(key) ==
  /\ NextExpired(key) /\ StillArmed(key)
  /\ LET h == timer_handles[key[2]]
         due == uv_now + handle[h].repeat
     IN IF handle[h].repeat > 0
        THEN /\ uv_timers' = (uv_timers \ {key}) \cup {<<due, key[2]>>}
             /\ handle' = [handle EXCEPT ![h] = [@ EXCEPT !.deadline = due]]
             /\ callback' = h /\ UNCHANGED timer_handles
        ELSE /\ uv_timers' = uv_timers \ {key}
             /\ handle' = [handle EXCEPT ![h] = [@ EXCEPT !.active = FALSE]]
             /\ timer_handles' = [timer_handles EXCEPT ![key[2]] = UvNone]
             /\ callback' = h
  /\ UNCHANGED <<uv_now, uv_calls, watchers, closing_handles, uv_pc, cursor, closing_now>>

CallbackEnds ==
  /\ callback # UvNone /\ callback' = UvNone
  /\ UNCHANGED <<uv_now, uv_calls, handle, tableVars, phaseVars>>

NextPhase == [timers |-> "idle", idle |-> "prepare", prepare |-> "check", check |-> "close"]
Exhausted ==
  IF uv_pc = "timers" THEN uv_expired = {} ELSE cursor >= Len(watchers[uv_pc])

(* The end of a phase; run_close takes the handles to close as it begins. *)
PhaseEnds ==
  /\ uv_pc \in DOMAIN NextPhase /\ callback = UvNone /\ Exhausted
  /\ uv_pc' = NextPhase[uv_pc] /\ cursor' = 0
  /\ IF uv_pc = "check" THEN closing_now' = closing_handles /\ closing_handles' = <<>>
     ELSE UNCHANGED <<closing_now, closing_handles>>
  /\ UNCHANGED <<uv_now, uv_calls, handle, uv_timers, timer_handles, watchers, uv_expired, callback>>

(* run_idle, run_prepare, run_check: the handle at the index. *)
RunWatcher ==
  /\ uv_pc \in Kinds /\ callback = UvNone /\ ~Exhausted
  /\ cursor' = cursor + 1
  /\ callback' = LET w == watchers[uv_pc][cursor + 1] IN
                 IF handle[w].active THEN w ELSE UvNone
  /\ UNCHANGED <<uv_now, uv_calls, handle, tableVars, uv_pc, uv_expired, closing_now>>

(* The close callback frees the handle. *)
RunClose ==
  /\ uv_pc = "close" /\ callback = UvNone /\ closing_now # <<>>
  /\ handle' = [handle EXCEPT ![Head(closing_now)] = [@ EXCEPT !.freed = TRUE]]
  /\ callback' = Head(closing_now) /\ closing_now' = Tail(closing_now)
  /\ UNCHANGED <<uv_now, uv_calls, tableVars, uv_pc, cursor, uv_expired>>

CloseEnds ==
  /\ uv_pc = "close" /\ callback = UvNone /\ closing_now = <<>> /\ uv_pc' = "outside"
  /\ UNCHANGED <<uv_now, uv_calls, handle, tableVars, cursor, uv_expired, closing_now, callback>>

UvTick ==
  /\ uv_pc = "outside" /\ uv_now < UvMaxTime /\ uv_now' = uv_now + 1
  /\ UNCHANGED <<uv_calls, handle, tableVars, phaseVars, callback>>

UvCode ==
  \/ \E h \in UvTimers :
       \/ \E timeout \in 0 .. 1, repeat \in 0 .. 1 : TimerStart(h, timeout, repeat)
       \/ TimerAgain(h) \/ TimerStop(h) \/ \E r \in 0 .. 1 : TimerSetRepeat(h, r)
  \/ \E w \in Watchers : WatcherStart(w) \/ WatcherStop(w)
  \/ \E h \in Handles : UvClose(h) \/ \E r \in BOOLEAN : UvSetRef(h, r)

UvPhases ==
  \/ PollTimers \/ \E key \in uv_expired : SkipTimer(key) \/ RunTimer(key)
  \/ CallbackEnds \/ PhaseEnds
  \/ RunWatcher \/ RunClose \/ CloseEnds

UvNext == UvCode \/ UvPhases \/ UvTick

UvSpec == UvInit /\ [][UvNext]_uvVars

(***************************************************************************)
(* Properties.                                                             *)
(***************************************************************************)
(* The fields of the loop and of the handles hold what they should. *)
UvTypeOK ==
  /\ handle \in [Handles -> HandleType] /\ uv_now \in Nat
  /\ uv_timers \subseteq Nat \X TimerIds
  /\ timer_handles \in [TimerIds -> UvTimers \cup {UvNone}]
  /\ \A k \in Kinds : \A w \in ToSet(watchers[k]) : WatcherKind[w] = k
  /\ callback \in Handles \cup {UvNone} /\ cursor \in Nat

(* The pointers the loop keeps are valid, as the SAFETY comments of        *)
(* run_timers, run_idle, run_check and run_close require: none of its      *)
(* tables names a handle that its close callback has freed, and a handle   *)
(* waits there for its close callback at most once.                        *)
NoDanglingHandles ==
  LET waiting == closing_handles \o closing_now
      held == {timer_handles[i] : i \in TimerIds} \cup ToSet(waiting)
                \cup UNION {ToSet(watchers[k]) : k \in Kinds}
  IN /\ \A h \in held \ {UvNone} : ~handle[h].freed
     /\ IsInjective(waiting)

(* The tables and the flags agree: an active timer is in both tables under *)
(* its current id and deadline and no other handle is there; and between   *)
(* the phases has_alive_handles, which keeps the event loop going, is true *)
(* exactly while a ref'd handle is active or a close callback is due.      *)
TimerTablesAgree ==
  /\ \A h \in UvTimers : handle[h].active =>
       /\ <<handle[h].deadline, handle[h].id>> \in uv_timers
       /\ {i \in TimerIds : timer_handles[i] = h} = {handle[h].id}
  /\ \A i \in TimerIds : timer_handles[i] # UvNone => handle[timer_handles[i]].active
  /\ uv_pc = "outside" =>
       (HasAliveHandles <=> \E h \in Handles :
         (handle[h].active /\ handle[h].referenced) \/ (handle[h].closing /\ ~handle[h].freed))

(* The loop's tables and the handles agree, and hold no dangling pointer,  *)
(* whatever the callbacks start, stop and close while run_timers, run_idle *)
(* and run_close walk them.                                                *)
UvHandlesConsistent == UvTypeOK /\ NoDanglingHandles /\ TimerTablesAgree

(* A timer callback runs only for a timer that is active and whose current *)
(* deadline has passed: one stopped, closed or armed for later by an       *)
(* earlier callback of the same pass does not fire.                        *)
UvFiresDue ==
  [][\A h \in UvTimers :
       callback = UvNone /\ callback' = h /\ uv_pc = "timers"
         => handle[h].active /\ ~handle[h].closing /\ handle[h].deadline <= uv_now]_uvVars
=============================================================================

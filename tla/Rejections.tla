----------------------------- MODULE Rejections -----------------------------
(***************************************************************************)
(* ExceptionState: promise rejections that nobody has handled yet, their   *)
(* delivery by the event loop (JsRuntime::dispatch_rejections and          *)
(* __handleRejections in 01_core.js), and the dispatched exception that    *)
(* ends the poll it is reported in.                                        *)
(*                                                                         *)
(* Scripts run between the phases and inside the two handlers.  A promise  *)
(* is rejected at most once and gets its first handler at most once.       *)
(***************************************************************************)
EXTENDS Naturals, Sequences, SequencesExt

CONSTANTS
  RjPromises,   \* promises that scripts reject
  RjMaxPolls    \* bound: polls of the event loop

ASSUME RejectionsAssumption == RjMaxPolls \in Nat

NoException == "no exception"
(* Exceptions that are not the reason of a rejection. *)
Thrown0 == "thrown"
Values == RjPromises \cup {Thrown0}

VARIABLES
  rjPromise,      \* promise -> "pending", "rejected" (no handler), "caught"
  rjPending,      \* pending_promise_rejections, in order
  rjHandled,      \* pending_handled_promise_rejections
  rjListener,     \* js_handled_promise_rejection_cb is set
  rjPhase,        \* where the poll is, "out" between polls
  rjBatch,        \* the arguments of __handleRejections still to be looked at
  rjDispatched,   \* dispatched_exception; the isolate is terminating if set
  rjResult,       \* how the last poll ended: "ok", "panic" or the error's value
  rjReported,     \* history: rejections given to the unhandled handler
  rjPolls

rjVars == <<rjPromise, rjPending, rjHandled, rjListener, rjPhase, rjBatch,
            rjDispatched, rjResult, rjReported, rjPolls>>

RjPhases ==
  {"out", "handled", "in_listener", "take", "unhandled", "in_handler", "check"}

RjTypeOK ==
  /\ rjPromise \in [RjPromises -> {"pending", "rejected", "caught"}]
  /\ rjPending \in Seq(RjPromises) /\ rjHandled \in Seq(RjPromises)
  /\ rjBatch \in Seq(RjPromises)
  /\ rjListener \in BOOLEAN /\ rjPhase \in RjPhases
  /\ rjDispatched \in Values \cup {NoException}
  /\ rjResult \in Values \cup {"ok", "panic"}
  /\ rjReported \subseteq RjPromises /\ rjPolls \in 0 .. RjMaxPolls

RjInit ==
  /\ rjPromise = [p \in RjPromises |-> "pending"]
  /\ rjPending = <<>> /\ rjHandled = <<>> /\ rjBatch = <<>>
  /\ rjListener = FALSE /\ rjPhase = "out" /\ rjDispatched = NoException
  /\ rjResult = "ok" /\ rjReported = {} /\ rjPolls = 0

(***************************************************************************)
(* Scripts.  They run between polls and in the handlers, unless the        *)
(* isolate is terminating.                                                 *)
(***************************************************************************)
Scripting ==
  /\ rjPhase \in {"out", "in_listener", "in_handler"}
  /\ rjDispatched = NoException /\ rjResult # "panic"

(* PromiseRejectWithNoHandler. *)
Reject(p) ==
  /\ Scripting /\ rjPromise[p] = "pending"
  /\ rjPromise' = [rjPromise EXCEPT ![p] = "rejected"]
  /\ rjPending' = Append(rjPending, p)
  /\ UNCHANGED <<rjHandled, rjListener, rjPhase, rjBatch, rjDispatched, rjResult,
                 rjReported, rjPolls>>

(* dispatch_rejections pops from pending_handled_promise_rejections in the *)
(* head of a `while let`, so the list stays mutably borrowed while the     *)
(* listener runs; the listener's own cell is borrowed too.                 *)
HandledListBorrowed == rjPhase = "in_listener"

(* Faulty variant: every rejection in the list is withdrawn. *)
WithdrawsAll(p) == <<>>

(* retain(..) of the others: a promise is rejected, and so listed, once. *)
Withdrawn(p) == RemoveFirst(rjPending, p)

(* PromiseHandlerAddedAfterReject, from V8 or from mod_evaluate_sync,      *)
(* which marks the evaluation promise as handled itself.                   *)
AddHandler(p) ==
  /\ Scripting /\ rjPromise[p] = "rejected"
  /\ rjPromise' = [rjPromise EXCEPT ![p] = "caught"]
  /\ LET rest == Withdrawn(p)
         late == Len(rest) = Len(rjPending) /\ rjListener
     IN /\ rjPending' = rest
        /\ rjHandled' = IF late /\ ~HandledListBorrowed THEN Append(rjHandled, p) ELSE rjHandled
        /\ rjResult' = IF late /\ HandledListBorrowed THEN "panic" ELSE rjResult
  /\ UNCHANGED <<rjListener, rjPhase, rjBatch, rjDispatched, rjReported, rjPolls>>

(* op_set_handled_promise_rejection_handler. *)
SetListener ==
  /\ Scripting /\ ~rjListener
  /\ rjListener' = TRUE
  /\ UNCHANGED <<rjPromise, rjPending, rjHandled, rjPhase, rjBatch, rjDispatched,
                 rjResult, rjReported, rjPolls>>

(* reportUnhandledException: dispatch_exception terminates the isolate. *)
ReportException ==
  /\ Scripting
  /\ rjDispatched' = Thrown0
  /\ UNCHANGED <<rjPromise, rjPending, rjHandled, rjListener, rjPhase, rjBatch,
                 rjResult, rjReported, rjPolls>>

(***************************************************************************)
(* The poll.                                                               *)
(***************************************************************************)
RjPoll ==
  /\ rjPhase = "out" /\ rjResult # "panic" /\ rjPolls < RjMaxPolls
  /\ rjPhase' = "handled" /\ rjPolls' = rjPolls + 1 /\ rjResult' = "ok"
  /\ UNCHANGED <<rjPromise, rjPending, rjHandled, rjListener, rjBatch, rjDispatched,
                 rjReported>>

(* Each handled rejection is given to the listener, if JavaScript runs. *)
PopHandled ==
  /\ rjPhase = "handled" /\ rjHandled # <<>>
  /\ rjHandled' = Tail(rjHandled)
  /\ rjPhase' = IF rjListener /\ rjDispatched = NoException THEN "in_listener" ELSE "handled"
  /\ UNCHANGED <<rjPromise, rjPending, rjListener, rjBatch, rjDispatched, rjResult,
                 rjReported, rjPolls>>

ListenerReturns ==
  /\ rjPhase = "in_listener" /\ rjResult # "panic"
  /\ rjPhase' = "handled"
  /\ UNCHANGED <<rjPromise, rjPending, rjHandled, rjListener, rjBatch, rjDispatched,
                 rjResult, rjReported, rjPolls>>

PendingAfterSwap == <<>>

(* The list is swapped with an empty one; none of its entries can be       *)
(* withdrawn from here on.                                                 *)
TakePending ==
  /\ rjPhase = "handled" /\ rjHandled = <<>>
  /\ rjBatch' = rjPending /\ rjPending' = PendingAfterSwap
  /\ rjPhase' = IF rjPending = <<>> THEN "check" ELSE "unhandled"
  /\ UNCHANGED <<rjPromise, rjHandled, rjListener, rjDispatched, rjResult, rjReported, rjPolls>>

(* exception_to_err_result with clear_error: the dispatched exception is   *)
(* the one returned, whatever was caught.                                  *)
ErrorValue(caught) == IF rjDispatched # NoException THEN rjDispatched ELSE caught

(* The poll fails; what is left of the batch is dropped with it. *)
PollFails(caught) ==
  /\ rjResult' = ErrorValue(caught) /\ rjDispatched' = NoException
  /\ rjPhase' = "out" /\ rjBatch' = <<>>

NextUnhandled ==
  /\ rjPhase = "unhandled" /\ rjDispatched = NoException
  /\ IF rjBatch = <<>>
     THEN rjPhase' = "check" /\ UNCHANGED rjReported
     ELSE rjPhase' = "in_handler" /\ rjReported' = rjReported \cup {Head(rjBatch)}
  /\ UNCHANGED <<rjPromise, rjPending, rjHandled, rjListener, rjBatch, rjDispatched,
                 rjResult, rjPolls>>

(* The handler returns true, or falsy: op_dispatch_exception(err, true).   *)
(* The termination takes effect before another rejection is looked at; if  *)
(* none is left the call may return without noticing it.                   *)
HandlerReturns(handled) ==
  /\ rjPhase = "in_handler" /\ rjDispatched = NoException
  /\ rjPhase' = "unhandled" /\ rjBatch' = Tail(rjBatch)
  /\ rjDispatched' = IF handled THEN NoException ELSE Head(rjBatch)
  /\ UNCHANGED <<rjPromise, rjPending, rjHandled, rjListener, rjResult, rjReported, rjPolls>>

HandlerThrows ==
  /\ rjPhase = "in_handler" /\ rjDispatched = NoException
  /\ PollFails(Thrown0)
  /\ UNCHANGED <<rjPromise, rjPending, rjHandled, rjListener, rjReported, rjPolls>>

(* JavaScript is terminated while __handleRejections runs. *)
Terminated ==
  /\ rjPhase \in {"unhandled", "in_handler"} /\ rjDispatched # NoException
  /\ PollFails(Thrown0)
  /\ UNCHANGED <<rjPromise, rjPending, rjHandled, rjListener, rjReported, rjPolls>>

(* Termination that __handleRejections did not notice. *)
TerminatedUnnoticed ==
  /\ rjPhase = "unhandled" /\ rjDispatched # NoException /\ rjBatch = <<>>
  /\ rjPhase' = "check"
  /\ UNCHANGED <<rjPromise, rjPending, rjHandled, rjListener, rjBatch, rjDispatched,
                 rjResult, rjReported, rjPolls>>

(* check_exception_condition at the end of the phases. *)
CheckException ==
  /\ rjPhase = "check"
  /\ \/ rjDispatched # NoException /\ PollFails(Thrown0)
     \/ /\ rjDispatched = NoException
        /\ rjPhase' = "out" /\ UNCHANGED <<rjResult, rjDispatched, rjBatch>>
  /\ UNCHANGED <<rjPromise, rjPending, rjHandled, rjListener, rjReported, rjPolls>>

RjNext ==
  \/ \E p \in RjPromises : Reject(p) \/ AddHandler(p)
  \/ SetListener \/ ReportException
  \/ RjPoll \/ PopHandled \/ ListenerReturns \/ TakePending \/ NextUnhandled
  \/ \E handled \in BOOLEAN : HandlerReturns(handled)
  \/ HandlerThrows \/ Terminated \/ TerminatedUnnoticed \/ CheckException

RjSpec == RjInit /\ [][RjNext]_rjVars

(***************************************************************************)
(* Properties.                                                             *)
(***************************************************************************)
(* A rejection nobody handled is never forgotten: it leaves the lists only *)
(* by being given to the handler, by getting a handler of its own, or with *)
(* a poll that fails (whose error hides the rest of its batch); and it is  *)
(* given to the handler once (track_promise_rejection, dispatch_rejections *)
(* and the swap of the list).  The lists hold promises throughout.         *)
Undelivered(p) == p \in (ToSet(rjPending) \cup ToSet(rjBatch)) \ rjReported

RejectionsAccountedFor ==
  []RjTypeOK /\
  [][/\ \A p \in RjPromises :
          Undelivered(p) /\ ~Undelivered(p)' =>
            p \in rjReported' \/ rjPromise'[p] = "caught" \/ rjResult' \in Values
     /\ NextUnhandled /\ rjBatch # <<>> => Head(rjBatch) \notin rjReported]_rjVars

(* A "rejectionhandled" event is only queued for a promise whose rejection *)
(* has been delivered: the comment in track_promise_rejection says a       *)
(* promise that is not in the list "was already 'handled as unhandled'".   *)
(* (It does not hold while the list has been taken for delivery.)          *)
HandledOnlyAfterReport == \A p \in ToSet(rjHandled) : p \in rjReported
=============================================================================

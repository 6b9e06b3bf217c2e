------------------------------ MODULE Resources ------------------------------
(***************************************************************************)
(* The resource table, and the built-in ops that read, write and close     *)
(* resources across awaits: op_read_all with its adaptive buffer,          *)
(* op_write_all, op_wasm_streaming_stream_feed, op_close.                  *)
(*                                                                         *)
(* A stream resource holds the bytes 1 .. RsBytes, in order.  Reads of it  *)
(* and closes interleave at the awaits, and each of them may fail.  The    *)
(* resources are in the table from the start: nothing is added to it.      *)
(* Sizes are counted in units: the constants stand for 1 KiB, 64 KiB and   *)
(* 16 MiB.                                                                 *)
(***************************************************************************)
EXTENDS Integers, Sequences, FiniteSets

CONSTANTS
  Readers,       \* tasks that run op_read_all
  RsBytes,       \* length of the stream
  RsHints,       \* size hints a stream may give: <<min, max>>, NoMax for None
  TinySize,      \* TINY_BUFFER_SIZE
  StandardSize,  \* STANDARD_BUFFER_SIZE
  MaxGrow,       \* MAX_GROW_LEN
  RsWriteLen     \* length of the buffer given to op_write_all

NoMax == -1        \* None
Unbounded == -1    \* usize::MAX

ASSUME ResourcesAssumption ==
  /\ {RsBytes, TinySize, StandardSize, MaxGrow, RsWriteLen} \subseteq Nat \ {0}
  /\ TinySize <= StandardSize /\ StandardSize <= MaxGrow
  /\ RsHints \subseteq Nat \X (Nat \cup {NoMax})

VARIABLES
  rsTable,    \* rids in the table
  rsRead,     \* how many bytes of the stream have been handed out
  rsReader,   \* reader -> its state
  rsGot,      \* history: reader -> the bytes the stream handed to it
  rsWriter,   \* [pc, view]: op_write_all and what its view still holds
  rsSink,     \* bytes the sink has received
  rsFeed,     \* op_wasm_streaming_stream_feed: "no", "reading", "done", "failed"
  rsWasm      \* WasmStreamingResource: "open", "finished", "panic"

rsVars == <<rsTable, rsRead, rsReader, rsGot, rsWriter, rsSink, rsFeed, rsWasm>>

Rids == {"stream", "sink", "wasm"}   \* the resources in the table

(***************************************************************************)
(* AdaptiveBufferStrategy.                                                 *)
(***************************************************************************)
next_power_of_two(n) ==
  LET Power(k) == 2 ^ k IN Power(CHOOSE k \in 0 .. n : Power(k) >= n /\ (k = 0 \/ Power(k - 1) < n))

(* The powers of two that the hints call for exist: usize::next_power_of_two *)
(* is total below 2^63.                                                    *)
ASSUME PowersAssumption ==
  \A hint \in RsHints : \A i \in 1 .. 2 : hint[i] # NoMax => next_power_of_two(hint[i]) \in Nat

Larger(a, b) == IF a >= b THEN a ELSE b
Smaller(a, b) == IF a <= b THEN a ELSE b

initial_buffer_size(hint) ==
  LET min == hint[1]  max == hint[2]
  IN Larger(TinySize,
       CASE min = 0 /\ max = NoMax -> StandardSize
         [] min = 0 /\ max = 0 -> 0
         [] min # 0 /\ min = max -> next_power_of_two(min)
         [] min # 0 /\ min # max -> Larger(StandardSize, next_power_of_two(min))
         [] OTHER -> Smaller(StandardSize, next_power_of_two(max)))

expected_remaining(hint) == IF hint[2] = NoMax THEN Unbounded ELSE hint[2]

new_from_hint(hint) ==
  [grow |-> initial_buffer_size(hint), expected |-> expected_remaining(hint)]

saturating_sub(e, n) == IF e = Unbounded THEN e ELSE IF e > n THEN e - n ELSE 0

(* notify_read: grow faster while reads fill the buffer and more is due. *)
NotifyRead(r, n) ==
  LET left == saturating_sub(r.expected, n)
  IN [[r EXCEPT !.expected = left]
         EXCEPT !.grow = IF n >= @ /\ @ < MaxGrow /\ left # 0 THEN 2 * @ ELSE @]

(***************************************************************************)
(* BufMutView: bytes and a cursor.                                         *)
(***************************************************************************)
Zeroed(n) == [i \in 1 .. n |-> 0]

ViewLen(r) == Len(r.buf) - r.cursor

maybe_grow(r) ==
  LET target == r.grow + r.cursor
  IN [r EXCEPT !.buf = @ \o Zeroed(IF target > Len(@) THEN target - Len(@) ELSE 0)]

(* read_byob copies behind the cursor, then op_read_all advances it. *)
Filled(r, bytes) ==
  [[r EXCEPT !.buf = [i \in 1 .. Len(r.buf) |-> IF i \in r.cursor + 1 .. r.cursor + Len(bytes)
                                                THEN bytes[i - r.cursor] ELSE r.buf[i]]]
      EXCEPT !.cursor = @ + Len(bytes)]

(* reset_cursor, truncate to what was read, unwrap the bytes. *)
Unwrapped(r) ==
  [[[r EXCEPT !.pc = "done"] EXCEPT !.buf = SubSeq(@, 1, r.cursor)] EXCEPT !.cursor = 0]

NoRead == [pc |-> "idle", buf |-> <<>>, cursor |-> 0, grow |-> 0, expected |-> 0]

ReaderType ==
  [pc : {"idle", "reading", "done", "failed"}, buf : Seq(0 .. RsBytes), cursor : 0 .. RsBytes,
   grow : Nat, expected : Nat \cup {Unbounded}]

RsTypeOK ==
  /\ rsTable \subseteq Rids /\ rsRead \in 0 .. RsBytes
  /\ rsReader \in [Readers -> ReaderType]
  /\ rsGot \in [Readers -> Seq(1 .. RsBytes)]
  /\ rsWriter.pc \in {"idle", "writing", "done", "failed"}
  /\ rsFeed \in {"no", "reading", "done", "failed"}
  /\ rsWasm \in {"open", "finished", "panic"}

RsInit ==
  /\ rsTable = Rids /\ rsRead = 0
  /\ rsReader = [r \in Readers |-> NoRead] /\ rsGot = [r \in Readers |-> <<>>]
  /\ rsWriter = [pc |-> "idle", view |-> [i \in 1 .. RsWriteLen |-> i]] /\ rsSink = <<>>
  /\ rsFeed = "no" /\ rsWasm = "open"

(***************************************************************************)
(* op_read_all.                                                            *)
(***************************************************************************)
StartReadAll(r, hint) ==
  /\ rsReader[r].pc = "idle" /\ rsWasm # "panic"
  /\ LET s == new_from_hint(hint)
     IN rsReader' = [rsReader EXCEPT ![r] =
          IF "stream" \notin rsTable THEN [NoRead EXCEPT !.pc = "failed"]
          ELSE maybe_grow([pc |-> "reading", buf |-> Zeroed(s.grow), cursor |-> 0,
                           grow |-> s.grow, expected |-> s.expected])]
  /\ UNCHANGED <<rsTable, rsRead, rsGot, rsWriter, rsSink, rsFeed, rsWasm>>

Handed(n) == [i \in 1 .. n |-> rsRead + i]

(* The stream answers a read with some of the bytes it has, and with none  *)
(* when it has none or the buffer is empty.  n = 0 ends the loop.          *)
Fits(room, n) == n <= room /\ n <= RsBytes - rsRead /\ (n = 0 => room = 0 \/ rsRead = RsBytes)

ReadReturns(r, n) ==
  /\ rsReader[r].pc = "reading" /\ rsWasm # "panic" /\ Fits(ViewLen(rsReader[r]), n)
  /\ LET read == Filled(rsReader[r], Handed(n))
     IN rsReader' = [rsReader EXCEPT ![r] =
          IF n = 0 THEN Unwrapped(read) ELSE maybe_grow(NotifyRead(read, n))]
  /\ rsRead' = rsRead + n /\ rsGot' = [rsGot EXCEPT ![r] = @ \o Handed(n)]
  /\ UNCHANGED <<rsTable, rsWriter, rsSink, rsFeed, rsWasm>>

(* A resource may answer any read with an error: what was read is lost. *)
ReadFails(r) ==
  /\ rsReader[r].pc = "reading" /\ rsWasm # "panic"
  /\ rsReader' = [rsReader EXCEPT ![r] = [NoRead EXCEPT !.pc = "failed"]]
  /\ UNCHANGED <<rsTable, rsRead, rsGot, rsWriter, rsSink, rsFeed, rsWasm>>

(***************************************************************************)
(* op_write_all, with the default Resource::write_all.                     *)
(***************************************************************************)
StartWriteAll ==
  /\ rsWriter.pc = "idle" /\ rsWasm # "panic"
  /\ rsWriter' = [rsWriter EXCEPT !.pc = IF "sink" \in rsTable THEN "writing" ELSE "failed"]
  /\ UNCHANGED <<rsTable, rsRead, rsReader, rsGot, rsSink, rsFeed, rsWasm>>

(* Faulty variant: the view comes back as it was. *)
NotAdvanced(view, n) == view
Advanced(view, n) == SubSeq(view, n + 1, Len(view))

(* write() takes n bytes: Partial, of none even, or Full when it took all. *)
WriteReturns(n) ==
  /\ rsWriter.pc = "writing" /\ n \in 0 .. Len(rsWriter.view) /\ rsWasm # "panic"
  /\ rsSink' = rsSink \o SubSeq(rsWriter.view, 1, n)
  /\ LET rest == Advanced(rsWriter.view, n)
     IN rsWriter' = [pc |-> IF rest = <<>> THEN "done" ELSE "writing", view |-> rest]
  /\ UNCHANGED <<rsTable, rsRead, rsReader, rsGot, rsFeed, rsWasm>>

(* write() fails, and with it op_write_all: the sink keeps what it has. *)
WriteFails ==
  /\ rsWriter.pc = "writing" /\ rsWasm # "panic"
  /\ rsWriter' = [rsWriter EXCEPT !.pc = "failed"]
  /\ UNCHANGED <<rsTable, rsRead, rsReader, rsGot, rsSink, rsFeed, rsWasm>>

(***************************************************************************)
(* op_wasm_streaming_stream_feed keeps its Rc of the wasm resource across  *)
(* the awaits, and looks the stream up again for every read.               *)
(***************************************************************************)
StartFeed ==
  /\ rsFeed = "no" /\ rsWasm # "panic"
  /\ rsFeed' = IF {"wasm", "stream"} \subseteq rsTable THEN "reading" ELSE "failed"
  /\ UNCHANGED <<rsTable, rsRead, rsReader, rsGot, rsWriter, rsSink, rsWasm>>

(* A read returns; the next one is started, or the stream is taken off the *)
(* table without a call of close().                                        *)
FeedReads(n, auto_close) ==
  /\ rsFeed = "reading" /\ rsWasm # "panic" /\ Fits(RsBytes, n)
  /\ rsRead' = rsRead + n
  /\ rsFeed' = CASE n = 0 -> "done" [] "stream" \notin rsTable -> "failed" [] OTHER -> "reading"
  /\ rsTable' = IF n = 0 /\ auto_close THEN rsTable \ {"stream"} ELSE rsTable
  /\ UNCHANGED <<rsReader, rsGot, rsWriter, rsSink, rsWasm>>

(* A read fails: the stream stays in the table, auto_close or not. *)
FeedFails ==
  /\ rsFeed = "reading" /\ rsWasm # "panic"
  /\ rsFeed' = "failed"
  /\ UNCHANGED <<rsTable, rsRead, rsReader, rsGot, rsWriter, rsSink, rsWasm>>

(***************************************************************************)
(* op_close and op_try_close: take_any, then close().                      *)
(***************************************************************************)
SoleOwnerOfWasm == rsFeed # "reading"

Close(rid) ==
  /\ rid \in rsTable /\ rsWasm # "panic"
  /\ rsTable' = rsTable \ {rid}
  /\ rsWasm' = CASE rid # "wasm" -> rsWasm
                 [] SoleOwnerOfWasm -> "finished"
                 [] OTHER -> "panic"
  /\ UNCHANGED <<rsRead, rsReader, rsGot, rsWriter, rsSink, rsFeed>>

RsNext ==
  \/ \E r \in Readers :
       \/ \E hint \in RsHints : StartReadAll(r, hint)
       \/ \E n \in 0 .. RsBytes : ReadReturns(r, n)
       \/ ReadFails(r)
  \/ StartWriteAll \/ WriteFails \/ \E n \in 0 .. RsWriteLen : WriteReturns(n)
  \/ StartFeed \/ FeedFails
  \/ \E n \in 0 .. RsBytes, auto_close \in BOOLEAN : FeedReads(n, auto_close)
  \/ \E rid \in Rids : Close(rid)

RsSpec == RsInit /\ [][RsNext]_rsVars

(***************************************************************************)
(* Properties.                                                             *)
(***************************************************************************)
(* op_read_all returns exactly the bytes the resource handed to it, and    *)
(* does not take a full buffer for the end of the stream: it only finishes *)
(* when every byte has been read, whatever the size hint said and however  *)
(* the reads were cut (maybe_grow, advance_cursor, notify_read, truncate). *)
ReadAllComplete ==
  \A r \in Readers : rsReader[r].pc = "done" =>
    rsReader[r].buf = rsGot[r] /\ rsRead = RsBytes

(* op_write_all gives the sink every byte once and in order (write_all,    *)
(* advance_cursor).                                                        *)
WriteAllOnce ==
  /\ rsSink \o rsWriter.view = [i \in 1 .. RsWriteLen |-> i]
  /\ rsWriter.pc = "done" => Len(rsSink) = RsWriteLen

(* However a transfer is cut into reads and writes, no byte is lost,       *)
(* repeated or invented.                                                   *)
TransfersComplete == RsTypeOK /\ ReadAllComplete /\ WriteAllOnce

(* WasmStreamingResource::close never panics: its comment says "we can be  *)
(* sure `self` is the only reference". (It does not hold while another op  *)
(* holds the resource.)                                                    *)
WasmCloseOwnsResource == rsWasm # "panic"
=============================================================================

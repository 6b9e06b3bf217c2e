-------------------------------- MODULE Op2 --------------------------------
(* The #[op2] procedural macro (ops/op2/) and the conversions the code it  *)
(* generates calls at run time (core/runtime/ops.rs, ops_rust_to_v8.rs).   *)
(* An op is one Rust function with one parameter.  Expanding it parses its *)
(* flags, its attributes and its types, and yields a slow entry and, for   *)
(* some signatures, a fast one; V8 calls whichever it likes.  Integers are *)
(* scaled: 8 bits are W8 wide, 32 are W32, 64 are W64; a Number is counted *)
(* in halves, so that fractions exist.                                     *)
EXTENDS Integers, Sequences, SequencesExt, FiniteSets

CONSTANTS Op2Ops,      \* the ops written by the embedder
          Op2Numbers,  \* the Numbers passed, in halves
          Op2BigInts,  \* the BigInts passed
          Op2Strings,  \* the strings passed, as sequences of code units
          StackBuffer, \* STRING_STACK_BUFFER_SIZE
          Op2MaxCalls

(* Numbers are numbers, strings are strings, and a type is written as the  *)
(* parser of the macro takes it.                                           *)
ASSUME Op2Assumption ==
    /\ Op2Numbers \subseteq Int /\ Op2BigInts \subseteq Int /\ StackBuffer \in Nat
    /\ \A s \in Op2Strings : s \in Seq(Nat)
    /\ \A o \in Op2Ops : o.ty.opt \in BOOLEAN

W8 == 2
W32 == 3
W64 == 5

VARIABLES op2,      \* the op: its source, and what the macro made of it
          op2call,  \* the last call: entry, JavaScript argument, outcome
          op2stats  \* its OpMetricsSummary and the calls really pending
op2Vars == <<op2, op2call, op2stats>>

Err == [k |-> "error"]
Panic == [k |-> "panic"]
Failed(r) == r.k \in {"error", "panic"}
Attr(a) == [a |-> a, mode |-> "", src |-> ""]
BufAttr(m, s) == [a |-> "buffer", mode |-> m, src |-> s]
NoAttr == Attr("none")
Sources == {"TypedArray", "ArrayBuffer", "Any"}
-----------------------------------------------------------------------------
(* Flags of the attribute itself.                                          *)

FlagOrder == <<"async(deferred)", "async(fake)", "async(lazy)", "constructor", "fast",
               "fast(other)", "getter", "nofast", "no_side_effects", "reentrant",
               "required", "setter", "static_method", "stack_trace", "promise_id",
               "validate">>

(* Flags have to come in the order of the enum, and three pairs exclude    *)
(* each other.                                                             *)
from_metas(flags) ==
    LET sorted == \A i, j \in DOMAIN flags : i < j =>
            \E p, q \in DOMAIN FlagOrder : p <= q /\ FlagOrder[p] = flags[i]
                                                  /\ FlagOrder[q] = flags[j]
        excluded == \E pair \in {{"fast", "nofast"}, {"fast", "fast(other)"},
                                 {"no_side_effects", "reentrant"}} : pair \subseteq ToSet(flags)
    IN IF ~sorted \/ excluded THEN Err ELSE [k |-> "config", f |-> ToSet(flags)]
-----------------------------------------------------------------------------
(* Attributes and types of a parameter or of the return value.  A Rust type*)
(* is [opt, form, mut, of]: whether it is inside Option, how it is written *)
(* and what it is made of.                                                 *)

Wide == {"u64", "i64"}
Numerics == Wide \cup {"bool", "u8", "u32", "i32", "f64"}
StringTypes == {"String", "str", "CowStr", "CowByte"}
BufferTypes == {"Vec", "Box", "V8Slice", "JsBuffer", "Bytes", "BytesMut"}
Specials == {"OpState", "JsRuntimeState", "Isolate", "HandleScope"}
V8Types == {"v8Value", "v8String"}
V8Locals == {"LocalValue", "LocalString"}

ArgOf(k, n) == [k |-> k, n |-> n, opt |-> FALSE, num |-> FALSE, mut |-> FALSE,
                mode |-> "", src |-> ""]

(* The keywords that are not modifiers are dropped, an unknown word is an  *)
(* error.                                                                  *)
parse_attribute(a) ==
    CASE a.a \in {"required", "rename", "method", "getter", "setter", "fast", "constructor",
                  "meta", "allow", "doc", "cfg"} -> "skip"
      [] a.a = "unknown" -> "error"
      [] OTHER -> "modifier"

(* The last modifier is the primary one, unless `validate` stands alone.   *)
parse_attributes(attrs) ==
    LET ms == SelectSeq(attrs, LAMBDA a : parse_attribute(a) = "modifier")
    IN IF \E i \in DOMAIN attrs : parse_attribute(attrs[i]) = "error" THEN Err
       ELSE IF ms = <<>> THEN [k |-> "attrs", primary |-> NoAttr, validated |-> FALSE]
       ELSE IF ms = <<Attr("validate")>>
            THEN [k |-> "attrs", primary |-> NoAttr, validated |-> TRUE]
       ELSE [k |-> "attrs", primary |-> Last(ms),
             validated |-> Attr("validate") \in ToSet(Front(ms))]

(* The buffer modes a type accepts, as an argument and as a return value.  *)
valid_modes(of, pos) ==
    LET modes == IF pos = "ret" THEN {"Default"}
                 ELSE IF of \in {"Bytes", "BytesMut", "Vec", "Box"} THEN {"Copy"}
                 ELSE IF of \in {"JsBuffer", "V8Slice"} THEN {"Copy", "Detach", "Default"}
                 ELSE {"Default"}
    IN {BufAttr(m, s) : m \in modes, s \in Sources}

(* The primary attributes a parsed type needs; none at all when empty.     *)
required_attributes(c, of, pos) ==
    CASE c = "buffer" -> valid_modes(of, pos)
      [] c = "numeric" /\ of \in Wide -> {Attr("bigint"), Attr("number")}
      [] c = "string" -> {IF of = "CowByte" THEN Attr("onebyte") ELSE Attr("string")}
      [] c = "scoped" -> {Attr("scoped")}
      [] OTHER -> {}

validate_attributes(c, of, pos, primary) ==
    LET allowed == required_attributes(c, of, pos)
    IN IF allowed = {} THEN primary = NoAttr ELSE primary \in allowed

(* What a path stands for: its container, before the reference check.      *)
path_container(of, primary) ==
    CASE of \in Numerics -> "numeric"
      [] of \in StringTypes -> "string"
      [] of = "Vec" -> IF primary.a = "buffer" THEN "buffer"
                       ELSE IF primary = Attr("scoped") THEN "scoped"
                       ELSE IF primary = NoAttr THEN "unknown" ELSE "error"
      [] of \in BufferTypes \ {"Vec"} -> "buffer"
      [] of \in Specials -> "special"
      [] of \in V8Types -> "v8"
      [] of \in V8Locals -> "local"
      [] of = "RcRefCellOpState" -> "rcrefcell"
      [] of = "deno_core::path" -> "error"
      [] of = "c_void" -> "void"
      [] OTHER -> IF primary = Attr("scoped") THEN "scoped" ELSE "unknown"

(* A container together with the place it is written in: as is, behind a   *)
(* reference, behind a pointer.                                            *)
parse_type_path(pos, primary, ctx, of) ==
    LET c == path_container(of, primary)
        refOk == IF of \in {"OpState", "JsRuntimeState"} THEN TRUE
                 ELSE (c = "v8" \/ of \in {"Isolate", "HandleScope", "str"}) <=> ctx = "ref"
        attrOk == ctx = "ptr" \/ validate_attributes(c, of, pos, primary)
    IN IF c = "error" \/ ~refOk \/ ~attrOk THEN Err ELSE [k |-> c]

(* #[cppgc] and #[proto]: a shared reference as an argument, an owned value*)
(* as a return value, either of them optional.                             *)
parse_cppgc(pos, ty, proto) ==
    IF (pos = "arg" /\ (ty.form # "ref" \/ ty.mut)) \/ (pos = "ret" /\ ty.form # "path") THEN Err
    ELSE [ArgOf("cppgc", ty.of) EXCEPT !.opt = ty.opt, !.num = proto /\ ~ty.opt]

(* #[serde] is refused where a plainer way to pass the type exists.        *)
better_alternative_exists(pos, of) ==
    \/ LET r == parse_type_path(pos, NoAttr, "none", of)
       IN ~Failed(r) /\ r.k \notin {"unknown", "scoped"}
    \/ ~Failed(parse_type_path(pos, Attr("string"), "none", of))

(* Builds the argument of a container that was accepted.                   *)
from_parsed(c, ty, pos, primary) ==
    LET arg(k) == [ArgOf(k, ty.of) EXCEPT !.mut = ty.mut]
    IN CASE c = "buffer" -> IF primary.a = "buffer"
                            THEN [arg("buffer") EXCEPT !.mode = primary.mode, !.src = primary.src]
                            ELSE Err
         [] c \in {"unknown", "scoped"} ->
              ArgOf(IF pos = "arg" THEN "fromv8" ELSE "tov8", ty.of)
         [] OTHER -> arg(c)

(* The attributes that decide by themselves come first, the type after.    *)
parse_plain(pos, primary, ty) ==
    LET parsed(ctx) == parse_type_path(pos, primary, ctx, ty.of)
    IN CASE ty.form = "unit" -> ArgOf("void", "")
         [] ty.form = "tuple" -> ArgOf(IF pos = "arg" THEN "fromv8" ELSE "tov8", "tuple")
         [] ty.form = "slice" ->
              IF ty.of = "c_void" THEN ArgOf("external", "c_void")
              ELSE IF ty.of \notin Numerics THEN Err
              ELSE IF ~validate_attributes("buffer", "slice", pos, primary) THEN Err
              ELSE from_parsed("buffer", [ty EXCEPT !.of = "slice"], pos, primary)
         [] ty.form = "ref" ->
              IF Failed(parsed("ref")) \/ parsed("ref").k \notin {"string", "v8", "special"} THEN Err
              ELSE from_parsed(IF parsed("ref").k = "special" THEN "refspecial" ELSE parsed("ref").k,
                               ty, pos, primary)
         [] ty.form = "ptr" ->
              IF Failed(parsed("ptr")) THEN Err
              ELSE IF parsed("ptr").k = "void" THEN ArgOf("external", "c_void")
              ELSE IF parsed("ptr").k # "numeric" THEN Err
              ELSE IF ~validate_attributes("buffer", "ptr", pos, primary) THEN Err
              ELSE from_parsed("buffer", [ty EXCEPT !.of = "ptr"], pos, primary)
         [] ty.form = "path" ->
              IF Failed(parsed("none")) THEN Err
              ELSE from_parsed(parsed("none").k, ty, pos, primary)
         [] OTHER -> Err

(* In Option<..> some types have a form of their own; the macro knows      *)
(* nothing of an Option of any other.  `inner` is the type without Option. *)
parse_option(pos, primary, ty, inner) ==
    IF Failed(inner) \/ ~ty.opt THEN inner
    ELSE IF inner.k \in {"special", "string", "numeric", "buffer", "v8", "local"}
         THEN [inner EXCEPT !.opt = TRUE]
    ELSE IF primary \in {NoAttr, Attr("scoped")}
         THEN ArgOf(IF pos = "arg" THEN "fromv8" ELSE "tov8", ty.of) ELSE Err

parse_type(pos, primary, ty) ==
    CASE primary.a = "validate" -> Panic
      [] primary.a = "undefined" -> IF pos = "arg" THEN Err ELSE ArgOf("undefined", "")
      [] primary.a \in {"varargs", "this"} -> IF pos = "ret" THEN Err ELSE ArgOf(primary.a, "")
      [] primary.a \in {"cppgc", "proto"} -> parse_cppgc(pos, ty, primary.a = "proto")
      [] primary.a \in {"serde", "webidl"} ->
           IF ty.form = "tuple" THEN ArgOf(primary.a, "tuple")
           ELSE IF ty.form # "path" \/ ty.of = "Value" THEN Err
           ELSE IF primary.a = "serde" /\ better_alternative_exists(pos, ty.of) THEN Err
           ELSE ArgOf(primary.a, ty.of)
      [] primary.a = "number" ->
           IF ty.form = "path" /\ ty.of \in Wide
           THEN [ArgOf("numeric", ty.of) EXCEPT !.opt = ty.opt, !.num = TRUE] ELSE Err
      [] primary.a = "smi" ->
           IF ty.form = "path" \/ ty.opt THEN [ArgOf("numeric", "smi") EXCEPT !.opt = ty.opt] ELSE Err
      [] OTHER -> parse_option(pos, primary, ty, parse_plain(pos, primary, ty))

(* Result<..> and futures are peeled off the return type first.            *)
try_parse(ret) ==
    LET as == parse_attributes(ret.attrs)
    IN IF Failed(as) THEN Err
       ELSE LET r == parse_type("ret", as.primary, ret.ty)
            IN IF Failed(r) THEN r ELSE [k |-> "ret", arg |-> r, fallible |-> ret.fallible,
                                         async |-> ret.async]
-----------------------------------------------------------------------------
(* The two entries.                                                        *)

(* Arguments that come from the call itself rather than from JavaScript.   *)
is_virtual(arg) == arg.k \in {"special", "refspecial", "rcrefcell", "this", "varargs"}

(* How a return value travels on the slow path; "none" cannot.             *)
slow_retval(arg) ==
    CASE arg.k = "numeric" -> IF arg.n \in Wide /\ ~arg.num THEN "V8Local" ELSE "RetVal"
      [] arg.k = "void" -> "RetVal"
      [] arg.k \in {"external", "cppgc"} -> "V8Local"
      [] arg.k \in {"undefined", "local"} -> IF arg.opt THEN "RetVal" ELSE "V8LocalNoScope"
      [] arg.k = "string" -> "RetValFallible"
      [] arg.k \in {"serde", "tov8"} -> "V8LocalFallible"
      [] arg.k = "buffer" /\ arg.src = "ArrayBuffer" -> "V8Local"
      [] arg.k = "buffer" /\ arg.src = "TypedArray" -> "V8LocalFallible"
      [] OTHER -> "none"

(* The owned buffers a slice from V8 can be turned into.                   *)
v8slice_to_buffer(arg) == arg.n # "BytesMut"

byte_slice_to_buffer(arg) == arg.n \notin {"BytesMut", "V8Slice", "JsBuffer"}

(* Whether the slow entry has code for an argument.  (What it has for an   *)
(* #[anybuffer(detach)] calls a function that does not exist.)             *)
from_arg(arg) ==
    CASE arg.k = "buffer" -> v8slice_to_buffer(arg) /\ ~(arg.src = "Any" /\ arg.mode = "Detach")
      [] arg.k = "string" -> ~arg.opt \/ arg.n = "String"
      [] arg.k = "refspecial" -> ~(arg.n = "JsRuntimeState" /\ arg.mut)
      [] arg.k \in {"special", "void"} -> FALSE
      [] arg.k = "v8" -> ~arg.mut
      [] OTHER -> TRUE

(* The C type of a fast argument: "slow" makes the whole op slow, "error"  *)
(* rejects it.                                                             *)
map_arg_to_v8_fastcall_type(arg) ==
    CASE arg.k = "buffer" ->
           IF arg.opt \/ arg.mode = "Detach" \/ arg.src = "Any"
              \/ (arg.src = "TypedArray" /\ arg.n \in {"JsBuffer", "V8Slice"}) THEN "slow"
           ELSE "V8Value"
      [] arg.k = "rcrefcell" -> "Virtual"
      [] arg.k = "refspecial" ->
           IF arg.n \in {"OpState", "Isolate"} \/ (arg.n = "HandleScope" /\ arg.mut)
              \/ (arg.n = "JsRuntimeState" /\ ~arg.mut) THEN "Virtual" ELSE "slow"
      [] arg.k \in {"varargs", "this"} -> "Virtual"
      [] arg.k \in {"serde", "fromv8", "webidl"} -> "slow"
      [] arg.k = "local" \/ (arg.k = "v8" /\ ~arg.mut) -> "V8Value"
      [] arg.k = "cppgc" -> "V8Value"
      [] arg.k = "string" -> IF arg.opt THEN "slow" ELSE "SeqOneByteString"
      [] arg.k = "external" -> "Pointer"
      [] arg.k = "numeric" ->
           IF arg.opt THEN "slow" ELSE IF arg.num \/ arg.n = "f64" THEN "F64" ELSE IF arg.n = "bool" THEN "Bool"
           ELSE IF arg.n \in {"u8", "u32"} THEN "U32" ELSE IF arg.n \in {"i32", "smi"} THEN "I32"
           ELSE IF arg.n = "u64" THEN "U64" ELSE "I64"
      [] OTHER -> "error"

map_retval_to_v8_fastcall_type(arg) ==
    CASE arg.k \in {"void", "undefined"} -> "Void"
      [] arg.k = "numeric" -> map_arg_to_v8_fastcall_type(arg)
      [] arg.k = "external" -> "Pointer"
      [] arg.k \in {"serde", "tov8", "webidl", "special", "string", "v8", "local",
                    "cppgc", "buffer"} -> "slow"
      [] OTHER -> "error"

(* Async ops have no fast entry unless they are lazy or deferred.          *)
generate_dispatch_fast(cfg, arg, ret) ==
    LET atype == map_arg_to_v8_fastcall_type(arg)
        rtype == IF ret.async THEN "Void" ELSE map_retval_to_v8_fastcall_type(ret.arg)
    IN IF "fast(other)" \in cfg.f THEN "fast"
       ELSE IF (ret.async /\ cfg.f \cap {"async(lazy)", "async(deferred)"} = {})
               \/ "async(fake)" \in cfg.f THEN "none"
       ELSE IF atype = "slow" THEN "none"
       ELSE IF atype = "error" THEN "error"
       ELSE IF rtype = "slow" THEN "none"
       ELSE IF rtype = "error" THEN "error"
       ELSE IF arg.k = "buffer" /\ arg.src = "TypedArray" /\ ~byte_slice_to_buffer(arg) THEN "error"
       ELSE "fast"

(* An op that can be fast must say whether it is, and one that cannot must *)
(* not.                                                                    *)
ShouldBeFast(cfg, fast) ==
    /\ fast = "fast"
    /\ cfg.f \cap {"fast", "nofast", "fast(other)", "getter", "setter", "async(fake)"} = {}
ShouldNotBeFast(cfg, fast) == fast = "none" /\ cfg.f \cap {"fast", "nofast"} # {}

(* What the macro makes of an op: rejected, or a slow entry with or without*)
(* a fast one; the fast entry of fast(other) is that of another op.        *)
generate_op2(o) ==
    LET cfg == from_metas(o.flags)
        as == parse_attributes(o.attrs)
        arg == IF Failed(as) THEN as ELSE parse_type("arg", as.primary, o.ty)
        ret == try_parse(o.ret)
        first == SelectInSeq(<<cfg, as, arg, ret>>, Failed)
    IN IF first # 0 THEN <<cfg, as, arg, ret>>[first]
       ELSE IF ~from_arg(arg) \/ (slow_retval(ret.arg) = "none" /\ "setter" \notin cfg.f) THEN Err
       ELSE LET fast == generate_dispatch_fast(cfg, arg, ret)
            IN IF fast = "error" \/ ShouldBeFast(cfg, fast) \/ ShouldNotBeFast(cfg, fast) THEN Err
               ELSE [k |-> "op", cfg |-> cfg, arg |-> arg, ret |-> ret,
                     validated |-> as.validated,
                     fast |-> fast = "fast" /\ cfg.f \cap {"nofast", "getter", "setter", "fast(other)"} = {},
                     async |-> ret.async \/ "async(fake)" \in cfg.f]
-----------------------------------------------------------------------------
(* Run-time conversions.  A JavaScript value is [t, n, s]: its type, its   *)
(* number, its code units.  An outcome is [o, n, s].                       *)

Throw == [o |-> "throw", n |-> 0, s |-> <<>>]
Num(n) == [o |-> "ok", n |-> n, s |-> <<>>]
Str(s) == [o |-> "ok", n |-> 0, s |-> s]
None == [o |-> "none", n |-> 0, s |-> <<>>]

UWrap(w, x) == x % 2^w
SWrap(w, x) == ((x + 2^(w - 1)) % 2^w) - 2^(w - 1)
Trunc(h) == IF h >= 0 THEN h \div 2 ELSE -((-h) \div 2)
Clamp(lo, hi, x) == IF x < lo THEN lo ELSE IF x > hi THEN hi ELSE x
USat(h) == Clamp(0, 2^W64 - 1, Trunc(h))
SSat(h) == Clamp(-(2^(W64 - 1)), 2^(W64 - 1) - 1, Trunc(h))
IsUint32(v) == v.t = "num" /\ v.n % 2 = 0 /\ v.n \div 2 \in 0..(2^W32 - 1)
IsInt32(v) == v.t = "num" /\ v.n % 2 = 0 /\ v.n \div 2 \in -(2^(W32 - 1))..(2^(W32 - 1) - 1)

(* `as _` to the type of the parameter.                                    *)
Cast(n, x) == CASE n = "u8" -> UWrap(W8, x)
                [] n \in {"u32"} -> UWrap(W32, x)
                [] n \in {"i32", "smi"} -> SWrap(W32, x)
                [] n = "u64" -> UWrap(W64, x)
                [] n = "i64" -> SWrap(W64, x)
                [] OTHER -> x

to_u32_option(v) ==
    CASE v.t = "num" -> Num(IF IsUint32(v) \/ IsInt32(v) THEN UWrap(W32, v.n \div 2) ELSE UWrap(W32, USat(v.n)))
      [] v.t = "big" -> Num(UWrap(W32, v.n))
      [] OTHER -> Throw

to_i32_option(v) ==
    CASE v.t = "num" -> Num(IF IsUint32(v) \/ IsInt32(v) THEN SWrap(W32, v.n \div 2) ELSE SWrap(W32, SSat(v.n)))
      [] v.t = "big" -> Num(SWrap(W32, v.n))
      [] OTHER -> Throw

to_u64_option(v) ==
    CASE v.t = "num" -> Num(IF IsUint32(v) \/ IsInt32(v) THEN UWrap(W64, v.n \div 2) ELSE USat(v.n))
      [] v.t = "big" -> Num(UWrap(W64, v.n))
      [] OTHER -> Throw

to_i64_option(v) ==
    CASE v.t = "num" -> Num(IF IsUint32(v) \/ IsInt32(v) THEN v.n \div 2 ELSE SSat(v.n))
      [] v.t = "big" -> Num(SWrap(W64, UWrap(W64, v.n)))
      [] OTHER -> Throw

(* Halves again: a BigInt is read as i64 first.                            *)
to_f64_option(v) ==
    CASE v.t = "num" -> Num(v.n)
      [] v.t = "big" -> Num(2 * SWrap(W64, v.n))
      [] OTHER -> Throw

SlowNumeric(arg, v) ==
    LET raw == CASE arg.n = "bool" -> Num(IF v.t = "true" THEN 1 ELSE 0)
                 [] arg.n \in {"u8", "u32"} -> to_u32_option(v)
                 [] arg.n \in {"i32", "smi"} -> to_i32_option(v)
                 [] arg.n = "f64" -> to_f64_option(v)
                 [] OTHER -> IF arg.num THEN to_f64_option(v)
                             ELSE IF arg.n = "u64" THEN to_u64_option(v) ELSE to_i64_option(v)
    IN IF raw.o # "ok" THEN raw
       ELSE IF arg.num THEN Num(IF arg.n = "u64" THEN USat(raw.n) ELSE SSat(raw.n))
       ELSE Num(Cast(arg.n, raw.n))

(* A code unit below Ascii is one byte of UTF-8, the other Latin-1 ones two*)
(* and the rest three.                                                     *)
Ascii == 8
Latin1 == 16
Bytes2(c) == <<192 + (c \div 4), 128 + (c % 4)>>
OneByte(s) == \A i \in DOMAIN s : s[i] < Latin1

latin1_to_utf8(s) ==
    FlattenSeq([i \in DOMAIN s |-> IF s[i] < Ascii THEN <<s[i]>> ELSE Bytes2(s[i])])

to_rust_string_lossy(s) ==
    FlattenSeq([i \in DOMAIN s |->
        IF s[i] < Ascii THEN <<s[i]>> ELSE IF s[i] < Latin1 THEN Bytes2(s[i])
        ELSE <<224 + (s[i] \div 16)>> \o Bytes2(s[i] % 16)])

(* A string that is short enough goes through the buffer on the stack; the *)
(* outcome "overflow" is a write past its end.                             *)
FitsBufferShort(s) == Len(s) <= StackBuffer

FitsBuffer(s) == Len(s) < StackBuffer \div 2

to_str_ptr(s) ==
    IF \A i \in DOMAIN s : s[i] < Ascii THEN Str(s)
    ELSE IF FitsBuffer(s) /\ Len(latin1_to_utf8(s)) > StackBuffer
         THEN [o |-> "overflow", n |-> 0, s |-> <<>>]
    ELSE Str(latin1_to_utf8(s))

to_string_ptr(s) == Str(latin1_to_utf8(s))

(* A value that is no string becomes "" for an owned string, its toString()*)
(* for a borrowed one, and an exception for bytes.                         *)
SlowString(arg, v) ==
    CASE arg.n = "CowByte" -> IF v.t = "str" /\ OneByte(v.s) THEN Str(v.s) ELSE Throw
      [] arg.n = "String" -> Str(IF v.t = "str" THEN to_rust_string_lossy(v.s) ELSE <<>>)
      [] OTHER -> Str(IF v.t = "str" THEN to_rust_string_lossy(v.s) ELSE <<0, 0>>)

FastString(arg, v) ==
    CASE arg.n = "CowByte" -> Str(v.s)
      [] arg.n = "String" -> to_string_ptr(v.s)
      [] OTHER -> to_str_ptr(v.s)

(* A buffer JavaScript may not give away, such as a WebAssembly memory, is *)
(* refused where the op detaches what it is passed.                        *)
Pinned(v) == v.n = 1
to_v8_slice_detachable(arg, v) == arg.mode = "Detach" => ~Pinned(v)

(* Typed arrays: exactly the declared one on the slow path ...             *)
Views == {"u8array", "u32array", "dataview"}
to_v8_slice(v) == IF v.t = "u8array" THEN Str(v.s) ELSE Throw

to_v8_slice_buffer(v) == IF v.t = "arraybuffer" THEN Str(v.s) ELSE Throw

to_v8_slice_any(v) == IF v.t \in Views \cup {"arraybuffer"} THEN Str(v.s) ELSE Throw

SlowBuffer(arg, v) ==
    IF ~to_v8_slice_detachable(arg, v) THEN Throw
    ELSE CASE arg.src = "TypedArray" -> to_v8_slice(v)
           [] arg.src = "ArrayBuffer" -> to_v8_slice_buffer(v)
           [] OTHER -> to_v8_slice_any(v)

(* ... and any view on the fast one.                                       *)
fast_api_typed_array_to_buffer(v) == IF v.t \in Views THEN Str(v.s) ELSE Throw

FastBuffer(arg, v) ==
    IF arg.src = "ArrayBuffer" THEN to_v8_slice_buffer(v) ELSE fast_api_typed_array_to_buffer(v)

(* v8_try_convert and the option form of it.                               *)
v8_try_convert(arg, v) ==
    IF arg.n \in {"v8Value", "LocalValue"} \/ v.t = "str" THEN [Str(v.s) EXCEPT !.n = v.n] ELSE Throw

to_external_option(v) == IF v.t = "external" THEN Num(1) ELSE IF v.t = "null" THEN Num(0) ELSE Throw

(* A wrapped Rust object; #[proto] reads it from `this`.                   *)
try_unwrap_cppgc(arg, v) == IF v.t = "wrapped" \/ arg.num THEN Num(1) ELSE Throw

(* #[serde], #[webidl] and FromV8 run the conversion of the user's type,   *)
(* which takes an object here.                                             *)
ConvertByTrait(v) == IF v.t = "object" THEN Num(0) ELSE Throw

(* required(1): an argument that is absent, which otherwise is undefined.  *)
with_required_check(op, v) == "required" \in op.cfg.f => v.t # "absent"

(* #[validate] on the op, here a check that it is passed an argument: it is*)
(* left out of the code for an async op.                                   *)
with_validate(op, v) == "validate" \in op.cfg.f /\ ~op.async => v.t # "absent"

(* #[validate] on the argument, here a check that it is an int32; without  *)
(* an argument it is undefined that is checked.                            *)
extract_arg(op, v) == op.validated /\ ~is_virtual(op.arg) => IsInt32(v)

SlowConvert(op, v) ==
    LET arg == op.arg
    IN IF is_virtual(arg) THEN Num(0)
       ELSE IF arg.opt /\ v.t \in {"null", "undefined", "absent"} THEN None
       ELSE
       CASE arg.k = "numeric" -> SlowNumeric(arg, v)
         [] arg.k = "string" -> SlowString(arg, v)
         [] arg.k = "buffer" -> SlowBuffer(arg, v)
         [] arg.k = "external" -> to_external_option(v)
         [] arg.k \in {"v8", "local"} -> v8_try_convert(arg, v)
         [] arg.k = "cppgc" -> try_unwrap_cppgc(arg, v)
         [] OTHER -> ConvertByTrait(v)

(* What V8 does with an argument before it enters the fast function, and   *)
(* whether it enters it at all.                                            *)
FastTakes(ctype, v) ==
    CASE ctype \in {"U32", "I32", "F64"} -> v.t = "num"
      [] ctype \in {"U64", "I64"} -> v.t = "big"
      [] ctype = "Bool" -> v.t \in {"true", "false"}
      [] ctype = "SeqOneByteString" -> v.t = "str" /\ OneByte(v.s)
      [] ctype = "Pointer" -> v.t \in {"external", "null"}
      [] OTHER -> v.t # "absent"

FastRaw(ctype, v) ==
    CASE ctype = "U32" -> UWrap(W32, Trunc(v.n))
      [] ctype = "I32" -> SWrap(W32, Trunc(v.n))
      [] ctype = "U64" -> UWrap(W64, v.n)
      [] ctype = "I64" -> SWrap(W64, v.n)
      [] ctype = "Bool" -> IF v.t = "true" THEN 1 ELSE 0
      [] OTHER -> v.n

map_v8_fastcall_arg_to_arg(op, v) ==
    LET arg == op.arg
        raw == FastRaw(map_arg_to_v8_fastcall_type(arg), v)
    IN CASE is_virtual(arg) -> Num(0)
         [] arg.k = "numeric" ->
              Num(IF arg.num THEN (IF arg.n = "u64" THEN USat(raw) ELSE SSat(raw))
                  ELSE Cast(arg.n, raw))
         [] arg.k = "string" -> FastString(arg, v)
         [] arg.k = "buffer" -> FastBuffer(arg, v)
         [] arg.k = "external" -> Num(IF v.t = "external" THEN 1 ELSE 0)
         [] arg.k \in {"v8", "local"} ->
              IF arg.opt /\ v.t \in {"null", "undefined", "absent"} THEN None ELSE v8_try_convert(arg, v)
         [] OTHER -> IF arg.opt /\ v.t \in {"null", "undefined", "absent"} THEN None
                     ELSE IF v.t = "wrapped" THEN Num(1) ELSE Throw
-----------------------------------------------------------------------------
(* Calls and their metrics.                                                *)

JsValues == [t : {"num"}, n : Op2Numbers, s : {<<>>}]
            \cup [t : {"big"}, n : Op2BigInts, s : {<<>>}]
            \cup [t : {"str"}, n : {0}, s : Op2Strings]
            \cup [t : Views \cup {"arraybuffer"}, n : {0, 1}, s : {<<>>, <<1, 2>>}]
            \cup [t : {"absent", "undefined", "null", "true", "false", "external", "wrapped", "object"},
                  n : {0}, s : {<<>>}]

Summary0 == [dispatched |-> 0, completed |-> 0, pending |-> 0, calls |-> 0]
NoCall == [entry |-> "none", v |-> [t |-> "undefined", n |-> 0, s |-> <<>>], out |-> None,
           detached |-> FALSE]

(* Fault: a dispatch that ends in an error is never counted as completed.  *)
DropsErrors(m, isAsync, event) ==
    IF ~isAsync \/ event = "Error" THEN m
    ELSE IF event = "Dispatched" THEN [m EXCEPT !.dispatched = @ + 1]
    ELSE [m EXCEPT !.completed = @ + 1]

(* The tracker counts events of async ops whatever their source.           *)
op_metrics_fn(m, isAsync, event) ==
    IF ~isAsync THEN m
    ELSE IF event = "Dispatched" THEN [m EXCEPT !.dispatched = @ + 1]
    ELSE [m EXCEPT !.completed = @ + 1]

has_outstanding_ops(m) == m.dispatched > m.completed

Op2Init == /\ op2 \in [src : Op2Ops, k : {"source"}]
           /\ op2call = NoCall /\ op2stats = Summary0

Expand == /\ op2.k = "source"
          /\ op2' = generate_op2(op2.src)
          /\ UNCHANGED <<op2call, op2stats>>

Ready == op2.k = "op" /\ op2stats.calls < Op2MaxCalls

(* What a synchronous op hands back: an exception when an argument was    *)
(* refused or the function returned an error.                              *)
return_value(op, conv, fails) ==
    IF conv.o = "throw" \/ (fails /\ ~op.async) THEN Throw ELSE conv

(* An async op whose future was not ready at once, or is not polled at once*)
(* because it is lazy or deferred, stays pending.                          *)
generate_dispatch_async(op, out, eager) == op.async /\ out.o # "throw" /\ ~eager

(* The metrics wrapper of the slow entry: the end is reported unless the   *)
(* call is pending.                                                        *)
slow_function_metrics(m, op, out, waits) ==
    LET m1 == op_metrics_fn(m, op.async, "Dispatched")
    IN IF waits THEN [m1 EXCEPT !.pending = @ + 1]
       ELSE op_metrics_fn(m1, op.async, IF out.o = "throw" THEN "Error" ELSE "Completed")

(* The one of the fast entry reports Completed whatever the call did.      *)
fast_function_metrics(m, op, waits) ==
    LET m2 == op_metrics_fn(op_metrics_fn(m, op.async, "Dispatched"), op.async, "Completed")
    IN [m2 EXCEPT !.pending = @ + (IF waits THEN 1 ELSE 0)]

(* A buffer that is converted for an op that detaches is empty afterwards, *)
(* whatever becomes of the call.                                           *)
Detaches(op, conv) == op.arg.k = "buffer" /\ op.arg.mode = "Detach" /\ conv.o = "ok"

(* The slow entry: validate, convert, call, report.                        *)
CallSlow(v, fails, eager) ==
    /\ Ready
    /\ fails => op2.ret.fallible
    /\ eager => op2.cfg.f \cap {"async(lazy)", "async(deferred)"} = {}
    /\ LET checked == with_validate(op2, v) /\ with_required_check(op2, v) /\ extract_arg(op2, v)
           conv == IF checked THEN SlowConvert(op2, v) ELSE Throw
           out == return_value(op2, conv, fails)
           waits == generate_dispatch_async(op2, out, eager)
       IN /\ op2call' = [entry |-> "slow", v |-> v, out |-> out, detached |-> Detaches(op2, conv)]
          /\ op2stats' = [slow_function_metrics(op2stats, op2, out, waits) EXCEPT !.calls = @ + 1]
    /\ UNCHANGED op2

(* The fast entry, when V8 can pass the argument to it: no validator runs, *)
(* and no op that detaches has one.                                        *)
CallFast(v, fails) ==
    /\ Ready /\ op2.fast
    /\ fails => op2.ret.fallible
    /\ ~is_virtual(op2.arg) => FastTakes(map_arg_to_v8_fastcall_type(op2.arg), v)
    /\ LET out == return_value(op2, map_v8_fastcall_arg_to_arg(op2, v), fails)
           waits == generate_dispatch_async(op2, out, FALSE)
       IN /\ op2call' = [entry |-> "fast", v |-> v, out |-> out, detached |-> FALSE]
          /\ op2stats' = [fast_function_metrics(op2stats, op2, waits) EXCEPT !.calls = @ + 1]
    /\ UNCHANGED op2

(* A pending async op finishes on a later turn of the event loop.          *)
CompleteAsync ==
    /\ op2stats.pending > 0
    /\ op2stats' = [op_metrics_fn(op2stats, TRUE, "CompletedAsync") EXCEPT !.pending = @ - 1]
    /\ op2call' = NoCall
    /\ UNCHANGED op2

Op2Next == \/ Expand
           \/ \E v \in JsValues, fails, eager \in BOOLEAN : CallSlow(v, fails, eager)
           \/ \E v \in JsValues, fails \in BOOLEAN : CallFast(v, fails)
           \/ CompleteAsync

Op2Spec == Op2Init /\ [][Op2Next]_op2Vars
-----------------------------------------------------------------------------
(* Properties.                                                             *)

(* The Numbers and BigInts a numeric parameter is declared for, ...        *)
ConformsNumeric(arg, v) ==
    CASE arg.n = "bool" -> v.t \in {"true", "false"}
      [] arg.n = "f64" -> v.t = "num"
      [] arg.n = "u8" -> v.t = "num" /\ v.n \in {2 * i : i \in 0..(2^W8 - 1)}
      [] arg.n = "u32" -> IsUint32(v)
      [] arg.n \in {"i32", "smi"} -> IsInt32(v)
      [] OTHER ->
           LET range == IF arg.n = "u64" THEN 0..(2^W64 - 1) ELSE -(2^(W64 - 1))..(2^(W64 - 1) - 1)
           IN IF arg.num THEN v.t = "num" /\ v.n \in {2 * i : i \in range}
              ELSE v.t = "big" /\ v.n \in range

(* ... the values any parameter is, ...                                    *)
Conforms(arg, v) ==
    \/ arg.opt /\ v.t = "null"
    \/ arg.k = "numeric" /\ ConformsNumeric(arg, v)
    \/ arg.k = "string" /\ v.t = "str" /\ (arg.n = "CowByte" => OneByte(v.s))
    \/ arg.k = "buffer" /\ v.t = (IF arg.src = "ArrayBuffer" THEN "arraybuffer" ELSE "u8array")
       /\ (arg.mode = "Detach" => ~Pinned(v))
    \/ arg.k = "cppgc" /\ v.t = "wrapped" /\ ~arg.num
    \/ arg.k = "external" /\ v.t \in {"external", "null"}

(* ... and what the Rust function is to receive for them.                  *)
Meaning(arg, v) ==
    CASE v.t = "null" -> IF arg.opt THEN None ELSE Num(0)
      [] v.t \in {"true", "external", "wrapped"} -> Num(1)
      [] v.t = "false" -> Num(0)
      [] v.t = "num" -> Num(IF arg.n = "f64" THEN v.n ELSE v.n \div 2)
      [] v.t = "big" -> Num(v.n)
      [] v.t = "str" -> Str(IF arg.n = "CowByte" THEN v.s ELSE to_rust_string_lossy(v.s))
      [] OTHER -> Str(v.s)

(* The values a parameter has no reading for on either entry, ...          *)
Refused(arg, v) ==
    /\ ~(arg.opt /\ v.t \in {"null", "undefined", "absent"})
    /\ \/ arg.k = "numeric" /\ arg.n # "bool" /\ v.t \notin {"num", "big"}
       \/ arg.k = "string" /\ arg.n = "CowByte" /\ (v.t = "str" => ~OneByte(v.s))
       \/ arg.k = "buffer" /\ v.t \notin Views \cup {"arraybuffer"}
       \/ arg.k = "buffer" /\ arg.src = "TypedArray" /\ v.t = "arraybuffer"
       \/ arg.k = "buffer" /\ arg.src = "ArrayBuffer" /\ v.t \in Views
       \/ arg.k = "buffer" /\ arg.mode = "Detach" /\ Pinned(v)
       \/ arg.k = "cppgc" /\ ~arg.num /\ v.t # "wrapped"
       \/ arg.k = "external" /\ v.t \notin {"external", "null"}
       \/ arg.k \in {"v8", "local"} /\ arg.n \in {"v8String", "LocalString"} /\ v.t # "str"

(* ... and those its op lets pass: present where one is required, an int32 *)
(* where the parameter is validated.                                       *)
Admitted(op, v) ==
    /\ v.t = "absent" => "required" \notin op.cfg.f /\ ("validate" \in op.cfg.f => op.async)
    /\ op.validated /\ ~is_virtual(op.arg) => IsInt32(v)

(* Whichever entry V8 picks, an argument that conforms to its declared type*)
(* reaches the Rust function as the value it denotes: the slow conversions,*)
(* V8's truncation and the casts after it agree, and no string is written  *)
(* past the buffer on the stack.  Whichever it picks, a value without a    *)
(* reading throws, be it of another type or a buffer that cannot be        *)
(* detached; the slow entry throws as well for what a validator refuses,   *)
(* and a call that was refused leaves the caller its buffer.               *)
ArgumentsArrive ==
    op2.k = "op" /\ op2call.entry # "none" =>
        LET v == op2call.v
            admitted == op2call.entry = "fast" \/ Admitted(op2, v)
        IN /\ admitted /\ Conforms(op2.arg, v) =>
                \/ op2call.out = Meaning(op2.arg, v)
                \/ op2call.out = Throw /\ op2.ret.fallible
           /\ ~admitted \/ Refused(op2.arg, v) => op2call.out = Throw /\ ~op2call.detached

(* What #[validate] refuses never reaches the op: "Expected int". (It does *)
(* not hold: the fast entry has no validators, and V8 truncates a Number   *)
(* that is no int32 on the way into it.)                                   *)
ValidatorsHeld ==
    op2.k = "op" /\ op2call.entry # "none" /\ op2.validated /\ ~is_virtual(op2.arg)
        /\ ~IsInt32(op2call.v) => op2call.out = Throw

(* For an op without a fast entry the tracker's dispatches and completions *)
(* differ by exactly the calls that are still pending.                     *)
OutstandingExact ==
    op2.k = "op" /\ op2.async /\ ~op2.fast =>
        op2stats.dispatched - op2stats.completed = op2stats.pending

(* "Does this op have outstanding async op dispatches?" is answered yes    *)
(* while one is pending, on whichever entry it was dispatched. (It does    *)
(* not hold: the fast entry reports no dispatch of an async op.)           *)
OutstandingSeen == op2stats.pending > 0 => has_outstanding_ops(op2stats)

(* A #[buffer] takes "an exactly-typed TypedArray of the given underlying  *)
(* format" and nothing else. (It does not hold on the fast path, which     *)
(* takes any view.)                                                        *)
ExactlyTyped ==
    op2.k = "op" /\ op2.arg.k = "buffer" /\ op2.arg.src = "TypedArray" /\ op2call.out.o = "ok"
        => op2call.v.t = "u8array"

(* No op source makes the macro panic: the arm of parse_type that is       *)
(* marked unreachable is. (It does not hold.)                              *)
MacroTotal == op2.k # "panic"
=============================================================================

------------------------------- MODULE MCOps -------------------------------
(***************************************************************************)
(* Small instances of what an op call passes through: the code op2 makes   *)
(* for it, the conversions of its arguments and results, the promise table *)
(* and the op driver.  `part` says which of them a behaviour is about; the *)
(* others rest in an initial state.                                        *)
(***************************************************************************)
EXTENDS OpDriver, PromiseRing, Op2, SerdeV8, V8Slice, Conversions

(***************************************************************************)
(* Op2: the sources of ops, and what JavaScript passes to them.            *)
(***************************************************************************)
(* A type is written out here as [opt, form, mut, of].                     *)
Plain(of) == [opt |-> FALSE, form |-> "path", mut |-> FALSE, of |-> of]
Unit == [Plain("") EXCEPT !.form = "unit"]
Paths == {Plain(of) : of \in Numerics \cup StringTypes \cup BufferTypes \cup Specials \cup V8Types
            \cup V8Locals \cup {"RcRefCellOpState", "deno_core::path", "Value", "User"}}
Refs == {[Plain(of) EXCEPT !.form = f, !.mut = m] :
            f \in {"ref", "ptr", "slice"}, m \in BOOLEAN,
            of \in {"u8", "str", "OpState", "Isolate", "HandleScope", "v8String", "User", "c_void"}}
Types == Paths \cup Refs \cup {Unit, [Unit EXCEPT !.form = "tuple"], [Unit EXCEPT !.form = "fnptr"]}
            \cup {[t EXCEPT !.opt = TRUE] : t \in
                   {Plain(of) : of \in {"u32", "u64", "String", "JsBuffer", "LocalString", "RcRefCellOpState"}}
                   \cup {[Plain("User") EXCEPT !.form = "ref"], [Plain("OpState") EXCEPT !.form = "ref"],
                         [Plain("c_void") EXCEPT !.form = "ptr"], Unit}}
Mods == {NoAttr} \cup {Attr(a) : a \in {"bigint", "number", "serde", "smi", "webidl", "string",
            "onebyte", "cppgc", "proto", "varargs", "this", "undefined", "scoped", "unknown"}}
            \cup {BufAttr(m, s) : m \in {"Default", "Copy", "Detach"}, s \in Sources}
AsWritten(m) == IF m = NoAttr THEN <<>> ELSE <<m>>
AttrSeqs == {AsWritten(m) : m \in Mods} \cup {<<Attr("validate")>>, <<Attr("validate"), Attr("smi")>>,
            <<Attr("doc"), Attr("smi")>>}
Ret(ty, as, async, fallible) == [ty |-> ty, attrs |-> as, async |-> async, fallible |-> fallible]
Rets == {Ret(Unit, <<>>, FALSE, FALSE), Ret(Plain("u32"), <<>>, FALSE, TRUE)}
FlagSeqs == {<<"fast">>, <<"nofast">>, <<>>, <<"fast", "required">>, <<"fast", "validate">>}
AsyncOps == {[flags |-> fs, attrs |-> <<>>, ty |-> Plain("u32"), ret |-> Ret(Unit, <<>>, TRUE, f)] :
               f \in BOOLEAN, fs \in {<<>>, <<"async(lazy)", "fast">>, <<"async(lazy)", "nofast">>,
                                      <<"async(deferred)", "fast">>, <<"fast">>}}
RetOps == {[flags |-> fs, attrs |-> <<>>, ty |-> Plain("u32"), ret |-> Ret(t, as, FALSE, FALSE)] :
               fs \in {<<"fast">>, <<>>, <<"getter">>, <<"fast", "nofast">>, <<"stack_trace", "fast">>,
                       <<"fast(other)">>, <<"async(fake)">>},
               t \in Paths \cup {Unit}, as \in {AsWritten(m) : m \in Mods}}
SyncOps == {[flags |-> fs, attrs |-> as, ty |-> t, ret |-> rt] :
               fs \in FlagSeqs, as \in AttrSeqs, t \in Types, rt \in Rets}
AllOps == SyncOps \cup AsyncOps \cup RetOps
Halves == {-66, -34, -32, -10, -9, -8, -7, -2, -1, 0, 1, 2, 6, 8, 9, 14, 16, 30, 31, 32, 62, 64, 70}
Bigs == {-17, -16, -1, 0, 7, 15, 16, 31, 32}
Texts == {<<>>, <<1>>, <<9>>, <<1, 9>>, <<9, 15>>, <<8, 9, 10, 11>>, <<20>>, <<1, 20>>}

(***************************************************************************)
(* SerdeV8: types with values of them, and JavaScript values to be read as *)
(* values of those types.                                                  *)
(***************************************************************************)
Ty(k) == [k |-> k, a |-> <<>>, f |-> <<>>]
Of(k, a) == [k |-> k, a |-> a, f |-> <<>>]
Struct == [k |-> "struct", a |-> <<Ty("u64"), Of("option", <<Ty("str")>>)>>, f |-> <<<<1>>, <<5>>>>]
Enum == [k |-> "enum", a |-> <<Ty("unit"), Of("newtype", <<Ty("i64")>>), Of("tuple", <<Ty("bool"), Ty("u8")>>),
            [k |-> "struct", a |-> <<Ty("i8")>>, f |-> <<<<1>>>>]>>, f |-> <<<<1>>, <<5>>, <<9>>, <<20>>>>]
Texts8 == {<<>>, <<1>>, <<1, 1, 1, 1, 1>>, <<1, 1, 1, 1, 5>>, <<1, 1, 1, 1, 1, 5, 5>>, <<5, 9>>, <<20>>, <<1, 20>>}
Scalars == {<<Ty(k), Rust(i, <<>>)>> : k \in {"u8"}, i \in 0..3} \cup {<<Ty("i8"), Rust(i, <<>>)>> : i \in -2..1}
    \cup {<<Ty("u64"), Rust(i, <<>>)>> : i \in 0..31} \cup {<<Ty("i64"), Rust(i, <<>>)>> : i \in -16..15}
    \cup {<<Ty("f64"), Rust(h, <<>>)>> : h \in {-33, -1, 0, 1, 7}} \cup {<<Ty("bool"), Rust(b, <<>>)>> : b \in 0..1}
    \cup {<<Ty("str"), Rust(0, s)>> : s \in Texts8} \cup {<<Ty("char"), Rust(0, <<c>>)>> : c \in {1, 5, 9, 20}}
    \cup {<<Ty("bytes"), Rust(0, <<1, 2>>)>>, <<Ty("unit"), Rust(0, <<>>)>>}
Magics == {<<Ty(k), Rust(0, <<1, 5>>)>> : k \in {"ByteString", "U16String", "DetachedBuffer", "ToJsBuffer"}}
    \cup {<<Ty("ByteString"), Rust(0, <<1, 1, 1, 1, 1, 1, 1>>)>>}
    \cup {<<Ty("BigInt"), Rust(i, <<>>)>> : i \in {-40, 0, 40}} \cup {<<Ty("ExternalPointer"), Rust(i, <<>>)>> : i \in 0..1}
    \cup {<<Ty("AnyValue"), Rust(3, <<5>>)>>, <<Ty("AnyValue"), Rust(4, <<3>>)>>, <<Ty("AnyValue"), Rust(5, <<40>>)>>,
          <<Ty("AnyValue"), Rust(6, <<1>>)>>}
Compound == {<<Of("option", <<p[1]>>), Rust(1, <<p[2]>>)>> : p \in Scalars}
    \cup {<<Of("newtype", <<p[1]>>), Rust(0, <<p[2]>>)>> : p \in Scalars}
    \cup {<<Of("seq", <<p[1]>>), Rust(0, <<p[2], p[2]>>)>> : p \in Scalars}
    \cup {<<Of("tuple", <<p[1], Ty("i64")>>), Rust(0, <<p[2], Rust(-9, <<>>)>>)>> : p \in Scalars}
    \cup {<<Of("map", <<Ty("str"), p[1]>>), Rust(0, <<<<Rust(0, <<5>>), p[2]>>>>)>> : p \in Scalars}
    \cup {<<Of("map", <<Ty("u8"), p[1]>>), Rust(0, <<<<Rust(1, <<>>), p[2]>>>>)>> : p \in Scalars}
    \cup {<<Struct, Rust(0, <<Rust(i, <<>>), o>>)>> : i \in {0, 7, 8, 9, 31},
            o \in {Rust(0, <<>>), Rust(1, <<Rust(0, <<20>>)>>)}}
    \cup {<<Enum, Rust(1, <<>>)>>, <<Enum, Rust(2, <<Rust(-9, <<>>)>>)>>,
          <<Enum, Rust(3, <<Rust(1, <<>>), Rust(2, <<>>)>>)>>, <<Enum, Rust(4, <<Rust(-2, <<>>)>>)>>}
RustPairs == Scalars \cup Magics \cup Compound
JsAtoms == {JsNull, Undefined, Js("true", 0, <<>>), Js("symbol", 0, <<>>), Js("external", 1, <<>>)}
    \cup {JsNum(h) : h \in {-70, -34, -5, -1, 0, 3, 14, 15, 16, 64, 70}} \cup {Js("big", i, <<>>) : i \in {-33, -9, 0, 9, 33}}
    \cup {Js(t, 0, s) : t \in {"str", "strobj"}, s \in {<<>>, <<1>>, <<14>>, <<14, 15>>, <<5, 15>>}}
    \cup {Js(t, 0, <<1, 2>>) : t \in {"view", "buf", "resizable", "shared"}}
JsTrees == JsAtoms \cup {JsArr(<<a, b>>) : a \in JsAtoms, b \in {JsNull, JsNum(4)}}
    \cup {JsObj(<<<<k, a>>>>) : k \in {<<1>>, <<5>>, <<14, 15>>}, a \in JsAtoms}
    \cup {JsObj(<<<<<<1>>, a>>, <<<<5>>, b>>>>) : a \in JsAtoms, b \in {Undefined, Js("str", 0, <<14>>)}}
    \cup {JsMap(<<<<Js("str", 0, <<1>>), a>>>>) : a \in JsAtoms}
TypesRead == {Ty(k) : k \in {"u8", "i8", "u64", "i64", "f64", "bool", "str", "char", "bytes", "unit", "any"} \cup MagicIn \cup MagicOut}
    \cup {Struct, Enum, Of("option", <<Ty("u64")>>), Of("seq", <<Ty("f64")>>), Of("tuple", <<Ty("i8"), Ty("u64")>>),
          Of("map", <<Ty("str"), Ty("i64")>>), Of("option", <<Struct>>)}
JsPairs == TypesRead \X JsTrees

(***************************************************************************)
(* Conversions.                                                            *)
(***************************************************************************)
CvHalves == -130..130 \cup {-400, 300, 401}
CvWhole == -70..130
Cells3 == UNION {[1..n -> {"good", "bad", "undefined", "throws"}] : n \in 0..3}

VARIABLE part
opVars == <<vars, ringVars>>
valueVars == <<op2Vars, sv, sliceVars, cvVars>>
allVars == <<opVars, valueVars, part>>

Op2Rests == op2 = [k |-> "source"] /\ op2call = NoCall /\ op2stats = Summary0
SvRests == sv = [phase |-> "rests", ty |-> Ty("unit"), v |-> SvErr, j |-> SvErr, first |-> NoRust]
SlicesRest == view = [start |-> 0, end |-> 0] /\ slices = <<view>>
CvRests == walk = NoWalk /\ cv = [Case("rests", "u8", "none", CvJs("null", 0)) EXCEPT !.pc = "rests"]

OpsInit ==
  /\ part \in {"driver", "ring", "op2", "serde", "slices", "convert"}
  /\ Init /\ RingInit
  /\ IF part = "op2" THEN Op2Init ELSE Op2Rests
  /\ IF part = "serde" THEN SvInit ELSE SvRests
  /\ IF part = "slices" THEN SliceInit ELSE SlicesRest
  /\ IF part = "convert" THEN CvInit ELSE CvRests

OpsNext ==
  /\ \/ part = "driver" /\ Next /\ UNCHANGED <<ringVars, valueVars>>
     \/ part = "ring" /\ RingNext /\ UNCHANGED <<vars, valueVars>>
     \/ part = "op2" /\ Op2Next /\ UNCHANGED <<opVars, sv, sliceVars, cvVars>>
     \/ part = "serde" /\ SvNext /\ UNCHANGED <<opVars, op2Vars, sliceVars, cvVars>>
     \/ part = "slices" /\ SliceNext /\ UNCHANGED <<opVars, op2Vars, sv, cvVars>>
     \/ part = "convert" /\ CvNext /\ UNCHANGED <<opVars, op2Vars, sv, sliceVars>>
  /\ UNCHANGED part

(* The fairness of OpDriver!FairSpec. *)
OpsSpec ==
  /\ OpsInit /\ [][OpsNext]_allVars
  /\ WF_allVars(part = "driver" /\ DriverStep /\ UNCHANGED <<ringVars, valueVars, part>>)
  /\ WF_allVars(part = "driver" /\ LoopStep /\ UNCHANGED <<ringVars, valueVars, part>>)
=============================================================================

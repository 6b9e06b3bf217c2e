---------------------------- MODULE Conversions ----------------------------
(* The conversions ops are declared with: WebIDL (core/webidl.rs and the   *)
(* WebIDL derive), FromV8 and ToV8 (core/convert.rs and their derives) and *)
(* the ways an op's result becomes a JavaScript value                      *)
(* (runtime/ops_rust_to_v8.rs).  A conversion of one value is one step; a  *)
(* conversion of an array, a record or an object reads one element at a    *)
(* time, and every read may run a getter that changes the array or throws. *)
(* Numbers are in halves; 8 bits are CvW8 wide, 32 are CvW32, 64 are CvW64 *)
(* and a double holds every integer up to CvSafe.                          *)
EXTENDS Integers, Sequences, FiniteSets

CONSTANTS CvNumbers,   \* the Numbers converted, in halves
          CvInts,      \* the Rust integers converted
          CvCells,     \* the arrays and objects, as sequences of cells
          CvMaxF32     \* the largest finite f32, in halves

ASSUME CvAssumption ==
    /\ CvNumbers \subseteq Int /\ CvInts \subseteq Int
    /\ CvCells \subseteq Seq({"good", "bad", "undefined", "throws"})

CvW8 == 3
CvW32 == 5
CvW64 == 7
CvSafe == 31

VARIABLES cv,    \* the conversion: [pc, kind, ty, opts, v, out]
          walk   \* the walk over elements: [cells, i, len, init, dropped, read]
cvVars == <<cv, walk>>

CvErr == [o |-> "err", n |-> 0]
CvPanic == [o |-> "panic", n |-> 0]
CvOk(n) == [o |-> "ok", n |-> n]
CvNone == [o |-> "none", n |-> 0]
CvJs(t, n) == [t |-> t, n |-> n]

CvTrunc(h) == IF h >= 0 THEN h \div 2 ELSE -((-h) \div 2)
Within(lo, hi, x) == IF x < lo THEN lo ELSE IF x > hi THEN hi ELSE x
IntWidth(ty) == IF ty \in {"u8", "i8"} THEN CvW8 ELSE IF ty \in {"u32", "i32"} THEN CvW32 ELSE CvW64
Signed(ty) == ty \in {"i8", "i32", "i64"}

(* The range of the Rust type, and the range WebIDL gives it: 64-bit types *)
(* keep to the integers a double tells apart.                              *)
TypeMin(ty) == IF Signed(ty) THEN -(2^(IntWidth(ty) - 1)) ELSE 0
TypeMax(ty) == IF Signed(ty) THEN 2^(IntWidth(ty) - 1) - 1 ELSE 2^IntWidth(ty) - 1
IdlMin(ty) == IF ty = "i64" THEN -CvSafe ELSE TypeMin(ty)
IdlMax(ty) == IF ty \in {"i64", "u64"} THEN CvSafe ELSE TypeMax(ty)

(* `as`: out of range saturates.                                           *)
Saturate(ty, x) == Within(TypeMin(ty), TypeMax(ty), x)
-----------------------------------------------------------------------------
(* WebIDL.                                                                 *)

(* Value::number_value: ToNumber, which throws for symbols and BigInts.    *)
number_value(v) ==
    CASE v.t \in {"num", "nan", "inf", "ninf"} -> v
      [] v.t \in {"null", "false", "emptystr"} -> CvJs("num", 0)
      [] v.t = "true" -> CvJs("num", 2)
      [] v.t \in {"symbol", "big"} -> CvJs("throws", 0)
      [] OTHER -> CvJs("nan", 0)

(* Fault: clamp truncates instead of rounding to the nearest integer.      *)
ClampsByTruncation(ty, n) ==
    CASE n.t = "inf" -> IdlMax(ty)
      [] n.t = "ninf" -> IdlMin(ty)
      [] OTHER -> CvTrunc(Within(2 * IdlMin(ty), 2 * IdlMax(ty), n.n))

(* clamp(MIN, MAX), then the nearest integer, ties to the even one.        *)
ClampInt(ty, n) ==
    LET h == Within(2 * IdlMin(ty), 2 * IdlMax(ty), n.n)
    IN CASE n.t = "inf" -> IdlMax(ty)
         [] n.t = "ninf" -> IdlMin(ty)
         [] h % 2 = 0 -> h \div 2
         [] OTHER -> IF ((h - 1) \div 2) % 2 = 0 THEN (h - 1) \div 2 ELSE (h + 1) \div 2

(* The remainder keeps the sign of t, so that 2^w is added to a negative   *)
(* one; a signed result from MAX on has 2^w taken off.                     *)
WrapInt(ty, t) ==
    LET m == 2^IntWidth(ty)
        r == IF t >= 0 THEN t % m ELSE m - ((-t) % m)
    IN Saturate(ty, IF Signed(ty) /\ r >= IdlMax(ty) THEN r - m ELSE r)

impl_ints(ty, opts, v) ==
    LET n == number_value(v)
        t == CvTrunc(n.n)
    IN CASE v.t = "big" \/ n.t = "throws" -> CvErr
         [] opts = "enforce_range" ->
              IF n.t # "num" \/ t < IdlMin(ty) \/ t > IdlMax(ty) THEN CvErr ELSE CvOk(t)
         [] opts = "clamp" /\ n.t # "nan" -> CvOk(ClampInt(ty, n))
         [] n.t # "num" -> CvOk(0)
         [] OTHER -> CvOk(IF t \in IdlMin(ty)..IdlMax(ty) THEN t ELSE WrapInt(ty, t))

webidl_f32(v) ==
    LET n == number_value(v)
    IN IF n.t # "num" \/ n.n > CvMaxF32 \/ n.n < -CvMaxF32 THEN CvErr ELSE CvOk(n.n)

webidl_f64(v) == LET n == number_value(v) IN IF n.t # "num" THEN CvErr ELSE CvOk(n.n)

UnrestrictedDouble(v) == LET n == number_value(v) IN IF n.t = "throws" THEN CvErr ELSE CvOk(n.n)

webidl_bool(v) ==
    CvOk(IF v.t \in {"false", "undefined", "null", "nan", "emptystr"} \/ (v.t \in {"num", "big"} /\ v.n = 0)
         THEN 0 ELSE 1)

(* The words are copied into an empty vector: none arrives.                *)
webidl_BigInt(v) == IF v.t \in {"big", "true", "false", "emptystr"} THEN CvOk(0) ELSE CvErr

(* 1 stands for a string with only one-byte characters, 2 for any other, 0 *)
(* for the empty one.                                                      *)
webidl_String(opts, v) ==
    CASE v.t = "null" /\ opts = "treat_null_as_empty_string" -> CvOk(0)
      [] v.t = "symbol" -> CvErr
      [] v.t = "emptystr" -> CvOk(0)
      [] v.t = "wide" -> CvOk(2)
      [] OTHER -> CvOk(1)

webidl_ByteString(opts, v) ==
    LET s == webidl_String(opts, v) IN IF s = CvOk(2) THEN CvErr ELSE s

(* An enum is matched against toString() of the value.                     *)
webidl_enum(v) == IF v.t = "variant" THEN CvOk(v.n) ELSE CvErr

webidl_interface(v) == IF v.t = "wrapped" THEN CvOk(1) ELSE CvErr

webidl_one(ty, opts, v) ==
    CASE ty \in {"u8", "i8", "u32", "i32", "u64", "i64"} -> impl_ints(ty, opts, v)
      [] ty = "f32" -> webidl_f32(v)
      [] ty = "f64" -> webidl_f64(v)
      [] ty = "unrestricted" -> UnrestrictedDouble(v)
      [] ty = "bool" -> webidl_bool(v)
      [] ty = "BigInt" -> webidl_BigInt(v)
      [] ty = "String" -> webidl_String(opts, v)
      [] ty = "ByteString" -> webidl_ByteString(opts, v)
      [] ty = "enum" -> webidl_enum(v)
      [] OTHER -> webidl_interface(v)

(* Option takes undefined for None and leaves null to the inner type;      *)
(* Nullable takes both.                                                    *)
webidl_Option(ty, opts, v) == IF v.t = "undefined" THEN CvNone ELSE webidl_one(ty, opts, v)
webidl_Nullable(ty, opts, v) == IF v.t \in {"undefined", "null"} THEN CvNone ELSE webidl_one(ty, opts, v)
-----------------------------------------------------------------------------
(* FromV8 and ToV8 of one value.                                           *)

(* Smi: `as i32` on the way out, `as T` on the way back, both bitwise.     *)
as_i32(x) == ((x + 2^(CvW32 - 1)) % 2^CvW32) - 2^(CvW32 - 1)

from_i32(ty, x) == LET m == 2^IntWidth(ty) IN IF Signed(ty) THEN ((x + m \div 2) % m) - m \div 2 ELSE x % m

(* A double keeps the integers up to CvSafe + 1, then the even ones.       *)
as_f64(x) == IF x \in -(CvSafe + 1)..(CvSafe + 1) THEN 2 * x ELSE 4 * (x \div 2)

(* What a Rust value of each wrapper becomes, ...                          *)
convert_to_v8(kind, x) ==
    CASE kind = "Smi" -> CvJs("num", 2 * as_i32(x))
      [] kind \in {"Number", "int"} -> CvJs("num", as_f64(x))
      [] kind = "BigInt" -> CvJs("big", x)
      [] kind = "bool" -> CvJs(IF x = 1 THEN "true" ELSE "false", 0)
      [] kind = "OptionNull" -> IF x = 0 THEN CvJs("null", 0) ELSE CvJs("num", 2 * x)
      [] kind = "OptionUndefined" -> IF x = 0 THEN CvJs("undefined", 0) ELSE CvJs("num", 2 * x)
      [] OTHER -> IF x = 0 THEN CvJs("null", 0) ELSE CvJs("num", 2 * x)

(* ... and what it reads: Smi and Number also take BigInts, bitwise; the   *)
(* plain integers saturate; the options differ in what means None.         *)
convert_from_v8(kind, ty, v) ==
    LET plain == IF v.t = "num" THEN CvOk(Saturate(ty, CvTrunc(v.n))) ELSE CvErr
    IN CASE kind = "Smi" ->
              IF v.t = "num" THEN CvOk(from_i32(ty, as_i32(CvTrunc(v.n))))
              ELSE IF v.t = "big" THEN CvOk(from_i32(ty, as_i32(v.n))) ELSE CvErr
         [] kind = "Number" ->
              IF v.t = "num" THEN plain ELSE IF v.t = "big" THEN CvOk(from_i32(ty, v.n)) ELSE CvErr
         [] kind = "int" -> plain
         [] kind = "BigInt" -> IF v.t = "big" THEN CvOk(v.n) ELSE CvErr
         [] kind = "bool" -> IF v.t \in {"true", "false"} THEN CvOk(IF v.t = "true" THEN 1 ELSE 0) ELSE CvErr
         [] kind = "OptionNull" -> IF v.t = "null" THEN CvOk(0) ELSE plain
         [] kind = "OptionUndefined" -> IF v.t = "undefined" THEN CvOk(0) ELSE plain
         [] OTHER -> IF v.t \in {"null", "undefined"} THEN CvOk(0) ELSE plain
-----------------------------------------------------------------------------
(* Results of ops: through a scope when a promise is resolved, into the    *)
(* slot of the return value when the op is synchronous.                    *)

rust_to_v8(marker, ty, x) ==
    CASE marker = "smi" -> CvJs("num", 2 * as_i32(x))
      [] marker = "number" -> CvJs("num", as_f64(x))
      [] marker = "none" /\ ty = "unit" -> CvJs("null", 0)
      [] marker = "none" /\ ty = "bool" -> CvJs(IF x = 1 THEN "true" ELSE "false", 0)
      [] marker = "none" /\ ty \in {"u64", "i64"} -> CvJs("big", x)
      [] marker = "none" /\ ty = "option" -> IF x = 0 THEN CvJs("null", 0) ELSE CvJs("num", 2 * x)
      [] OTHER -> CvJs("num", 2 * x)

to_v8_rv(marker, ty, x) ==
    CASE marker = "number" -> CvJs("num", as_f64(x))
      [] marker = "none" /\ ty = "unit" -> CvJs("null", 0)
      [] marker = "none" /\ ty = "bool" -> CvJs(IF x = 1 THEN "true" ELSE "false", 0)
      [] marker = "none" /\ ty = "option" -> IF x = 0 THEN CvJs("null", 0) ELSE CvJs("num", 2 * x)
      [] marker = "none" /\ ty = "u32" -> CvJs("num", 2 * (x % 2^CvW32))
      [] OTHER -> CvJs("num", 2 * as_i32(x))
-----------------------------------------------------------------------------
(* Arrays, records and objects.  A cell is what a read gives: "good" and   *)
(* "bad" for a value the element type takes or refuses, "undefined", or    *)
(* "throws" for a getter that throws.                                      *)

NoWalk == [cells |-> <<>>, i |-> 0, len |-> 0, init |-> {}, dropped |-> {}, read |-> <<>>]
CellAt(i) == IF i < Len(walk.cells) THEN walk.cells[i + 1] ELSE "undefined"

End(r) == cv' = [cv EXCEPT !.pc = "done", !.out = r]

(* A getter that runs may shorten or extend the array under the loop.      *)
Getter == \/ UNCHANGED cv /\ walk' = walk
          \/ /\ walk.cells # <<>>
             /\ walk' = [walk EXCEPT !.cells = SubSeq(@, 1, Len(@) - 1)]
             /\ UNCHANGED cv
          \/ /\ Len(walk.cells) < 3
             /\ walk' = [walk EXCEPT !.cells = Append(@, "good")]
             /\ UNCHANGED cv

RunGetter == cv.pc = "walk" /\ cv.kind \in {"vec", "tuple"} /\ Getter /\ walk' # walk

(* Fault: one element more is dropped than was written.                    *)
DropsOneMore(i) == 0..i

(* The elements written before the one that failed.                        *)
Written(i) == 0..(i - 1)

(* Vec<T>::from_v8: the length is read once, the elements are written into *)
(* memory that is not initialised, and a failure drops those written.      *)
VecElement ==
    /\ cv.pc = "walk" /\ cv.kind = "vec"
    /\ LET cell == CellAt(walk.i)
       IN \/ walk.i = walk.len /\ End(CvOk(walk.len)) /\ UNCHANGED walk
          \/ /\ walk.i < walk.len /\ cell = "good"
             /\ walk' = [walk EXCEPT !.i = @ + 1, !.init = @ \cup {walk.i}]
             /\ UNCHANGED cv
          \/ /\ walk.i < walk.len /\ cell \in {"bad", "undefined"}
             /\ walk' = [walk EXCEPT !.dropped = Written(walk.i)]
             /\ End(CvErr)
          \/ walk.i < walk.len /\ cell = "throws" /\ End(CvPanic) /\ UNCHANGED walk

(* Tuples: the length must match; each element is unwrapped.               *)
TupleElement ==
    /\ cv.pc = "walk" /\ cv.kind = "tuple"
    /\ LET cell == CellAt(walk.i)
       IN \/ walk.i = walk.len /\ End(CvOk(walk.len)) /\ UNCHANGED walk
          \/ /\ walk.i < walk.len /\ cell = "good"
             /\ walk' = [walk EXCEPT !.i = @ + 1, !.init = @ \cup {walk.i}]
             /\ UNCHANGED cv
          \/ /\ walk.i < walk.len /\ cell \in {"bad", "undefined"}
             /\ walk' = [walk EXCEPT !.dropped = walk.init]
             /\ End(CvErr)
          \/ walk.i < walk.len /\ cell = "throws" /\ End(CvPanic) /\ UNCHANGED walk

(* A WebIDL sequence asks the iterator; whatever it throws is an error.    *)
SequenceElement ==
    /\ cv.pc = "walk" /\ cv.kind = "sequence"
    /\ LET cell == CellAt(walk.i)
       IN \/ walk.i >= Len(walk.cells) /\ End(CvOk(walk.i)) /\ UNCHANGED walk
          \/ /\ walk.i < Len(walk.cells) /\ cell = "good"
             /\ walk' = [walk EXCEPT !.i = @ + 1, !.init = @ \cup {walk.i}]
             /\ UNCHANGED cv
          \/ /\ walk.i < Len(walk.cells) /\ cell # "good"
             /\ walk' = [walk EXCEPT !.dropped = walk.init]
             /\ End(CvErr)

(* A record reads the own keys first; a getter that throws is unwrapped.   *)
RecordEntry ==
    /\ cv.pc = "walk" /\ cv.kind = "record"
    /\ LET cell == CellAt(walk.i)
       IN \/ walk.i = walk.len /\ End(CvOk(walk.i)) /\ UNCHANGED walk
          \/ /\ walk.i < walk.len /\ cell = "good"
             /\ walk' = [walk EXCEPT !.i = @ + 1, !.init = @ \cup {walk.i}]
             /\ UNCHANGED cv
          \/ /\ walk.i < walk.len /\ cell \in {"bad", "undefined"}
             /\ walk' = [walk EXCEPT !.dropped = walk.init]
             /\ End(CvErr)
          \/ walk.i < walk.len /\ cell = "throws" /\ End(CvPanic) /\ UNCHANGED walk

(* A field with a default (an Option has None) takes undefined for absent; *)
(* a getter that throws always counts as absent.                           *)
Present(default, cell) == cell # "throws" /\ (default => cell # "undefined")

(* Fields come in the order of their Rust names.  `undefined` that is not  *)
(* absent goes to the converter: u8 makes 0 of it, an interface refuses.   *)
FieldOf(default, cell, takesUndefined) ==
    IF ~Present(default, cell) THEN (IF default THEN "default" ELSE "missing")
    ELSE IF cell = "good" THEN "value"
    ELSE IF cell = "undefined" /\ takesUndefined THEN "value" ELSE "bad"

(* One field of a walk over an object.                                     *)
ReadField(r) ==
    \/ /\ r \in {"value", "default"}
       /\ walk' = [walk EXCEPT !.i = @ + 1, !.init = @ \cup {walk.i}, !.read = Append(@, r)]
       /\ UNCHANGED cv
    \/ /\ r \in {"missing", "bad"}
       /\ walk' = [walk EXCEPT !.dropped = walk.init]
       /\ End(CvErr)

DictionaryField ==
    /\ cv.pc = "walk" /\ cv.kind = "dictionary"
    /\ \/ walk.i = walk.len /\ End(CvOk(walk.i)) /\ UNCHANGED walk
       \/ walk.i < walk.len /\ ReadField(FieldOf(cv.opts = "default", CellAt(walk.i), cv.ty = "u8"))

(* The FromV8 derive: the same walk, with converters that refuse undefined.*)
StructField ==
    /\ cv.pc = "walk" /\ cv.kind = "struct"
    /\ \/ walk.i = walk.len /\ End(CvOk(walk.i)) /\ UNCHANGED walk
       \/ walk.i < walk.len /\ ReadField(FieldOf(cv.opts = "default", CellAt(walk.i), FALSE))

(* What is walked: an array (its length fixed now, and for a tuple checked *)
(* against the arity 2), an object, or for a dictionary null and undefined,*)
(* which have no keys at all.                                              *)
StartWalk ==
    /\ cv.pc = "start" /\ cv.kind \in {"vec", "tuple", "sequence", "record", "dictionary", "struct"}
    /\ LET empty == cv.kind = "dictionary" /\ cv.v.t \in {"null", "undefined"}
           wrong == cv.v.t # "obj" /\ ~empty
           cells == IF empty THEN [k \in DOMAIN walk.cells |-> "throws"] ELSE walk.cells
       IN \/ /\ wrong \/ (cv.kind = "tuple" /\ Len(cells) # 2)
             /\ End(CvErr) /\ UNCHANGED walk
          \/ /\ ~wrong /\ (cv.kind = "tuple" => Len(cells) = 2)
             /\ walk' = [walk EXCEPT !.cells = cells, !.len = Len(cells)]
             /\ cv' = [cv EXCEPT !.pc = "walk"]

ConvertOne ==
    /\ cv.pc = "start" /\ cv.kind \in {"webidl", "option", "nullable"}
    /\ End(CASE cv.kind = "webidl" -> webidl_one(cv.ty, cv.opts, cv.v)
             [] cv.kind = "option" -> webidl_Option(cv.ty, cv.opts, cv.v)
             [] OTHER -> webidl_Nullable(cv.ty, cv.opts, cv.v))
    /\ UNCHANGED walk

(* A Rust integer goes out and comes back.                                 *)
Wrappers == {"Smi", "Number", "int", "BigInt", "bool", "OptionNull", "OptionUndefined", "Option"}
ThereAndBack ==
    /\ cv.pc = "start" /\ cv.kind \in Wrappers
    /\ End(convert_from_v8(cv.kind, cv.ty, convert_to_v8(cv.kind, cv.v.n)))
    /\ UNCHANGED walk

(* An op's result, by both ways.                                           *)
ReturnBoth ==
    /\ cv.pc = "start" /\ cv.kind = "result"
    /\ cv' = [cv EXCEPT !.pc = "done", !.out = [o |-> "ok", n |-> rust_to_v8(cv.opts, cv.ty, cv.v.n)],
                        !.v = to_v8_rv(cv.opts, cv.ty, cv.v.n)]
    /\ UNCHANGED walk

JsAll == [t : {"num"}, n : CvNumbers] \cup [t : {"big"}, n : {-1, 0, 5}]
         \cup [t : {"nan", "inf", "ninf", "symbol", "undefined", "null", "true", "false", "emptystr",
                    "latin1", "wide", "wrapped", "obj", "variant"}, n : {0}]

Case(kind, ty, opts, v) ==
    [pc |-> "start", kind |-> kind, ty |-> ty, opts |-> opts, v |-> v, out |-> CvNone]
IntTypes == {"u8", "i8", "u32", "i32", "u64", "i64"}

CvInit ==
    \/ /\ walk = NoWalk
       /\ \/ \E k \in {"webidl", "option", "nullable"}, v \in JsAll :
               \/ \E ty \in IntTypes, o \in {"none", "clamp", "enforce_range"} : cv = Case(k, ty, o, v)
               \/ \E ty \in {"f32", "f64", "unrestricted", "bool", "BigInt", "String", "ByteString",
                             "enum", "interface"}, o \in {"none", "treat_null_as_empty_string"} :
                    cv = Case(k, ty, o, v)
          \/ \E k \in Wrappers, ty \in IntTypes, x \in CvInts :
               /\ x \in TypeMin(ty)..TypeMax(ty) /\ (k = "bool" => x \in 0..1)
               /\ cv = Case(k, ty, "none", CvJs("rust", x))
          \/ \E x \in CvInts, m \in {"none", "smi", "number"}, ty \in IntTypes \cup {"unit", "bool", "option"} :
               /\ ty \in IntTypes => x \in TypeMin(ty)..TypeMax(ty)
               /\ ty \notin IntTypes => x \in 0..1 /\ m = "none"
               /\ m = "number" => ty \in {"u64", "i64"}
               /\ (ty \in {"u64", "i64"} => m # "none")
               /\ cv = Case("result", ty, m, CvJs("rust", x))
    \/ \E cells \in CvCells, k \in {"vec", "tuple", "sequence", "record", "dictionary", "struct"},
          ty \in {"u8", "interface"}, o \in {"required", "default"}, t \in {"obj", "null", "undefined", "num"} :
         /\ walk = [NoWalk EXCEPT !.cells = cells]
         /\ cv = Case(k, ty, o, CvJs(t, 0))

CvNext == \/ ConvertOne \/ ThereAndBack \/ ReturnBoth
          \/ StartWalk \/ RunGetter
          \/ VecElement \/ TupleElement \/ SequenceElement \/ RecordEntry
          \/ DictionaryField \/ StructField

CvSpec == CvInit /\ [][CvNext]_cvVars
-----------------------------------------------------------------------------
(* Properties.                                                             *)

CvDone(kinds) == cv.pc = "done" /\ cv.kind \in kinds

(* However the getters change the array meanwhile, a conversion that       *)
(* succeeds has written every element it hands out, and one that fails     *)
(* drops exactly those it wrote: none twice, none never written.           *)
ElementsInitialised ==
    /\ CvDone({"vec", "tuple"}) /\ cv.out.o = "ok" => walk.init = 0..(walk.len - 1)
    /\ cv.pc = "done" /\ cv.out.o = "err" => walk.dropped = walk.init

(* An integer converter with clamp yields the nearest integer of its range,*)
(* the even one of two, and one with enforce_range the integer part, or an *)
(* error outside it.                                                       *)
IntOptionsHonoured ==
    CvDone({"webidl"}) /\ cv.ty \in IntTypes /\ cv.v.t = "num" =>
        /\ cv.opts = "clamp" =>
              LET dist(x) == IF cv.v.n >= 2 * x THEN cv.v.n - 2 * x ELSE 2 * x - cv.v.n
              IN /\ cv.out.n \in IdlMin(cv.ty)..IdlMax(cv.ty)
                 /\ \A x \in IdlMin(cv.ty)..IdlMax(cv.ty) :
                       dist(cv.out.n) < dist(x) \/ x = cv.out.n
                       \/ (dist(cv.out.n) = dist(x) /\ cv.out.n % 2 = 0)
        /\ cv.opts = "enforce_range" =>
              IF CvTrunc(cv.v.n) \in IdlMin(cv.ty)..IdlMax(cv.ty) THEN cv.out = CvOk(CvTrunc(cv.v.n))
              ELSE cv.out = CvErr

(* A Rust value that its wrapper can carry comes back as it was: a Smi of  *)
(* any integer that has 32 bits, a Number of any a double holds exactly, an*)
(* optional value that is not zero.                                        *)
WrappersRoundTrip ==
    CvDone(Wrappers) /\ (cv.kind = "Smi" => IntWidth(cv.ty) <= CvW32)
        /\ (cv.kind \in {"Number", "int", "OptionNull", "OptionUndefined", "Option"} =>
               cv.v.n \in -CvSafe..CvSafe)
        => cv.out = CvOk(cv.v.n)

(* A result reads the same in JavaScript whether the op returns it or its  *)
(* promise resolves to it.                                                 *)
RetvalAgrees == CvDone({"result"}) => cv.out.n = cv.v

(* A default stands in for a field exactly when it is absent or its getter *)
(* throws; undefined never reaches the converter of such a field.          *)
DefaultsApply ==
    CvDone({"dictionary", "struct"}) /\ cv.out.o = "ok" /\ cv.opts = "default" =>
        \A i \in DOMAIN walk.read : walk.read[i] = "default" <=> walk.cells[i] \in {"undefined", "throws"}

(* A value keeps its meaning on its way between Rust and JavaScript.       *)
ConversionsFaithful ==
    IntOptionsHonoured /\ WrappersRoundTrip /\ RetvalAgrees /\ DefaultsApply

(* https://webidl.spec.whatwg.org/#abstract-opdef-converttoint: without    *)
(* options an integer is the integer part modulo 2^w, the upper half of it *)
(* negative for the signed types. (It does not hold: see README.md.)       *)
IntsFollowSpec ==
    CvDone({"webidl"}) /\ cv.ty \in IntTypes /\ cv.v.t = "num" /\ cv.opts = "none" =>
        LET m == 2^IntWidth(cv.ty)
            x == CvTrunc(cv.v.n) % m
        IN cv.out = CvOk(IF Signed(cv.ty) /\ x >= m \div 2 THEN x - m ELSE x)

(* "can not be converted to '{converter}' because '{key}' is required": a  *)
(* dictionary without a required key is refused. (It does not hold: a key  *)
(* that is undefined goes to its converter, and those of the numbers take  *)
(* undefined.)                                                             *)
RequiredIsRequired ==
    CvDone({"dictionary"}) /\ cv.out.o = "ok" /\ cv.opts = "required" =>
        \A i \in DOMAIN walk.cells : walk.cells[i] # "undefined"
=============================================================================

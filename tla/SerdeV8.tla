------------------------------ MODULE SerdeV8 ------------------------------
(* serde_v8: Rust values sent to JavaScript and read back.  A Rust type is *)
(* [k, a, f]: its kind, its parts and their names.  A Rust value is [n, s];*)
(* a JavaScript value has its type t and what that type holds.  Numbers    *)
(* are in halves; 64-bit integers are 2^SvW64 wide, and doubles hold every *)
(* integer up to MaxSafe, then only the even ones.  A Rust string is a     *)
(* sequence of code points, a JavaScript one of UTF-16 code units.         *)
EXTENDS Integers, Sequences, SequencesExt, FiniteSets

CONSTANTS SvRust,     \* the <<type, value>> pairs sent to JavaScript
          SvJs,       \* the <<type, JavaScript value>> pairs read
          MaxStr      \* the longest string V8 allocates

VARIABLE sv   \* what is converted: [phase, ty, v, j, first]

SvW8 == 2
SvW64 == 5
MaxSafe == 2^3 - 1

Js(t, n, s) == [t |-> t, n |-> n, s |-> s]
JsArr(e) == [t |-> "arr", e |-> e]
JsObj(o) == [t |-> "obj", o |-> o]
JsMap(m) == [t |-> "map", m |-> m]
JsNull == Js("null", 0, <<>>)
JsNum(h) == Js("num", h, <<>>)
SvErr == [k |-> "err"]
SvPanic == [k |-> "panic"]
SvOk(x) == [k |-> "ok", x |-> x]
Rust(n, s) == [n |-> n, s |-> s]

(* The first failure among the parts, or the whole.                        *)
Whole(parts, whole) ==
    LET bad == SelectInSeq(parts, LAMBDA p : p.k # "ok")
    IN IF bad # 0 THEN parts[bad] ELSE SvOk(whole)

Contents(parts) == [i \in DOMAIN parts |-> IF parts[i].k = "ok" THEN parts[i].x ELSE 0]
-----------------------------------------------------------------------------
(* Strings.  Code points: 1 is ASCII, 5 takes two bytes of UTF-8, 9 three  *)
(* and 20 four; 20 is the surrogate pair 14, 15.                           *)

Utf16(s) == FlattenSeq([i \in DOMAIN s |-> IF s[i] = 20 THEN <<14, 15>> ELSE <<s[i]>>])

(* Where the code points of a UTF-16 string start; a lone surrogate is one.*)
Starts(u) == {i \in DOMAIN u : ~(u[i] = 15 /\ i > 1 /\ u[i - 1] = 14)}
PointAt(u, i) == IF u[i] = 14 /\ i < Len(u) /\ u[i + 1] = 15 THEN 20
                 ELSE IF u[i] \in {14, 15} THEN 9 ELSE u[i]
Utf8Len(c) == CASE c < 4 -> 1 [] c < 8 -> 2 [] c < 20 -> 3 [] OTHER -> 4

Points(u) == LET at == SetToSortSeq(Starts(u), <) IN [i \in DOMAIN at |-> PointAt(u, at[i])]

ByteLen(p) == FoldLeft(LAMBDA acc, c : acc + Utf8Len(c), 0, p)

(* The fast path allocates a fifth more than the length and gives up when  *)
(* not every character fitted.                                             *)
to_utf8_fast(u) ==
    LET capacity == (Len(u) * 12) \div 10
        p == Points(u)
        fits == {n \in 0..Len(p) : ByteLen(SubSeq(p, 1, n)) <= capacity}
        written == SubSeq(p, 1, CHOOSE n \in fits : \A m \in fits : m <= n)
    IN IF Len(Utf16(written)) < Len(u) THEN [k |-> "none"] ELSE [k |-> "some", x |-> written]

to_utf8(u) == LET fast == to_utf8_fast(u) IN IF fast.k = "some" THEN fast.x ELSE Points(u)

OneByteOnly(u) == \A i \in DOMAIN u : u[i] < 8
-----------------------------------------------------------------------------
(* Rust to JavaScript.                                                     *)

AsF64(i) == IF i \in -(MaxSafe + 1)..(MaxSafe + 1) THEN 2 * i ELSE 4 * (i \div 2)

NumberAlways(i) == JsNum(AsF64(i))

(* A 64-bit integer is a Number while that is exact, a BigInt beyond.      *)
serialize_64(i) == IF i \in -MaxSafe..MaxSafe THEN JsNum(AsF64(i)) ELSE Js("big", i, <<>>)

serialize_str(s) == IF Len(Utf16(s)) > MaxStr THEN SvErr ELSE SvOk(Js("str", 0, Utf16(s)))

Bytes(s) == Js("view", 0, s)

(* The magic types bypass serde: each has its own to_v8.                   *)
ByteString_to_v8(v) == IF Len(v.s) > MaxStr THEN SvPanic ELSE SvOk(Js("str", 0, v.s))
U16String_to_v8(v) == IF Len(v.s) > MaxStr THEN SvErr ELSE SvOk(Js("str", 0, v.s))
ToJsBuffer_to_v8(v) == SvOk(Bytes(v.s))
DetachedBuffer_to_v8(v) == SvOk(Bytes(v.s))
BigInt_to_v8(v) == SvOk(Js("big", v.n, <<>>))
ExternalPointer_to_v8(v) == SvOk(IF v.n = 0 THEN JsNull ELSE Js("external", v.n, <<>>))

magic_to_v8(ty, v) ==
    CASE ty.k = "ByteString" -> ByteString_to_v8(v)
      [] ty.k = "U16String" -> U16String_to_v8(v)
      [] ty.k = "ToJsBuffer" -> ToJsBuffer_to_v8(v)
      [] ty.k = "DetachedBuffer" -> DetachedBuffer_to_v8(v)
      [] ty.k = "BigInt" -> BigInt_to_v8(v)
      [] ty.k = "ExternalPointer" -> ExternalPointer_to_v8(v)
      [] OTHER -> SvOk(v.s[1])

any_to_v8(v) ==
    CASE v.n = 1 -> SvOk(Bytes(v.s))
      [] v.n = 2 -> SvPanic
      [] v.n = 3 -> serialize_str(v.s)
      [] v.n = 4 -> SvOk(JsNum(v.s[1]))
      [] v.n = 5 -> SvOk(Js("big", v.s[1], <<>>))
      [] OTHER -> SvOk(Js(IF v.s[1] = 1 THEN "true" ELSE "false", 0, <<>>))

MagicOut == {"ByteString", "U16String", "ToJsBuffer", "DetachedBuffer", "BigInt", "ExternalPointer",
             "Value", "GlobalValue"}

RECURSIVE serialize(_, _)

(* An object with these keys; values that failed make it fail.             *)
ObjectOf(keys, parts) ==
    Whole(parts, JsObj([i \in DOMAIN keys |-> <<keys[i], Contents(parts)[i]>>]))

ArraySerializer(parts) == Whole(parts, JsArr(Contents(parts)))

FieldsOf(ty, v) == [i \in DOMAIN ty.a |-> serialize(ty.a[i], v.s[i])]

(* "Variant" for a unit variant, { Variant: payload } for the others.      *)
serialize_variant(ty, v) ==
    LET var == ty.a[v.n]
        name == ty.f[v.n]
        inner == CASE var.k = "newtype" -> serialize(var.a[1], v.s[1])
                   [] var.k = "tuple" -> ArraySerializer(FieldsOf(var, v))
                   [] OTHER -> ObjectOf(var.f, FieldsOf(var, v))
    IN IF var.k = "unit" THEN SvOk(Js("str", 0, name)) ELSE ObjectOf(<<name>>, <<inner>>)

(* Maps become objects, so that their keys have to be strings.             *)
serialize_map(ty, v) ==
    LET ks == [i \in DOMAIN v.s |-> serialize(ty.a[1], v.s[i][1])]
        bad == \E i \in DOMAIN ks : ks[i].k = "ok" /\ ks[i].x.t # "str"
        keys == [i \in DOMAIN ks |-> IF ks[i].k = "ok" THEN ks[i].x.s ELSE <<>>]
        vals == [i \in DOMAIN v.s |-> serialize(ty.a[2], v.s[i][2])]
    IN IF bad THEN SvErr
       ELSE IF \E i \in DOMAIN ks : ks[i].k # "ok" THEN SvErr ELSE ObjectOf(keys, vals)

serialize(ty, v) ==
    CASE ty.k \in {"u8", "i8"} -> SvOk(JsNum(2 * v.n))
      [] ty.k \in {"u64", "i64"} -> SvOk(serialize_64(v.n))
      [] ty.k = "f64" -> SvOk(JsNum(v.n))
      [] ty.k = "bool" -> SvOk(Js(IF v.n = 1 THEN "true" ELSE "false", 0, <<>>))
      [] ty.k \in {"str", "char"} -> serialize_str(v.s)
      [] ty.k = "bytes" -> SvOk(Bytes(v.s))
      [] ty.k = "unit" -> SvOk(JsNull)
      [] ty.k = "option" -> IF v.n = 0 THEN SvOk(JsNull) ELSE serialize(ty.a[1], v.s[1])
      [] ty.k = "newtype" -> serialize(ty.a[1], v.s[1])
      [] ty.k = "seq" -> ArraySerializer([i \in DOMAIN v.s |-> serialize(ty.a[1], v.s[i])])
      [] ty.k = "tuple" -> ArraySerializer(FieldsOf(ty, v))
      [] ty.k = "struct" -> ObjectOf(ty.f, FieldsOf(ty, v))
      [] ty.k = "map" -> serialize_map(ty, v)
      [] ty.k = "enum" -> serialize_variant(ty, v)
      [] ty.k = "AnyValue" -> any_to_v8(v)
      [] ty.k \in MagicOut -> magic_to_v8(ty, v)
      [] OTHER -> SvErr
-----------------------------------------------------------------------------
(* JavaScript to Rust.                                                     *)

UWrapTo(w, i) == i % 2^w
SWrapTo(w, i) == ((i + 2^(w - 1)) % 2^w) - 2^(w - 1)
Whole0(h) == IF h >= 0 THEN h \div 2 ELSE -((-h) \div 2)
Between(lo, hi, i) == IF i < lo THEN lo ELSE IF i > hi THEN hi ELSE i

WidthOf(k) == IF k \in {"u8", "i8"} THEN SvW8 ELSE SvW64

(* `as` saturates a Number and truncates the 64 bits of a BigInt.          *)
deserialize_unsigned(k, j) ==
    CASE j.t = "num" -> SvOk(Rust(Between(0, 2^WidthOf(k) - 1, Whole0(j.n)), <<>>))
      [] j.t = "big" -> SvOk(Rust(UWrapTo(WidthOf(k), UWrapTo(SvW64, j.n)), <<>>))
      [] OTHER -> SvErr

deserialize_signed(k, j) ==
    LET top == 2^(WidthOf(k) - 1)
    IN CASE j.t = "num" -> SvOk(Rust(Between(-top, top - 1, Whole0(j.n)), <<>>))
         [] j.t = "big" -> SvOk(Rust(SWrapTo(WidthOf(k), SWrapTo(SvW64, j.n)), <<>>))
         [] OTHER -> SvErr

(* A BigInt of more than 16 words is infinite; these are all shorter.      *)
deserialize_f64(j) == IF j.t = "num" THEN SvOk(Rust(j.n, <<>>))
                      ELSE IF j.t = "big" THEN SvOk(Rust(AsF64(j.n), <<>>)) ELSE SvErr

deserialize_string(j) == IF j.t \in {"str", "strobj"} THEN SvOk(Rust(0, to_utf8(j.s))) ELSE SvErr

(* Views and buffers, unless the store is resizable or shared.             *)
Buffers == {"view", "buf"}
v8slice_from_v8(j) == IF j.t \in Buffers THEN SvOk(Rust(0, j.s)) ELSE SvErr

(* A shared buffer cannot be detached; a resizable one can.                *)
detached_from_v8(j) == IF j.t \in Buffers \cup {"resizable"} THEN SvOk(Rust(0, j.s)) ELSE SvErr

any_from_v8(j) ==
    CASE j.t = "str" -> SvOk(Rust(3, to_utf8(j.s)))
      [] j.t = "num" -> SvOk(Rust(4, <<j.n>>))
      [] j.t = "big" -> SvOk(Rust(5, <<j.n>>))
      [] j.t = "view" -> SvOk(Rust(2, j.s))
      [] j.t \in {"true", "false"} -> SvOk(Rust(6, <<IF j.t = "true" THEN 1 ELSE 0>>))
      [] OTHER -> SvErr

string_or_buffer(j) ==
    IF v8slice_from_v8(j).k = "ok" THEN v8slice_from_v8(j) ELSE deserialize_string(j)

MagicIn == {"JsBuffer", "DetachedBuffer", "ByteString", "U16String", "StringOrBuffer", "BigInt",
            "Value", "GlobalValue", "AnyValue"}

ByteString_from_v8(j) == IF j.t = "str" /\ OneByteOnly(j.s) THEN SvOk(Rust(0, j.s)) ELSE SvErr
U16String_from_v8(j) == IF j.t = "str" THEN SvOk(Rust(0, j.s)) ELSE SvErr
BigInt_from_v8(j) == IF j.t = "big" THEN SvOk(Rust(j.n, <<>>)) ELSE SvErr

magic_from_v8(ty, j) ==
    CASE ty.k = "JsBuffer" -> v8slice_from_v8(j)
      [] ty.k = "DetachedBuffer" -> detached_from_v8(j)
      [] ty.k = "ByteString" -> ByteString_from_v8(j)
      [] ty.k = "U16String" -> U16String_from_v8(j)
      [] ty.k = "StringOrBuffer" -> string_or_buffer(j)
      [] ty.k = "BigInt" -> BigInt_from_v8(j)
      [] ty.k = "AnyValue" -> any_from_v8(j)
      [] OTHER -> SvOk(Rust(0, <<j>>))

(* Arrays and objects.                                                     *)
IsObject(j) == j.t \in {"obj", "arr", "map", "strobj", "view", "buf", "resizable", "shared"}
Undefined == Js("undefined", 0, <<>>)
Get(j, key) ==
    LET i == IF j.t = "obj" THEN SelectInSeq(j.o, LAMBDA kv : kv[1] = key) ELSE 0
    IN IF i = 0 THEN Undefined ELSE j.o[i][2]
Elements(j) == CASE j.t = "arr" -> j.e
                 [] j.t = "view" -> [i \in DOMAIN j.s |-> JsNum(2 * j.s[i])]
                 [] j.t = "strobj" -> [i \in DOMAIN j.s |-> Js("str", 0, <<j.s[i]>>)]
                 [] OTHER -> <<>>
GetIndex(j, i) == IF i \in DOMAIN Elements(j) THEN Elements(j)[i] ELSE Undefined

RECURSIVE deserialize(_, _)

SeqAccess(tys, j) == [i \in DOMAIN tys |-> deserialize(tys[i], GetIndex(j, i))]

deserialize_tuple(tys, j) ==
    LET parts == SeqAccess(tys, j)
    IN IF ~IsObject(j) \/ (j.t = "arr" /\ Len(j.e) # Len(tys)) THEN SvErr
       ELSE Whole(parts, Rust(0, Contents(parts)))

(* A field that is undefined is as good as missing; only an Option may be. *)
StructAccess(ty, j) ==
    [i \in DOMAIN ty.a |->
        LET val == Get(j, ty.f[i])
        IN IF val.t # "undefined" THEN deserialize(ty.a[i], val)
           ELSE IF ty.a[i].k = "option" THEN SvOk(Rust(0, <<>>)) ELSE SvErr]

deserialize_struct(ty, j) ==
    LET parts == StructAccess(ty, j)
    IN IF ~IsObject(j) THEN SvErr ELSE Whole(parts, Rust(0, Contents(parts)))

(* The own properties of an object: the indices of an array are names too, *)
(* the digits being the code units from 2 on; undefined ones are left out. *)
MapObjectAccess(j) ==
    LET indices == [i \in DOMAIN Elements(j) |-> <<<<1 + i>>, Elements(j)[i]>>]
        own == SelectSeq(IF j.t = "obj" THEN j.o ELSE indices, LAMBDA kv : kv[2].t # "undefined")
    IN [i \in DOMAIN own |-> <<Js("str", 0, own[i][1]), own[i][2]>>]

(* A Map gives its pairs, any other object its own properties.             *)
deserialize_map(ty, j) ==
    LET pairs == IF j.t = "map" THEN j.m ELSE MapObjectAccess(j)
        ks == [i \in DOMAIN pairs |-> deserialize(ty.a[1], pairs[i][1])]
        vs == [i \in DOMAIN pairs |-> deserialize(ty.a[2], pairs[i][2])]
    IN IF ~IsObject(j) THEN SvErr
       ELSE Whole(ks \o vs, Rust(0, [i \in DOMAIN pairs |-> <<Contents(ks)[i], Contents(vs)[i]>>]))

VariantDeserializer(ty, i, payload) ==
    LET var == ty.a[i]
        r == CASE var.k = "unit" -> SvOk(Rust(0, <<>>))
               [] var.k = "newtype" -> LET p == deserialize(var.a[1], payload)
                                       IN Whole(<<p>>, Rust(0, Contents(<<p>>)))
               [] var.k = "tuple" -> deserialize_tuple(var.a, payload)
               [] OTHER -> deserialize_struct(var, payload)
    IN IF r.k = "ok" THEN SvOk(Rust(i, r.x.s)) ELSE r

deserialize_enum(ty, j) ==
    LET named(u) == SelectInSeq(ty.f, LAMBDA n : n = to_utf8(u))
        tag == IF j.t \in {"str", "strobj"} THEN j.s ELSE IF j.t = "obj" /\ Len(j.o) = 1 THEN j.o[1][1] ELSE <<>>
        payload == IF j.t = "obj" /\ Len(j.o) = 1 THEN j.o[1][2] ELSE Undefined
    IN IF ~(j.t = "str" \/ IsObject(j)) \/ tag = <<>> \/ named(tag) = 0 THEN SvErr
       ELSE VariantDeserializer(ty, named(tag), payload)

(* Loosely typed values; ValueType::from_v8 panics on what it cannot place.*)
deserialize_any(j) ==
    CASE j.t = "big" -> SvErr
      [] j.t \in {"symbol", "external"} -> SvPanic
      [] j.t \in {"resizable", "shared"} -> SvErr
      [] OTHER -> SvOk(Rust(0, <<j>>))

deserialize_option(ty, j) ==
    IF j.t \in {"null", "undefined"} THEN SvOk(Rust(0, <<>>))
    ELSE LET p == deserialize(ty.a[1], j) IN Whole(<<p>>, Rust(1, Contents(<<p>>)))

deserialize_newtype(ty, j) ==
    LET p == deserialize(ty.a[1], j) IN Whole(<<p>>, Rust(0, Contents(<<p>>)))

deserialize_seq(ty, j) ==
    LET es == SeqAccess([i \in DOMAIN j.e |-> ty.a[1]], j)
    IN IF j.t # "arr" THEN SvErr ELSE Whole(es, Rust(0, Contents(es)))

deserialize(ty, j) ==
    CASE ty.k \in {"u8", "u64"} -> deserialize_unsigned(ty.k, j)
      [] ty.k \in {"i8", "i64"} -> deserialize_signed(ty.k, j)
      [] ty.k = "f64" -> deserialize_f64(j)
      [] ty.k = "bool" -> SvOk(Rust(IF j.t = "true" THEN 1 ELSE 0, <<>>))
      [] ty.k = "str" -> deserialize_string(j)
      [] ty.k = "char" -> LET r == deserialize_string(j)
                          IN IF r.k = "ok" /\ Len(r.x.s) # 1 THEN SvErr ELSE r
      [] ty.k = "bytes" -> v8slice_from_v8(j)
      [] ty.k = "unit" -> SvOk(Rust(0, <<>>))
      [] ty.k = "option" -> deserialize_option(ty, j)
      [] ty.k = "newtype" -> deserialize_newtype(ty, j)
      [] ty.k = "seq" -> deserialize_seq(ty, j)
      [] ty.k = "tuple" -> deserialize_tuple(ty.a, j)
      [] ty.k = "struct" -> deserialize_struct(ty, j)
      [] ty.k = "map" -> deserialize_map(ty, j)
      [] ty.k = "enum" -> deserialize_enum(ty, j)
      [] ty.k = "any" -> deserialize_any(j)
      [] ty.k \in MagicIn -> magic_from_v8(ty, j)
      [] OTHER -> SvErr
-----------------------------------------------------------------------------
(* The conversions as steps.                                               *)

NoRust == [k |-> "none"]

SvInit ==
    \/ \E p \in SvRust : sv = [phase |-> "rust", ty |-> p[1], v |-> SvOk(p[2]), j |-> SvErr,
                                  first |-> NoRust]
    \/ \E p \in SvJs : sv = [phase |-> "js", ty |-> p[1], v |-> SvErr, j |-> SvOk(p[2]),
                                first |-> NoRust]

(* serde_v8::to_v8 of what Rust holds.                                     *)
to_v8 == /\ sv.phase = "rust" /\ sv.v.k = "ok"
         /\ sv' = [sv EXCEPT !.phase = "js", !.j = serialize(sv.ty, sv.v.x), !.first = sv.v]

(* serde_v8::from_v8 of what JavaScript holds; what was read may be sent   *)
(* back once.                                                              *)
from_v8 == /\ sv.phase = "js" /\ sv.j.k = "ok"
           /\ sv' = [sv EXCEPT !.phase = IF sv.first = NoRust THEN "rust" ELSE "done",
                               !.v = deserialize(sv.ty, sv.j.x)]

SvNext == to_v8 \/ from_v8
-----------------------------------------------------------------------------
(* Properties.                                                             *)

(* Options and units share null, and three magic types go one way only.    *)
RECURSIVE TwoWay(_)
TwoWay(ty) == /\ ty.k \notin {"any", "JsBuffer", "ToJsBuffer", "ExternalPointer", "StringOrBuffer"}
              /\ ty.k = "option" => ty.a[1].k \notin {"option", "unit", "Value"}
              /\ \A i \in DOMAIN ty.a : TwoWay(ty.a[i])

(* What Rust sends to JavaScript it reads back unchanged, and what it read *)
(* from any JavaScript value it reads again after sending it: 64-bit       *)
(* integers around the safe range, characters of every length, enums of    *)
(* every shape, fields that are undefined.                                 *)
RoundTrips ==
    sv.phase = "done" /\ TwoWay(sv.ty) => sv.v = sv.first

(* "an expressive but ~maximally efficient encoding layer to biject rust & *)
(* v8/js values": encoding never panics, whatever was decoded.             *)
(* (It does not hold: some decodable values have no encoding.)             *)
Bijects == sv.j.k # "panic"
=============================================================================

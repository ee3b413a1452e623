------------------------------- MODULE AscHeap -------------------------------
(***************************************************************************)
(* The values a host and an AssemblyScript mapping exchange through wasm   *)
(* memory: the arena the host allocates from (WasmInstanceContext),        *)
(* object headers (massbit/src/runtime/asc_ptr.rs), the layouts of the     *)
(* api versions 0.0.4 and 0.0.5 (runtime/wasm/src/asc_abi) and the         *)
(* conversions of store values, entities and numbers (to_from).            *)
(*                                                                         *)
(* Memory is a sequence of bytes.  The mapping allocates from the same     *)
(* memory and fills what it allocates.  Numeric host functions read their  *)
(* arguments from memory and leave their result there: BigInt and          *)
(* BigDecimal (massbit/src/data/store/scalar.rs) and the functions on them *)
(* in runtime/wasm/src/host_exports.rs.  A BigInt is an integer, a         *)
(* BigDecimal is int_val * 10^-scale.                                      *)
(***************************************************************************)
EXTENDS Integers, Sequences, FiniteSets, SequencesExt

CONSTANTS
    Inputs,           \* a sequence of [ty, v]: what the host hands to the mapping
    GuestSizes,       \* sizes the mapping allocates
    MIN_ARENA_SIZE,   \* 10 000 in the code
    Page,             \* memory grows by whole pages
    MaxObjects,       \* bound: objects and host calls
    MaxGuest,         \* bound: allocations of the mapping
    MAX_SIGNFICANT_DIGITS, MIN_EXP, MAX_EXP,  \* 34 digits, -6143..6144 in the code
    DivisionDigits,   \* the precision of the decimal library's division
    WordBytes,        \* bytes of a U256
    Failed            \* DeterministicHostError

VARIABLES
    heap,      \* memory, arena_start_ptr, arena_free_size, version, brk
    objects,   \* what was put: [ty, v, ptr]
    guest,     \* what the mapping allocated: [ptr, size]
    calls      \* numeric host calls that returned: [f, x, y, ptr]

ascVars == <<heap, objects, guest, calls>>

-----------------------------------------------------------------------------
(* Numbers. *)
Sgn(n) == IF n < 0 THEN -1 ELSE IF n = 0 THEN 0 ELSE 1
Abs(n) == IF n < 0 THEN -n ELSE n
LeastNat(P(_), bound) == CHOOSE k \in 0..bound : P(k) /\ \A j \in 0..(k - 1) : ~P(j)

-----------------------------------------------------------------------------
(* num_bigint: division truncates, the right shift rounds down. *)
Quotient(x, y) == Sgn(x) * Sgn(y) * (Abs(x) \div Abs(y))
Remainder(x, y) == x - y * Quotient(x, y)

\* Two's complement, least significant byte first, no byte more than needed.
to_signed_bytes_le(n) ==
    LET fits(k) == -(128 * 256^k) <= n /\ n < 128 * 256^k
        size == LeastNat(fits, 2) + 1
        m == IF n < 0 THEN n + 256^size ELSE n
    IN  [i \in 1..size |-> (m \div 256^(i - 1)) % 256]

from_unsigned_bytes_le(bytes) ==
    FoldRight(LAMBDA b, n : b + 256 * n, bytes, 0)

\* The highest byte carries the sign.
from_signed_bytes_le(bytes) ==
    FoldRight(LAMBDA b, n : b + 256 * n, bytes,
              IF bytes # <<>> /\ Last(bytes) >= 128 THEN -1 ELSE 0)

Zeros(n) == [i \in 1..n |-> 0]

(* A U256 is the sequence of its WordBytes bytes. *)
from_unsigned_u256(word) == from_unsigned_bytes_le(word)
from_signed_u256(word) == from_signed_bytes_le(word)

to_signed_u256(n) ==
    LET bytes == to_signed_bytes_le(n)
    IN  IF Len(bytes) > WordBytes THEN Failed
        ELSE bytes \o [i \in 1..(WordBytes - Len(bytes)) |-> IF n < 0 THEN 255 ELSE 0]

\* to_bytes_le: the magnitude.
Magnitude(n) ==
    LET size == LeastNat(LAMBDA k : Abs(n) < 256^(k + 1), 2) + 1
    IN  [i \in 1..size |-> (Abs(n) \div 256^(i - 1)) % 256]

to_unsigned_u256(n) ==
    IF n < 0 \/ Len(Magnitude(n)) > WordBytes THEN Failed
    ELSE Magnitude(n) \o Zeros(WordBytes - Len(Magnitude(n)))

big_int_divided_by(x, y) == IF y = 0 THEN Failed ELSE Quotient(x, y)
big_int_mod(x, y) == IF y = 0 THEN Failed ELSE Remainder(x, y)
big_int_plus(x, y) == x + y
big_int_minus(x, y) == x - y
big_int_times(x, y) == x * y
\* Exponents and shifts are u8: a larger argument is a deterministic error.
big_int_pow(x, exp) == IF exp > 255 THEN Failed ELSE IF exp = 0 THEN 1 ELSE x^exp
big_int_left_shift(x, bits) == IF bits > 255 THEN Failed ELSE x * 2^bits
big_int_right_shift(x, bits) == IF bits > 255 THEN Failed ELSE x \div 2^bits

-----------------------------------------------------------------------------
(* bigdecimal. *)
digits(n) == LeastNat(LAMBDA k : Abs(n) < 10^(k + 1), 9) + 1

\* 1 when the leading digit of n is 5 or more.
get_rounding_term(n) == IF n > 0 /\ n \div 10^(digits(n) - 1) >= 5 THEN 1 ELSE 0

\* The remainder of a negative number is negative and never rounded.
with_prec(d, prec) ==
    LET diff == digits(d.int_val) - prec
        p == 10^Abs(diff)
        q == Quotient(d.int_val, p)
        r == Remainder(d.int_val, p)
    IN  CASE diff > 0 -> [int_val |-> q + (IF p < 10 * r THEN get_rounding_term(r) ELSE 0),
                          scale |-> d.scale - diff]
          [] diff = 0 -> d
          [] diff < 0 -> [int_val |-> d.int_val * p, scale |-> d.scale - diff]

Zero == [int_val |-> 0, scale |-> 0]

normalized(d) ==
    IF d.int_val = 0 THEN Zero
    ELSE LET w == with_prec(d, MAX_SIGNFICANT_DIGITS)
             trailing == LeastNat(LAMBDA k : w.int_val % 10^(k + 1) # 0, 9)
         IN  [int_val |-> Quotient(w.int_val, 10^trailing), scale |-> w.scale - trailing]

\* BigDecimal::new.
NewDecimal(n, exp) == normalized([int_val |-> n, scale |-> -exp])

LargerScale(x, y) == IF x.scale > y.scale THEN x.scale ELSE y.scale
AtScale(x, s) == x.int_val * 10^(s - x.scale)

big_decimal_plus(x, y) ==
    LET s == LargerScale(x, y)
    IN  normalized([int_val |-> AtScale(x, s) + AtScale(y, s), scale |-> s])
big_decimal_minus(x, y) ==
    LET s == LargerScale(x, y)
    IN  normalized([int_val |-> AtScale(x, s) - AtScale(y, s), scale |-> s])
big_decimal_times(x, y) ==
    normalized([int_val |-> x.int_val * y.int_val, scale |-> x.scale + y.scale])

\* Digit by digit until nothing is left or DivisionDigits are known.
Division(x, y) ==
    LET n == Abs(x.int_val)
        m == Abs(y.int_val)
        enough(s) == \/ (n * 10^s) % m = 0
                     \/ digits((n * 10^s) \div m) >= DivisionDigits /\ n * 10^s >= m
        s == LeastNat(enough, 6)
        q == (n * 10^s) \div m
        r == (n * 10^s) % m
    IN  [int_val |-> Sgn(x.int_val) * Sgn(y.int_val)
                     * (q + get_rounding_term((10 * r) \div m)),
         scale |-> x.scale - y.scale + s]

big_decimal_divided_by(x, y) ==
    IF y.int_val = 0 THEN Failed
    ELSE IF x.int_val = 0 THEN Zero ELSE normalized(Division(x, y))

big_decimal_equals(x, y) ==
    LET s == LargerScale(x, y) IN AtScale(x, s) = AtScale(y, s)

-----------------------------------------------------------------------------
(* The arena. *)
RoundUp(n, k) == ((n + k - 1) \div k) * k

\* The allocator of the module, external.  Since 0.0.5 a block is preceded by
\* its 4 byte mmInfo and takes a multiple of 16 bytes with it.
BlockStart(h) == IF h.version = 4 THEN RoundUp(h.brk, 8) ELSE RoundUp(h.brk + 4, 16)
BlockSize(h, size) == IF h.version = 4 THEN RoundUp(size, 8) ELSE RoundUp(size + 4, 16) - 4
memory_allocate(h, size) ==
    LET end == BlockStart(h) + BlockSize(h, size)
    IN  [h EXCEPT !.brk = end, !.memory = @ \o Zeros(RoundUp(end, Page) - Len(@))]

Written(mem, ptr, bytes) ==
    SubSeq(mem, 1, ptr) \o bytes \o SubSeq(mem, ptr + Len(bytes) + 1, Len(mem))

NewArena(h, size) ==
    LET arena_size == IF size > MIN_ARENA_SIZE THEN size ELSE MIN_ARENA_SIZE
        offset == IF h.version = 4 THEN 0 ELSE 12
    IN  [memory_allocate(h, arena_size) EXCEPT
            !.arena_start_ptr = BlockStart(h) + offset, !.arena_free_size = arena_size - offset]

\* The arena the bytes go to: the current one if they fit.
ArenaFor(h, size) == IF size > h.arena_free_size THEN NewArena(h, size) ELSE h

\* A plausible bug: the arena pointer stays where it was.
Placed_Overlaps(a, bytes) ==
    [ptr |-> a.arena_start_ptr,
     heap |-> [a EXCEPT !.memory = Written(@, a.arena_start_ptr, bytes),
                        !.arena_free_size = @ - Len(bytes)]]

Placed(a, bytes) ==
    [ptr |-> a.arena_start_ptr,
     heap |-> [a EXCEPT !.memory = Written(@, a.arena_start_ptr, bytes),
                        !.arena_start_ptr = @ + Len(bytes),
                        !.arena_free_size = @ - Len(bytes)]]

raw_new(h, bytes) == Placed(ArenaFor(h, Len(bytes)), bytes)

get(h, offset, size) ==
    IF offset + size > Len(h.memory) THEN Failed ELSE SubSeq(h.memory, offset + 1, offset + size)

-----------------------------------------------------------------------------
(* AscPtr. *)

\* What follows an allocation goes on in the heap it left.
Then(r, next(_, _)) == next(r.heap, r.ptr)

\* The ? of the code: what follows is not reached from a failure.
Got(x, next(_)) == IF x = Failed THEN Failed ELSE next(x)

U32(n) == [i \in 1..4 |-> (n \div 256^(i - 1)) % 256]
Field(bytes, i) == from_unsigned_bytes_le(SubSeq(bytes, 4 * i - 3, 4 * i))

padding_to_16(len) == (16 - ((20 + len) % 16)) % 16

\* mm_info, two words of the collector, the class, the size of the content.
generate_header(content_length, full_length) ==
    U32(16 + full_length) \o Zeros(12) \o U32(content_length)

\* content_length is the length before padding where the class says so.
alloc_obj(h, bytes, content_length) ==
    LET padded == bytes \o Zeros(padding_to_16(Len(bytes)))
        header == generate_header(IF content_length = Failed THEN Len(padded) ELSE content_length,
                                  Len(padded))
    IN  IF h.version = 4 THEN raw_new(h, bytes)
        ELSE [raw_new(h, header \o padded) EXCEPT !.ptr = @ + Len(header)]

\* A derived struct: its fields, and the whole of the object as its length.
alloc_struct(h, bytes) == alloc_obj(h, bytes, Failed)

read_u32(h, ptr) == Got(get(h, ptr, 4), LAMBDA bytes : Field(bytes, 1))
read_len(h, ptr) == IF ptr < 4 THEN Failed ELSE read_u32(h, ptr - 4)

\* size: asc_size of the class, which only 0.0.4 uses.
read_ptr(h, ptr, size) ==
    Got(IF h.version = 4 THEN size ELSE read_len(h, ptr), LAMBDA len : get(h, ptr, len))

\* asc_size of a class whose objects begin with their length.
SizeByLength(h, ptr, size(_)) ==
    IF h.version = 4 THEN Got(read_u32(h, ptr), size) ELSE Failed

-----------------------------------------------------------------------------
(* ArrayBuffer, AscString, TypedArray<u8>, Array<AscPtr<_>>. *)
next_power_of_two(n) == 2^LeastNat(LAMBDA k : 2^k >= n, 12)
ToPowerOfTwo(bytes, header) ==
    bytes \o Zeros(next_power_of_two(Len(bytes) + header) - (Len(bytes) + header))

new_buffer(h, content) ==
    IF h.version = 4
    THEN alloc_obj(h, ToPowerOfTwo(U32(Len(content)) \o Zeros(4) \o content, 0), Failed)
    ELSE alloc_obj(h, ToPowerOfTwo(content, 20), Len(content))

\* So many bytes from the offset; a buffer may be shorter.
buffer_get(h, buffer, offset, bytes) ==
    LET end(content) == IF offset + bytes < Len(content) THEN offset + bytes ELSE Len(content)
        part(content) == SubSeq(content, offset + 1, end(content))
    IN  Got(read_ptr(h, buffer, SizeByLength(h, buffer, LAMBDA n : 8 + n)),
            LAMBDA obj : part(IF h.version = 4 THEN SubSeq(obj, 9, Len(obj)) ELSE obj))

new_typed_array(h, bytes) ==
    Then(new_buffer(h, bytes), LAMBDA g, buffer :
        alloc_struct(g, U32(buffer) \o U32(IF h.version = 4 THEN 0 ELSE buffer) \o U32(Len(bytes))))

\* The enum over both versions is 16 bytes, more than either object.
get_typed_array(h, ptr) ==
    LET start(obj) == Field(obj, 2) - (IF h.version = 4 THEN 0 ELSE Field(obj, 1))
    IN  Got(read_ptr(h, ptr, 16),
            LAMBDA obj : buffer_get(h, Field(obj, 1), start(obj), Field(obj, 3)))

new_array(h, ptrs) ==
    Then(new_buffer(h, FlattenSeq([i \in DOMAIN ptrs |-> U32(ptrs[i])])), LAMBDA g, buffer :
        alloc_struct(g,
            IF h.version = 4 THEN U32(buffer) \o U32(Len(ptrs))
            ELSE U32(buffer) \o U32(buffer) \o U32(read_len(g, buffer)) \o U32(Len(ptrs))))

get_array(h, ptr) ==
    LET length(obj) == Field(obj, IF h.version = 4 THEN 2 ELSE 4)
        start(obj) == IF h.version = 4 THEN 0 ELSE Field(obj, 2) - Field(obj, 1)
    IN  Got(Got(read_ptr(h, ptr, 20),
                LAMBDA obj : buffer_get(h, Field(obj, 1), start(obj), 4 * length(obj))),
            LAMBDA content : [i \in 1..(Len(content) \div 4) |-> Field(content, i)])

\* UTF-16 units.
new_string(h, units) ==
    LET content == FlattenSeq([i \in DOMAIN units |-> <<units[i] % 256, units[i] \div 256>>])
    IN  IF h.version = 4 THEN alloc_obj(h, U32(Len(units)) \o content, Failed)
        ELSE alloc_obj(h, ToPowerOfTwo(content, 20), Len(content))

\* Null characters are stripped: Postgres takes none.
get_string(h, ptr) ==
    LET units(content) ==
            IF Len(content) % 2 # 0 THEN Failed
            ELSE SelectSeq([i \in 1..(Len(content) \div 2) |->
                                content[2 * i - 1] + 256 * content[2 * i]], LAMBDA u : u # 0)
    IN  Got(read_ptr(h, ptr, SizeByLength(h, ptr, LAMBDA n : 4 + 2 * n)),
            LAMBDA obj : units(IF h.version = 4 THEN SubSeq(obj, 5, Len(obj)) ELSE obj))

-----------------------------------------------------------------------------
(* to_from: asc_new and asc_get by the type of the value.                  *)
(* A store Value is [kind, data].                                          *)
StoreValueKind == <<"String", "Int", "BigDecimal", "Bool", "Array", "Null", "Bytes", "BigInt">>

\* EnumPayload: 64 bits, an i32 sign extended.
SignExtended(n) == [i \in 1..8 |-> IF i <= 4 THEN (n \div 256^(i - 1)) % 256
                                   ELSE IF n < 0 THEN 255 ELSE 0]

new_bigint(h, n) == new_typed_array(h, to_signed_bytes_le(n))

\* A decimal allocates its exponent first; an entry its key.
new_decimal(h, d) ==
    Then(new_bigint(h, -d.scale), LAMBDA g, exp :
        Then(new_bigint(g, d.int_val), LAMBDA k, val : alloc_struct(k, U32(val) \o U32(exp))))

new_payload(h, kind, data) ==
    CASE kind = "String" -> new_string(h, data)
      [] kind = "BigDecimal" -> new_decimal(h, data)
      [] kind = "Bytes" -> new_typed_array(h, data)
      [] kind = "BigInt" -> new_bigint(h, data)

\* The elements one after the other, then the array of their pointers.
new_list(new(_, _), h, vs) ==
    Then(FoldLeft(LAMBDA acc, v : Then(new(acc.heap, v), LAMBDA g, p :
                                          [heap |-> g, ptr |-> Append(acc.ptr, p)]),
                  [heap |-> h, ptr |-> <<>>], vs),
         new_array)

RECURSIVE new_value(_, _)
new_values(h, vs) == new_list(LAMBDA g, e : new_value(g, e), h, vs)

new_value(h, v) ==
    LET kind == U32((CHOOSE k \in DOMAIN StoreValueKind : StoreValueKind[k] = v.kind) - 1) \o Zeros(4)
        inline == CASE v.kind = "Int" -> SignExtended(v.data)
                    [] v.kind = "Bool" -> SignExtended(IF v.data THEN 1 ELSE 0)
                    [] v.kind = "Null" -> Zeros(8)
    IN  IF v.kind \in {"Int", "Bool", "Null"} THEN alloc_struct(h, kind \o inline)
        ELSE Then(IF v.kind = "Array" THEN new_values(h, v.data)
                  ELSE new_payload(h, v.kind, v.data),
                  LAMBDA g, p : alloc_struct(g, kind \o U32(p) \o Zeros(4)))

new_entry(h, e) ==
    Then(new_string(h, e.key), LAMBDA g, key :
        Then(new_value(g, e.value), LAMBDA k, value : alloc_struct(k, U32(key) \o U32(value))))

new_entity(h, entries) ==
    Then(new_list(new_entry, h, entries), LAMBDA g, p : alloc_struct(g, U32(p)))

asc_new(h, ty, v) ==
    CASE ty = "string" -> new_string(h, v)
      [] ty = "bytes" -> new_typed_array(h, v)
      [] ty = "bigint" -> new_bigint(h, v)
      [] ty = "decimal" -> new_decimal(h, v)
      [] ty = "entity" -> new_entity(h, v)

get_bigint(h, ptr) == Got(get_typed_array(h, ptr), from_signed_bytes_le)

\* The exponent is validated after the value is normalised.
InRange(d) == IF -d.scale \in MIN_EXP..MAX_EXP THEN d ELSE Failed

get_decimal(h, ptr) ==
    Got(read_ptr(h, ptr, 8), LAMBDA obj :
        Got(get_bigint(h, Field(obj, 1)), LAMBDA val :
            Got(get_bigint(h, Field(obj, 2)), LAMBDA exp : InRange(NewDecimal(val, exp)))))

get_payload(h, kind, ptr) ==
    CASE kind = "String" -> get_string(h, ptr)
      [] kind = "BigDecimal" -> get_decimal(h, ptr)
      [] kind = "Bytes" -> get_typed_array(h, ptr)
      [] kind = "BigInt" -> get_bigint(h, ptr)

AllGot(seq) == IF \E i \in DOMAIN seq : seq[i] = Failed THEN Failed ELSE seq

get_list(element(_, _), h, ptr) ==
    Got(get_array(h, ptr), LAMBDA ptrs : AllGot([i \in DOMAIN ptrs |-> element(h, ptrs[i])]))

RECURSIVE get_value(_, _)
get_values(h, ptr) == get_list(LAMBDA g, p : get_value(g, p), h, ptr)

get_value(h, ptr) ==
    LET kind(obj) == StoreValueKind[Field(obj, 1) + 1]
        data(obj) == CASE kind(obj) = "Int" -> from_signed_bytes_le(SubSeq(obj, 9, 12))
                       [] kind(obj) = "Bool" -> SubSeq(obj, 9, 16) # Zeros(8)
                       [] kind(obj) = "Null" -> 0
                       [] kind(obj) = "Array" -> get_values(h, Field(obj, 3))
                       [] OTHER -> get_payload(h, kind(obj), Field(obj, 3))
    IN  Got(read_ptr(h, ptr, 16), LAMBDA obj :
            Got(data(obj), LAMBDA d : [kind |-> kind(obj), data |-> d]))

get_entry(h, ptr) ==
    Got(read_ptr(h, ptr, 8), LAMBDA obj :
        Got(get_string(h, Field(obj, 1)), LAMBDA key :
            Got(get_value(h, Field(obj, 2)), LAMBDA value : [key |-> key, value |-> value])))

get_entity(h, ptr) ==
    Got(read_ptr(h, ptr, 4), LAMBDA obj : get_list(get_entry, h, Field(obj, 1)))

asc_get(h, ty, ptr) ==
    CASE ty = "string" -> get_string(h, ptr)
      [] ty = "bytes" -> get_typed_array(h, ptr)
      [] ty = "bigint" -> get_bigint(h, ptr)
      [] ty = "decimal" -> get_decimal(h, ptr)
      [] ty = "entity" -> get_entity(h, ptr)

-----------------------------------------------------------------------------
(* Steps. *)
AscInit ==
    /\ \E version \in {4, 5} :
         heap = [memory |-> <<>>, arena_start_ptr |-> 0, arena_free_size |-> 0,
                 version |-> version, brk |-> 8]   \* after the module's data
    /\ objects = <<>> /\ guest = <<>> /\ calls = <<>>

HostNew(input) ==
    /\ Len(objects) < MaxObjects /\ calls = <<>>
    /\ \E r \in {asc_new(heap, input.ty, input.v)} :
         /\ heap' = r.heap
         /\ objects' = Append(objects, [ty |-> input.ty, v |-> input.v, ptr |-> r.ptr])
    /\ UNCHANGED <<guest, calls>>

\* The mapping allocates and fills a block of its own, its mmInfo included.
GuestNew(size) ==
    LET h == memory_allocate(heap, size)
        fill == [i \in 1..(size + 4) |-> 170]
    IN  /\ Len(guest) < MaxGuest /\ calls = <<>>
        /\ heap' = [h EXCEPT !.memory = Written(@, BlockStart(heap) - (IF h.version = 4 THEN 0 ELSE 4),
                                   IF h.version = 4 THEN SubSeq(fill, 1, size) ELSE fill)]
        /\ guest' = Append(guest, [ptr |-> BlockStart(heap), size |-> size])
        /\ UNCHANGED <<objects, calls>>

IntFunctions == {"plus", "minus", "times", "divided_by", "mod"}
DecimalFunctions == {"d_plus", "d_minus", "d_times", "d_divided_by"}
ShiftFunctions == {"pow", "left_shift", "right_shift"}

Apply(f, x, y) ==
    CASE f = "plus" -> big_int_plus(x, y)
      [] f = "minus" -> big_int_minus(x, y)
      [] f = "times" -> big_int_times(x, y)
      [] f = "divided_by" -> big_int_divided_by(x, y)
      [] f = "mod" -> big_int_mod(x, y)
      [] f = "d_plus" -> big_decimal_plus(x, y)
      [] f = "d_minus" -> big_decimal_minus(x, y)
      [] f = "d_times" -> big_decimal_times(x, y)
      [] f = "d_divided_by" -> big_decimal_divided_by(x, y)
      [] f = "pow" -> big_int_pow(x, y)
      [] f = "left_shift" -> big_int_left_shift(x, y)
      [] f = "right_shift" -> big_int_right_shift(x, y)

new_number(h, ty, n) == IF ty = "bigint" THEN new_bigint(h, n) ELSE new_decimal(h, n)
get_number(h, ty, ptr) == IF ty = "bigint" THEN get_bigint(h, ptr) ELSE get_decimal(h, ptr)

\* What a function of the host computes from the numbers at px and py; a shift
\* and a power take the second one as it is.
Computed(f, ty, px, py) ==
    Got(get_number(heap, ty, px), LAMBDA x :
        Got(IF f \in ShiftFunctions THEN py ELSE get_number(heap, ty, py), LAMBDA y : Apply(f, x, y)))

\* A function of the host: read, compute, leave the result.  A failure ends
\* the handler.
HostCall(f, ty, px, py) ==
    /\ calls = <<>>
    /\ \E z \in {Computed(f, ty, px, py)} \ {Failed} :
         \E r \in {new_number(heap, ty, z)} :
             /\ heap' = r.heap
             /\ calls' = << [f |-> f, x |-> px, y |-> py, ty |-> ty, ptr |-> r.ptr] >>
    /\ UNCHANGED <<objects, guest>>

OfType(ty) == {objects[i].ptr : i \in {j \in DOMAIN objects : objects[j].ty = ty}}

AscNext ==
    \/ \E i \in DOMAIN Inputs : HostNew(Inputs[i])
    \/ \E size \in GuestSizes : GuestNew(size)
    \/ \E f \in IntFunctions, x, y \in OfType("bigint") : HostCall(f, "bigint", x, y)
    \/ \E f \in ShiftFunctions, x \in OfType("bigint"), n \in {0, 1, 2, 256} : HostCall(f, "bigint", x, n)
    \/ \E f \in DecimalFunctions, x, y \in OfType("decimal") : HostCall(f, "decimal", x, y)

-----------------------------------------------------------------------------
(* A value as it is read back. *)
CanonicalString(units) == SelectSeq(units, LAMBDA u : u # 0)
CanonicalDecimal(d) == InRange(normalized(d))

RECURSIVE CanonicalValue(_)
CanonicalValue(v) ==
    [kind |-> v.kind,
     data |-> CASE v.kind = "String" -> CanonicalString(v.data)
                [] v.kind = "BigDecimal" -> CanonicalDecimal(v.data)
                [] v.kind = "Array" -> [i \in DOMAIN v.data |-> CanonicalValue(v.data[i])]
                [] OTHER -> v.data]

Canonical(ty, v) ==
    CASE ty = "string" -> CanonicalString(v)
      [] ty = "decimal" -> CanonicalDecimal(v)
      [] ty = "entity" -> [i \in DOMAIN v |-> [key   |-> CanonicalString(v[i].key),
                                               value |-> CanonicalValue(v[i].value)]]
      [] OTHER -> v

\* Whatever is allocated later, by the host or by the mapping, every value the
\* host put reads back as it was put: strings without null characters,
\* decimals in normal form, a decimal with an exponent out of range as an
\* error.  In 0.0.4 the read of an array object asks for more bytes than the
\* object has; it fails where memory ends right behind it.
ReadsBack ==
    \A i \in DOMAIN objects :
        LET o == objects[i]
            got == asc_get(heap, o.ty, o.ptr)
        IN  \/ got = Canonical(o.ty, o.v)
            \/ heap.version = 4 /\ got = Failed /\ Len(heap.memory) < heap.brk + 12

\* The host never writes into what the mapping allocated.  Since 0.0.5 an
\* arena gives away its first 12 bytes without having asked for them; that
\* the last object still ends within the block depends on every object being
\* padded to a multiple of 16.
GuestIntact ==
    \A i \in DOMAIN guest :
        LET g == guest[i]
            first == IF heap.version = 4 THEN g.ptr + 1 ELSE g.ptr - 3
        IN  \A b \in first..(g.ptr + g.size) : heap.memory[b] = 170

\* Every object the host allocates since 0.0.5 starts at a multiple of 16, as
\* the mapping's own do.
Aligned16 ==
    heap.version = 5 =>
        /\ \A i \in DOMAIN objects : objects[i].ptr % 16 = 0
        /\ \A i \in DOMAIN calls : calls[i].ptr % 16 = 0

\* The exact result of a decimal function as a fraction num / (den * 10^s).
Exact(f, x, y) ==
    LET s == LargerScale(x, y)
    IN  CASE f = "d_plus" -> [num |-> AtScale(x, s) + AtScale(y, s), den |-> 1, s |-> s]
          [] f = "d_minus" -> [num |-> AtScale(x, s) - AtScale(y, s), den |-> 1, s |-> s]
          [] f = "d_times" -> [num |-> x.int_val * y.int_val, den |-> 1, s |-> x.scale + y.scale]
          [] f = "d_divided_by" -> [num |-> x.int_val * Sgn(y.int_val), den |-> Abs(y.int_val),
                                    s |-> x.scale - y.scale]

\* Less than one unit of the last of MAX_SIGNFICANT_DIGITS digits away.
Close(d, e) ==
    LET full == [int_val |-> d.int_val * 10^(MAX_SIGNFICANT_DIGITS - digits(d.int_val)),
                 scale |-> d.scale + (MAX_SIGNFICANT_DIGITS - digits(d.int_val))]
        k == full.scale - e.s
    IN  IF d.int_val = 0 THEN e.num = 0
        ELSE IF k >= 0 THEN Abs(full.int_val * e.den - e.num * 10^k) < e.den
        ELSE Abs(full.int_val * e.den * 10^(-k) - e.num) < e.den * 10^(-k)

\* "All operations on BigDecimal return a normalized value" (scalar.rs:24):
\* not more than the significant digits, no trailing zero, zero with scale 0,
\* and close to the exact result.
DecimalsAreNormal ==
    \A i \in DOMAIN calls :
        LET c == calls[i]
            d == get_decimal(heap, c.ptr)
        IN  c.ty = "decimal" /\ d # Failed =>
              /\ digits(d.int_val) <= MAX_SIGNFICANT_DIGITS
              /\ IF d.int_val = 0 THEN d.scale = 0 ELSE d.int_val % 10 # 0
              /\ Close(d, Exact(c.f, get_decimal(heap, c.x), get_decimal(heap, c.y)))

\* Division truncates, the remainder has the sign of the dividend and together
\* they give the dividend back; a right shift rounds down, also below zero;
\* pow multiplies.  Results that need one byte more for the sign keep it.
IntegersAreExact ==
    \A i \in DOMAIN calls :
        LET c == calls[i]
            x == get_bigint(heap, c.x)
            y == IF c.f \in ShiftFunctions THEN c.y ELSE get_bigint(heap, c.y)
            z == get_bigint(heap, c.ptr)
        IN  c.ty = "bigint" /\ x # Failed /\ y # Failed /\ z # Failed =>
              CASE c.f = "plus" -> z - y = x
                [] c.f = "minus" -> z + y = x
                [] c.f = "times" -> IF y = 0 THEN z = 0 ELSE z \div Abs(y) = x * Sgn(y) /\ z % Abs(y) = 0
                [] c.f = "divided_by" -> /\ Abs(z * y) <= Abs(x) /\ Abs(x - z * y) < Abs(y)
                                         /\ z # 0 => Sgn(z) = Sgn(x) * Sgn(y)
                [] c.f = "mod" -> /\ Abs(z) < Abs(y) /\ (x - z) % Abs(y) = 0
                                  /\ z # 0 => Sgn(z) = Sgn(x)
                [] c.f = "right_shift" -> z * 2^y <= x /\ x < (z + 1) * 2^y
                [] c.f = "left_shift" -> z \div 2^y = x /\ z % 2^y = 0
                [] c.f = "pow" -> z = (IF y = 0 THEN 1 ELSE x * big_int_pow(x, y - 1))

\* A U256 word read as a signed or as an unsigned number goes back to the same
\* word, and a number that does not fit is refused, as the host needs of both
\* directions of the conversion of an event's parameters.
WordsKeepTheirMeaning ==
    objects = <<>> /\ guest = <<>> =>
        /\ \A w \in [1..WordBytes -> {0, 1, 127, 128, 255}] :
              /\ to_unsigned_u256(from_unsigned_u256(w)) = w
              /\ to_signed_u256(from_signed_u256(w)) = w
        /\ \A m \in {128, 128 * 256^(WordBytes - 1), 256^WordBytes}, d \in -1..1, sgn \in {-1, 1} :
              LET n == sgn * m + d
              IN  /\ to_signed_u256(n) = Failed <=> n < -(128 * 256^(WordBytes - 1)) \/ n >= 128 * 256^(WordBytes - 1)
                  /\ to_unsigned_u256(n) = Failed <=> n < 0 \/ n >= 256^WordBytes

\* What crosses between the host and the mapping arrives as it was sent: objects,
\* decimals, integers and words read back with their values, and neither side
\* writes over or misaligns what the other has (AscHeap, to_from, scalar.rs).
ValuesCrossIntact ==
    /\ ReadsBack /\ GuestIntact /\ Aligned16
    /\ DecimalsAreNormal /\ IntegersAreExact /\ WordsKeepTheirMeaning
=============================================================================

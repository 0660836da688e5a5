------------------------------- MODULE SolvMap -------------------------------
(***************************************************************************)
(* SolvMap (src/libdnf/rpm/solv/solv_map.hpp), a wrapper of a libsolv      *)
(* Map: a byte array of map.size bytes, bit id of byte id >> 3 standing    *)
(* for package id.  map_init(size) allocates (size + 7) / 8 zeroed bytes.  *)
(* The libsolv combinators act byte by byte up to the shorter operand's    *)
(* length (spec.md 4.1 and 9; libsolv is not part of this repository).     *)
(*                                                                         *)
(* The bytes are kept as nbytes[m] and the set bits[m] of ids whose bit    *)
(* is 1; cap[m] is the size the map was constructed with, which the code   *)
(* does not keep (it is there to state the spec's capacity).  Reads         *)
(* (contains, size, empty) change nothing and are operators; unchecked     *)
(* accessors are called only on ids inside the bytes (their documented     *)
(* precondition).                                                          *)
(***************************************************************************)
EXTENDS Integers, Sequences, FiniteSets, FiniteSetsExt

CONSTANTS
  Maps,             \* SolvMap objects
  Sizes,            \* sizes (in bits) the constructor is called with
  Ids,              \* PackageId values the callers pass
  AllowSelfAssign   \* the program may copy-assign a SolvMap to itself

ASSUME Sizes \subseteq Nat /\ Ids \subseteq Int

VARIABLES
  nbytes,  \* map.size
  bits,    \* the ids whose bit is set in map.map
  cap      \* the size passed to the constructor

vars == <<nbytes, bits, cap>>

(***************************************************************************)
(* BIT_COUNT_LOOKUP, built as its macros build it: B2(n) is n, n+1, n+1,   *)
(* n+2 and each level repeats the one below at n, n+1, n+1, n+2.           *)
(***************************************************************************)
RECURSIVE B(_, _)
\* Mutant: B2 written as n, n+1, n+1, n+1
BTypo(level, n) ==
  IF level = 2 THEN <<n, n + 1, n + 1, n + 1>>
  ELSE B(level - 2, n) \o B(level - 2, n + 1) \o B(level - 2, n + 1) \o B(level - 2, n + 2)

B(level, n) ==
  IF level = 2 THEN <<n, n + 1, n + 1, n + 2>>
  ELSE B(level - 2, n) \o B(level - 2, n + 1) \o B(level - 2, n + 1) \o B(level - 2, n + 2)

\* B6(0), B6(1), B6(1), B6(2); entry b of the C array is element b + 1
BIT_COUNT_LOOKUP == B(8, 0)


\* Mutant: the range check compares with <= instead of <
InRangeOffByOne(m, id) == id >= 0 /\ id <= nbytes[m] * 8

\* check_id_in_bitmap_range passes
InRange(m, id) == id >= 0 /\ id < nbytes[m] * 8

\* value of byte k of map.map
Byte(m, k) == SumSet({2 ^ (id - 8 * k) : id \in {i \in bits[m] : i \div 8 = k}})

\* Mutant: the loop stops one byte before end
sizeShort(m) == MapThenSumSet(LAMBDA k : BIT_COUNT_LOOKUP[Byte(m, k) + 1], 0 .. nbytes[m] - 2)

\* size(): add BIT_COUNT_LOOKUP[*byte] over every byte
size(m) == MapThenSumSet(LAMBDA k : BIT_COUNT_LOOKUP[Byte(m, k) + 1], 0 .. nbytes[m] - 1)

\* Mutant: MAPTST without the & 7 on the bit index
contains_unsafeNoMask(m, id) == (Byte(m, id \div 8) \div 2 ^ id) % 2 = 1

\* contains_unsafe(): MAPTST, bit (id & 7) of byte (id >> 3)
contains_unsafe(m, id) == (Byte(m, id \div 8) \div 2 ^ (id % 8)) % 2 = 1

\* contains(): false outside 0 .. map.size * 8 - 1, else contains_unsafe
contains(m, id) == id >= 0 /\ id < nbytes[m] * 8 /\ contains_unsafe(m, id)

\* empty(): no byte is non-zero
empty(m) == \A k \in 0 .. nbytes[m] - 1 : Byte(m, k) = 0

Init ==
  /\ cap \in [Maps -> Sizes]
  /\ nbytes = [m \in Maps |-> (cap[m] + 7) \div 8]
  /\ bits = [m \in Maps |-> {}]

(***************************************************************************)
(* Operations                                                              *)
(***************************************************************************)

\* SolvMap(int size): map_init, on an object slot whose old map was freed
SolvMapNew(m, n) ==
  /\ nbytes' = [nbytes EXCEPT ![m] = (n + 7) \div 8]
  /\ bits' = [bits EXCEPT ![m] = {}]
  /\ cap' = [cap EXCEPT ![m] = n]

\* get_map(): &map, the bytes and bits of m
get_map(m) == [size |-> nbytes[m], set |-> bits[m], cap |-> cap[m]]

\* SolvMap(const SolvMap & other) : SolvMap(other.get_map()), that is
\* map_init_clone(&map, other) on a fresh object slot
SolvMapCopyConstruct(m, o) ==
  /\ m # o
  /\ LET src == get_map(o) IN
       /\ nbytes' = [nbytes EXCEPT ![m] = src.size]
       /\ bits' = [bits EXCEPT ![m] = src.set]
       /\ cap' = [cap EXCEPT ![m] = src.cap]

\* operator=(const SolvMap &): map_free(&map) then map_init_clone(&map,
\* &other.map); map_free leaves size 0, so a self-assignment clones an
\* empty map
SolvMapCopy(m, o) ==
  /\ m # o \/ AllowSelfAssign
  /\ nbytes' = [nbytes EXCEPT ![m] = IF m = o THEN 0 ELSE nbytes[o]]
  /\ bits' = [bits EXCEPT ![m] = IF m = o THEN {} ELSE bits[o]]
  /\ cap' = [cap EXCEPT ![m] = IF m = o THEN 0 ELSE cap[o]]

\* operator=(SolvMap &&): std::swap(map, other.map)
SolvMapMove(m, o) ==
  /\ nbytes' = [nbytes EXCEPT ![m] = nbytes[o], ![o] = nbytes[m]]
  /\ bits' = [bits EXCEPT ![m] = bits[o], ![o] = bits[m]]
  /\ cap' = [cap EXCEPT ![m] = cap[o], ![o] = cap[m]]

\* MAPSET(&map, id)
add_unsafe(m, id) ==
  /\ bits' = [bits EXCEPT ![m] = @ \cup {id}]
  /\ UNCHANGED <<nbytes, cap>>

\* add(): check_id_in_bitmap_range throws std::out_of_range (no change)
\* outside map.size << 3, else add_unsafe
add(m, id) ==
  /\ InRange(m, id)
  /\ add_unsafe(m, id)

\* MAPCLR(&map, id)
remove_unsafe(m, id) ==
  /\ bits' = [bits EXCEPT ![m] = @ \ {id}]
  /\ UNCHANGED <<nbytes, cap>>

remove(m, id) ==
  /\ InRange(m, id)
  /\ remove_unsafe(m, id)

\* clear(): map_empty zeroes every byte
clear(m) ==
  /\ bits' = [bits EXCEPT ![m] = {}]
  /\ UNCHANGED <<nbytes, cap>>

\* the bytes both operands have
Shared(m, o) == 0 .. (IF nbytes[m] < nbytes[o] THEN nbytes[m] ELSE nbytes[o]) * 8 - 1

\* operator|=: map_or, byte by byte over the shared bytes
OrAssign(m, o) ==
  /\ bits' = [bits EXCEPT ![m] = @ \cup (bits[o] \cap Shared(m, o))]
  /\ UNCHANGED <<nbytes, cap>>

\* operator-=: map_subtract
SubtractAssign(m, o) ==
  /\ bits' = [bits EXCEPT ![m] = @ \ (bits[o] \cap Shared(m, o))]
  /\ UNCHANGED <<nbytes, cap>>

\* operator&=: map_and; bytes of m beyond o's are left as they are
AndAssign(m, o) ==
  /\ bits' = [bits EXCEPT ![m] = (@ \cap bits[o]) \cup (@ \ Shared(m, o))]
  /\ UNCHANGED <<nbytes, cap>>

Next ==
  \/ \E m \in Maps, n \in Sizes : SolvMapNew(m, n)
  \/ \E m \in Maps, id \in Ids : add(m, id) \/ remove(m, id)
  \/ \E m \in Maps : clear(m)
  \/ \E m, o \in Maps :
       \/ SolvMapCopyConstruct(m, o)
       \/ SolvMapCopy(m, o)
       \/ SolvMapMove(m, o)
       \/ OrAssign(m, o)
       \/ SubtractAssign(m, o)
       \/ AndAssign(m, o)

Spec == Init /\ [][Next]_vars

(***************************************************************************)
(* Properties                                                              *)
(***************************************************************************)

TypeOK ==
  /\ nbytes \in [Maps -> Nat]
  /\ bits \in [Maps -> SUBSET Int]
  /\ cap \in [Maps -> Nat]

RECURSIVE PopCount(_)
PopCount(b) == IF b = 0 THEN 0 ELSE (b % 2) + PopCount(b \div 2)

\* The 256 entries the B2/B4/B6 macros expand to are the number of 1 bits
\* of their index, checked against a direct bit count, for every value a
\* byte of any map can hold.
LookupTableCorrect ==
  \A m \in DOMAIN bits :
    /\ Len(BIT_COUNT_LOOKUP) = 256
    /\ \A b \in 0 .. 255 : BIT_COUNT_LOOKUP[b + 1] = PopCount(b)

\* size() counting byte by byte through the table, empty() scanning the
\* bytes, and contains() testing one bit after its range check, agree with
\* the set the map holds, whatever sequence of add, remove, combinators,
\* copies and moves built it, for ids on both sides of every byte and range
\* boundary.
SizeMatchesContents ==
  \A m \in Maps :
    /\ size(m) = Cardinality(bits[m])
    /\ empty(m) = (bits[m] = {})
    /\ \A id \in Ids : contains(m, id) = (id \in bits[m])

\* spec.md 3: every set bit's index is below the capacity the BitSet was
\* constructed with.
BitsWithinCapacity == \A m \in Maps : \A id \in bits[m] : id < cap[m]

\* SolvMap implements BitSet: every call changes the set the way the spec
\* says, and the combinators are only ever used as set operations.
BS == INSTANCE BitSet WITH set <- bits, capacity <- cap

BitSetSpec == BS!Spec

=============================================================================

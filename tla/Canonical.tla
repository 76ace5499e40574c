------------------------------ MODULE Canonical ------------------------------
(***************************************************************************)
(* Canonical JSON (artifact.rs): the bytes that are hashed and signed.     *)
(*                                                                         *)
(* A value is a record of its kind and what it holds; the booleans are     *)
(* words as null is, and left out.  An object is the sequence of its       *)
(* entries in the order of their insertion, which is what serde_json's Map *)
(* keeps when some crate of the build asks for preserve_order.             *)
(*                                                                         *)
(* The output is a sequence of pieces: the punctuation, a string in one    *)
(* piece between its quotes, since escapes keep it apart, and the digits   *)
(* of a number one by one, since only what follows them marks its end.     *)
(***************************************************************************)
EXTENDS Naturals, Sequences, Functions

Seqs == INSTANCE SequencesExt

CONSTANTS
  ByteOrder,    \* the strings in use, in byte order
  MaxDepth      \* bound: how deep values nest

Strings == Range(ByteOrder)

ASSUME CanonicalAssumption ==
  /\ ByteOrder \in Seq(Strings) /\ IsInjective(ByteOrder)
  /\ MaxDepth \in Nat

Digits == {"0", "1", "2", "3", "4", "5", "6", "7", "8", "9", "minus", "plus", "point", "e"}

Null          == [kind |-> "null", of |-> << >>]
Number(ds)    == [kind |-> "number", of |-> ds]
String(s)     == [kind |-> "string", of |-> s]
Array(items)  == [kind |-> "array", of |-> items]
Object(pairs) == [kind |-> "object", of |-> pairs]

Entry(key, value) == [key |-> key, value |-> value]

Scalars ==
  [kind : {"null"}, of : {<< >>}]
  \cup [kind : {"number"}, of : {ds \in Seq(Digits) : ds # << >>}]
  \cup [kind : {"string"}, of : Strings]

\* The entries of an object whose values are in V: no key twice.
Maps(V) ==
  {pairs \in Seq([key : Strings, value : V]) :
     \A i, j \in DOMAIN pairs : pairs[i].key = pairs[j].key => i = j}

\* The values that nest up to a depth.
Nested(V) ==
  Scalars \cup [kind : {"array"}, of : Seq(V)] \cup [kind : {"object"}, of : Maps(V)]

Values[depth \in 0 .. MaxDepth] == IF depth = 0 THEN Scalars ELSE Nested(Values[depth - 1])

\* Value::get, which finds nothing in what is not an object.
Field(value, key) ==
  IF value.kind # "object" THEN {}
  ELSE {value.of[i].value : i \in {j \in DOMAIN value.of : value.of[j].key = key}}

The(option) == CHOOSE x \in option : TRUE

Keys(pairs) == {pairs[i].key : i \in DOMAIN pairs}

\* Mutant: the keys come out in the order they were inserted in.
Unsorted(pairs) == [i \in DOMAIN pairs |-> pairs[i].key]

\* keys.sort(): the strings that are keys, in byte order.
Sorted(pairs) ==
  Seqs!FlattenSeq([n \in DOMAIN ByteOrder |->
                     IF ByteOrder[n] \in Keys(pairs) THEN <<ByteOrder[n]>> ELSE << >>])

\* Mutant: no comma between two items.
Adjoined(parts) == Seqs!FlattenSeq(parts)

Joined(parts) ==
  Seqs!FlattenSeq([i \in DOMAIN parts |-> IF i > 1 THEN <<"comma">> \o parts[i] ELSE parts[i]])

Quoted(s) == <<"quote", s, "quote">>

\* The text of a value, from the texts of the values in it.
Written(value, text) ==
  LET Pair(key) == Quoted(key) \o (<<"colon">> \o text[The(Field(value, key))])
      keys == Sorted(value.of)
  IN CASE value.kind = "null"   -> <<"null">>
       [] value.kind = "number" -> value.of
       [] value.kind = "string" -> Quoted(value.of)
       [] value.kind = "array"  ->
            <<"array_start">> \o (Joined([i \in DOMAIN value.of |-> text[value.of[i]]])
              \o <<"array_end">>)
       [] value.kind = "object" ->
            <<"object_start">> \o (Joined([i \in DOMAIN keys |-> Pair(keys[i])])
              \o <<"object_end">>)

write_canonical[depth \in 0 .. MaxDepth] ==
  [value \in Values[depth] |-> Written(value, write_canonical[depth - 1])]

canonical_json(value) == write_canonical[MaxDepth][value]

\* A value without the order of its entries: an object is a function of its
\* keys.
Mapped(value, form) ==
  CASE value.kind = "array" ->
         <<"array", [i \in DOMAIN value.of |-> form[value.of[i]]]>>
    [] value.kind = "object" ->
         <<"object", [key \in Keys(value.of) |-> form[The(Field(value, key))]]>>
    [] OTHER -> <<value.kind, value.of>>

Unordered[depth \in 0 .. MaxDepth] ==
  [value \in Values[depth] |-> Mapped(value, Unordered[depth - 1])]

\* Equality of two values up to the order of entries: Value's ==, but for
\* -0.0 and 0.0, which are written apart and == takes for one number.
SameJson(a, b) == Unordered[MaxDepth][a] = Unordered[MaxDepth][b]

=============================================================================

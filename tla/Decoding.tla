------------------------------ MODULE Decoding ------------------------------
(***************************************************************************)
(* How body() turns the JSON of a reply into the declared class, or fails. *)
(*                                                                         *)
(* The daemon writes a value, the decoder reads it as the class the client *)
(* method returns, member by member and element by element; the first      *)
(* value that does not fit loses the whole reply, and the method returns   *)
(* null.  The client installs json() with its default settings: unknown    *)
(* keys are errors, a scalar is accepted where a string is declared.       *)
(*                                                                         *)
(* The decoder keeps a stack of the objects and arrays it is in, each with *)
(* what it still expects there.  That the keys of an object are complete   *)
(* and known is decided where the object begins.                           *)
(***************************************************************************)
EXTENDS Naturals, Sequences

CONSTANTS
  Types,          \* what Model declares: classes, lists and what they hold
  ReplyTypes,     \* operation -> the type of its reply
  DaemonBits,     \* key -> how wide the numbers are that the daemon reports there
  Oddities,       \* what the daemon may write that was not declared
  MaxLength       \* bound: the length of a list

\* A type is made of types, and no class has a property of the name that
\* stands for unknown keys.
WellFormed(type) ==
  \/ type.is = "number" /\ type.bits \in Nat
  \/ type.is \in {"boolean", "string"}
  \/ type.is = "array" /\ type.of \in Types
  \/ /\ type.is = "object"
     /\ "unknown" \notin DOMAIN type.members
     /\ \A k \in DOMAIN type.members : type.members[k] \in Types

Keys(type) == IF type.is = "object" THEN DOMAIN type.members ELSE {}

\* The keys of the classes, and "" for what has none: a reply, and the elements
\* of a list.
Names == {""} \cup UNION {Keys(type) : type \in Types}

ASSUME DecodingAssumption ==
  /\ \A type \in Types : WellFormed(type)
  /\ \A o \in DOMAIN ReplyTypes : ReplyTypes[o] \in Types
  /\ DaemonBits \in [Names -> Nat]
  /\ Oddities \subseteq {"null", "kind", "wide", "missing", "unknown", "unquoted"}
  /\ MaxLength \in Nat

VARIABLES
  op,         \* the operation whose reply is decoded
  expected,   \* what is expected in each open object or array, innermost first
  verdict,    \* "reading", "value" or, as the method returns it, "null"
  odd         \* history: the oddities in what was read

decodingVars == <<op, expected, verdict, odd>>

\* Under a key of an object, or at a place of an array.
Expect(key, at, type) == [key |-> key, at |-> at, type |-> type]

DecodingInit ==
  /\ op \in DOMAIN ReplyTypes
  /\ expected = <<{Expect("", 0, ReplyTypes[op])}>>
  /\ verdict = "reading"
  /\ odd = {}

\* What is read next. (The order of keys makes no difference to the verdict.)
Due == CHOOSE e \in Head(expected) : TRUE

-----------------------------------------------------------------------------
(* What the daemon writes.                                                 *)

Number(bits)  == [is |-> "number", bits |-> bits]
Array(length) == [is |-> "array", length |-> length]
Keyed(keys)   == [is |-> "object", keys |-> keys]

\* A value of the declared type, a number as wide as the daemon has them.
Declared(e) ==
  CASE e.type.is = "number" -> {Number(DaemonBits[e.key])}
    [] e.type.is = "array"  -> {Array(n) : n \in 0 .. MaxLength}
    [] e.type.is = "object" -> {Keyed(DOMAIN e.type.members)}
    [] OTHER                -> {[is |-> e.type.is]}

\* No value or one of another kind; a number that needs one bit too many; an
\* object with a key too few or too many; a scalar that is not a string where a
\* string is declared.
Odd(type, oddity) ==
  CASE oddity = "null"     -> {[is |-> "null"]}
    [] oddity = "kind"     -> {v \in {Array(0), Keyed({})} : v.is # type.is}
    [] oddity = "wide"     -> IF type.is = "number" THEN {Number(type.bits + 1)} ELSE {}
    [] oddity = "missing"  -> {Keyed(Keys(type) \ {k}) : k \in Keys(type)}
    [] oddity = "unknown"  -> {Keyed(Keys(type) \cup {"unknown"}) : k \in Keys(type)}
    [] oddity = "unquoted" -> IF type.is = "string" THEN {Number(31), [is |-> "boolean"]} ELSE {}

-----------------------------------------------------------------------------
(* What the decoder makes of it.                                           *)

\* Mutation of Fits: numbers are cut to their width.
FitsCut(type, value) ==
  \/ type.is = value.is /\ (type.is = "object" => value.keys = DOMAIN type.members)
  \/ type.is = "string" /\ value.is \in {"number", "boolean"}

\* Mutation of Fits: the comparison with the width is off by one.
FitsNarrow(type, value) ==
  \/ /\ type.is = value.is
     /\ type.is = "number" => value.bits < type.bits
     /\ type.is = "object" => value.keys = DOMAIN type.members
  \/ type.is = "string" /\ value.is \in {"number", "boolean"}

Fits(type, value) ==
  \/ /\ type.is = value.is
     /\ type.is = "number" => value.bits <= type.bits
     /\ type.is = "object" => value.keys = DOMAIN type.members
  \/ type.is = "string" /\ value.is \in {"number", "boolean"}

\* What a value that fits makes the decoder expect inside it.
Inside(type, value) ==
  CASE type.is = "array"  -> {Expect("", i, type.of) : i \in 1 .. value.length}
    [] type.is = "object" -> {Expect(k, 0, type.members[k]) : k \in value.keys}
    [] OTHER              -> {}

\* Mutation of Push: an object that has been read stays open.
PushEmpty(entries, stack) == <<entries>> \o stack

\* An object or array in which nothing is expected any more is closed.
Push(entries, stack) == IF entries = {} THEN stack ELSE <<entries>> \o stack

Decode(value) ==
  /\ verdict = "reading"
  /\ IF Fits(Due.type, value)
     THEN /\ expected' = Push(Inside(Due.type, value),
                             Push(Head(expected) \ {Due}, Tail(expected)))
          /\ verdict' = IF expected' = <<>> THEN "value" ELSE "reading"
     ELSE expected' = <<>> /\ verdict' = "null"
  /\ UNCHANGED op

ReadDeclared ==
  /\ expected # <<>>
  /\ \E value \in Declared(Due) : Decode(value)
  /\ UNCHANGED odd

ReadOdd(oddity) ==
  /\ expected # <<>>
  /\ \E value \in Odd(Due.type, oddity) : Decode(value)
  /\ odd' = odd \cup {oddity}

DecodingNext == ReadDeclared \/ \E oddity \in Oddities : ReadOdd(oddity)

DecodingSpec == DecodingInit /\ [][DecodingNext]_decodingVars

-----------------------------------------------------------------------------
\* What may be expected somewhere in a reply.
Entries == [key : Names, at : Nat, type : Types]

\* The variables have their types, something is expected in every object and
\* array that is open, and the reply is done with exactly when none is.
DecodingTypeOK ==
  /\ op \in DOMAIN ReplyTypes
  /\ expected \in Seq((SUBSET Entries) \ {{}})
  /\ verdict \in {"reading", "value", "null"}
  /\ verdict = "reading" <=> expected # <<>>
  /\ odd \subseteq Oddities

\* No part of a reply is made up, cut or dropped: a method returns a value only
\* if every key of every object was there and no other, and every number fitted
\* its property, however deep in the reply.  At most a string was not quoted.
ValueIsWhole == verdict = "value" => odd \subseteq {"unquoted"}

\* A reply in the declared shape is not lost, nor for a string that was not
\* quoted: null means that the daemon wrote something the class cannot hold.
NullIsDeserved == verdict = "null" => odd \ {"unquoted"} # {}

\* Constants.MAX_OUTPUT_SIZE_CLIENT is the "max amount to create a single output
\* of": what lists outputs up to that amount can be read.
OutputsReadable == odd = {} => verdict # "null"

=============================================================================

--------------------------- MODULE DecodingProofs ---------------------------
(* What holds of decoding for every class table, every length of lists, and    *)
(* everything the daemon may write.                                            *)
EXTENDS Decoding, SequenceTheorems, TLAPS

\* Stacks of which every level expects something, all of it in X.
Stacks(X) == Seq((SUBSET X) \ {{}})

LEMMA TypesWellFormed ==
  ASSUME NEW type \in Types PROVE WellFormed(type)
  BY DecodingAssumption

\* The entry the decoder starts with.
LEMMA ReplyEntry ==
  ASSUME NEW o \in DOMAIN ReplyTypes
  PROVE  Expect("", 0, ReplyTypes[o]) \in Entries
<1>1. ReplyTypes[o] \in Types
  BY DecodingAssumption
<1> QED BY <1>1 DEF Expect, Entries, Names

LEMMA OneLevel ==
  ASSUME NEW S, NEW x \in S
  PROVE  <<x>> \in Seq(S) /\ <<x>> # <<>>
  OBVIOUS

LEMMA PushStacks ==
  ASSUME NEW X, NEW entries \in SUBSET X, NEW stack \in Stacks(X)
  PROVE  Push(entries, stack) \in Stacks(X)
<1>1. CASE entries = {}
  BY <1>1 DEF Push
<1>2. CASE entries # {}
  <2>1. <<entries>> \in Seq((SUBSET X) \ {{}})
    BY <1>2
  <2>2. <<entries>> \o stack \in Seq((SUBSET X) \ {{}})
    BY <2>1, ConcatProperties DEF Stacks
  <2> QED BY <1>2, <2>2 DEF Push, Stacks
<1> QED BY <1>1, <1>2

LEMMA DueIsExpected ==
  ASSUME NEW X, expected \in Stacks(X), expected # <<>>
  PROVE  /\ Head(expected) \subseteq X
         /\ Due \in Head(expected)
         /\ Tail(expected) \in Stacks(X)
<1>1. Head(expected) \in (SUBSET X) \ {{}} /\ Tail(expected) \in Seq((SUBSET X) \ {{}})
  BY HeadTailProperties DEF Stacks
<1>2. \E e \in Head(expected) : TRUE
  BY <1>1
<1> QED BY <1>1, <1>2 DEF Due, Stacks

LEMMA DueTyped ==
  ASSUME expected \in Stacks(Entries), expected # <<>>
  PROVE  Due \in Entries /\ Due.type \in Types
<1>1. Due \in Entries
  BY DueIsExpected
<1> QED BY <1>1 DEF Entries

\* A step of the decoder keeps what it expects in X if what it finds inside a
\* value is in X.
LEMMA DecodeStacks ==
  ASSUME NEW X, expected \in Stacks(X), expected # <<>>, NEW value, Decode(value),
         Fits(Due.type, value) => Inside(Due.type, value) \subseteq X
  PROVE  expected' \in Stacks(X)
<1>1. CASE Fits(Due.type, value)
  <2>1. Push(Head(expected) \ {Due}, Tail(expected)) \in Stacks(X)
    BY DueIsExpected, PushStacks
  <2>2. Push(Inside(Due.type, value), Push(Head(expected) \ {Due}, Tail(expected))) \in Stacks(X)
    BY <1>1, <2>1, PushStacks
  <2> QED BY <1>1, <2>2 DEF Decode
<1>2. CASE ~Fits(Due.type, value)
  <2>1. expected' = <<>>
    BY <1>2 DEF Decode
  <2> QED BY <2>1, EmptySeq DEF Stacks
<1> QED BY <1>1, <1>2

-----------------------------------------------------------------------------
\* What a value that fits contains is of the types of the table.
LEMMA InsideEntries ==
  ASSUME NEW type \in Types, NEW value, Fits(type, value)
  PROVE  Inside(type, value) \subseteq Entries
<1>0. WellFormed(type)
  BY TypesWellFormed
<1>1. CASE type.is = "array"
  <2>1. Inside(type, value) = {Expect("", i, type.of) : i \in 1 .. value.length}
    BY <1>1 DEF Inside
  <2>2. type.of \in Types
    BY <1>0, <1>1 DEF WellFormed
  <2>3. \A i \in 1 .. value.length : Expect("", i, type.of) \in Entries
    BY <2>2 DEF Expect, Entries, Names
  <2> QED BY <2>1, <2>3
<1>2. CASE type.is = "object"
  <2>1. Inside(type, value) = {Expect(k, 0, type.members[k]) : k \in value.keys}
    BY <1>2 DEF Inside
  <2>2. value.keys = DOMAIN type.members
    BY <1>2 DEF Fits
  <2>3. \A k \in DOMAIN type.members : k \in Names /\ type.members[k] \in Types
    BY <1>0, <1>2 DEF WellFormed, Keys, Names
  <2>4. \A k \in DOMAIN type.members : Expect(k, 0, type.members[k]) \in Entries
    BY <2>3 DEF Expect, Entries
  <2> QED BY <2>1, <2>2, <2>4
<1>3. CASE type.is # "array" /\ type.is # "object"
  BY <1>3 DEF Inside
<1> QED BY <1>1, <1>2, <1>3

LEMMA DecodingTypeStep ==
  ASSUME DecodingTypeOK, [DecodingNext]_decodingVars
  PROVE  DecodingTypeOK'
<1>1. ASSUME expected # <<>>, NEW value, Decode(value), odd' \subseteq Oddities
      PROVE  DecodingTypeOK'
  <2>1. expected \in Stacks(Entries)
    BY DEF DecodingTypeOK, Stacks
  <2>2. Due.type \in Types
    BY <1>1, <2>1, DueTyped
  <2>3. expected' \in Stacks(Entries)
    BY <1>1, <2>1, <2>2, DecodeStacks, InsideEntries
  <2>4. op' = op /\ verdict' \in {"reading", "value", "null"}
        /\ (verdict' = "reading" <=> expected' # <<>>)
    BY <1>1 DEF Decode
  <2> QED BY <1>1, <2>3, <2>4 DEF DecodingTypeOK, Stacks
<1>2. CASE ReadDeclared
  BY <1>1, <1>2 DEF ReadDeclared, DecodingTypeOK
<1>3. ASSUME NEW oddity \in Oddities, ReadOdd(oddity) PROVE DecodingTypeOK'
  BY <1>1, <1>3 DEF ReadOdd, DecodingTypeOK
<1>4. CASE UNCHANGED decodingVars
  BY <1>4 DEF decodingVars, DecodingTypeOK
<1> QED BY <1>2, <1>3, <1>4 DEF DecodingNext

\* The decoder's variables have their types, and it stops exactly when every
\* object and array is closed or the reply is given up, for every class table.
THEOREM DecodingTypeCorrect == DecodingSpec => []DecodingTypeOK
<1>1. DecodingInit => DecodingTypeOK
  <2> SUFFICES ASSUME DecodingInit PROVE DecodingTypeOK
    OBVIOUS
  <2>1. Expect("", 0, ReplyTypes[op]) \in Entries
    BY ReplyEntry DEF DecodingInit
  <2>2. {Expect("", 0, ReplyTypes[op])} \in (SUBSET Entries) \ {{}}
    BY <2>1
  <2>3. expected \in Seq((SUBSET Entries) \ {{}}) /\ expected # <<>>
    BY <2>2, OneLevel DEF DecodingInit
  <2> QED BY <2>3 DEF DecodingInit, DecodingTypeOK
<1>2. DecodingTypeOK /\ [DecodingNext]_decodingVars => DecodingTypeOK'
  BY DecodingTypeStep
<1> QED BY <1>1, <1>2, PTL DEF DecodingSpec

-----------------------------------------------------------------------------
\* Of what is not declared, the decoder accepts unquoted strings and no more.
LEMMA OddFits ==
  ASSUME NEW type \in Types, NEW oddity \in Oddities, NEW value \in Odd(type, oddity)
  PROVE  Fits(type, value) <=> oddity = "unquoted"
<1>0. WellFormed(type) /\ oddity \in {"null", "kind", "wide", "missing", "unknown", "unquoted"}
  BY TypesWellFormed, DecodingAssumption
<1>1. CASE oddity = "null"
  <2>1. value = [is |-> "null"]
    BY <1>1 DEF Odd
  <2> QED BY <1>0, <1>1, <2>1 DEF Fits, WellFormed
<1>2. CASE oddity = "kind"
  <2>1. value.is \in {"array", "object"} /\ value.is # type.is
    BY <1>2 DEF Odd, Array, Keyed
  <2> QED BY <1>2, <2>1 DEF Fits
<1>3. CASE oddity = "wide"
  <2>1. type.is = "number" /\ value = Number(type.bits + 1)
    BY <1>3 DEF Odd
  <2>2. type.bits \in Nat
    BY <1>0, <2>1 DEF WellFormed
  <2> QED BY <1>3, <2>1, <2>2 DEF Fits, Number
<1>4. CASE oddity = "missing"
  <2>1. PICK k \in Keys(type) : value = Keyed(Keys(type) \ {k})
    BY <1>4 DEF Odd
  <2>2. type.is = "object" /\ k \in DOMAIN type.members
    BY <2>1 DEF Keys
  <2>3. value.is = "object" /\ k \notin value.keys
    BY <2>1 DEF Keyed
  <2> QED BY <1>4, <2>2, <2>3 DEF Fits
<1>5. CASE oddity = "unknown"
  <2>1. PICK k \in Keys(type) : value = Keyed(Keys(type) \cup {"unknown"})
    BY <1>5 DEF Odd
  <2>2. type.is = "object" /\ "unknown" \notin DOMAIN type.members
    BY <1>0, <2>1 DEF Keys, WellFormed
  <2>3. value.is = "object" /\ "unknown" \in value.keys
    BY <2>1 DEF Keyed
  <2> QED BY <1>5, <2>2, <2>3 DEF Fits
<1>6. CASE oddity = "unquoted"
  <2>1. type.is = "string" /\ value.is \in {"number", "boolean"}
    BY <1>6 DEF Odd, Number
  <2> QED BY <1>6, <2>1 DEF Fits
<1> QED BY <1>0, <1>1, <1>2, <1>3, <1>4, <1>5, <1>6

\* As long as the reply is not given up, nothing was odd but missing quotes.
Whole == verdict # "null" => odd \subseteq {"unquoted"}

LEMMA WholeStep ==
  ASSUME DecodingTypeOK, Whole, [DecodingNext]_decodingVars
  PROVE  Whole'
<1> USE DEF Whole
<1>1. CASE ReadDeclared
  BY <1>1 DEF ReadDeclared, Decode
<1>2. ASSUME NEW oddity \in Oddities, ReadOdd(oddity) PROVE Whole'
  <2>1. PICK value \in Odd(Due.type, oddity) : Decode(value)
    BY <1>2 DEF ReadOdd
  <2>2. Due.type \in Types
    BY <1>2, DueIsExpected DEF ReadOdd, DecodingTypeOK, Stacks, Entries
  <2>3. verdict = "reading" /\ (verdict' # "null" => oddity = "unquoted")
    BY <2>1, <2>2, OddFits DEF Decode
  <2> QED BY <1>2, <2>3 DEF ReadOdd
<1>3. CASE UNCHANGED decodingVars
  BY <1>3 DEF decodingVars
<1> QED BY <1>1, <1>2, <1>3 DEF DecodingNext

\* For every class table: what a method returns lacks nothing and has nothing
\* else, however deep in the reply.
THEOREM ValueCorrect == DecodingSpec => []ValueIsWhole
<1>1. DecodingInit => Whole
  BY DEF DecodingInit, Whole
<1>2. DecodingTypeOK /\ Whole /\ [DecodingNext]_decodingVars => Whole'
  BY WholeStep
<1>3. Whole => ValueIsWhole
  BY DEF Whole, ValueIsWhole
<1> QED BY <1>1, <1>2, <1>3, DecodingTypeCorrect, PTL DEF DecodingSpec

-----------------------------------------------------------------------------
\* What the daemon reports under a key fits a property of this type.
Holds(key, type) == type.is = "number" => DaemonBits[key] <= type.bits

\* The class table is wide enough for the daemon's numbers. (The classes of this
\* repository are as long as amounts, sizes, heights and counters stay below 2^31
\* where the property is an Int.)
NumbersHeld ==
  /\ \A type \in Types :
       /\ type.is = "object" => \A k \in DOMAIN type.members : Holds(k, type.members[k])
       /\ type.is = "array" => Holds("", type.of)
  /\ \A o \in DOMAIN ReplyTypes : Holds("", ReplyTypes[o])

\* Entries that hold what the daemon writes there.
Ample == {e \in Entries : Holds(e.key, e.type)}

LEMMA InsideAmple ==
  ASSUME NumbersHeld, NEW type \in Types, NEW value, Fits(type, value)
  PROVE  Inside(type, value) \subseteq Ample
<1>0. Inside(type, value) \subseteq Entries
  BY InsideEntries
<1>1. CASE type.is = "array"
  <2>1. Inside(type, value) = {Expect("", i, type.of) : i \in 1 .. value.length}
    BY <1>1 DEF Inside
  <2>2. \A e \in Inside(type, value) : e.key = "" /\ e.type = type.of
    <3>1. TAKE e \in Inside(type, value)
    <3>2. PICK i \in 1 .. value.length : e = Expect("", i, type.of)
      BY <2>1
    <3> QED BY <3>2 DEF Expect
  <2>3. Holds("", type.of)
    BY <1>1 DEF NumbersHeld
  <2> QED BY <1>0, <2>2, <2>3 DEF Ample
<1>2. CASE type.is = "object"
  <2>1. \A e \in Inside(type, value) :
          e.key \in DOMAIN type.members /\ e.type = type.members[e.key]
    BY <1>2 DEF Inside, Expect, Fits
  <2>2. \A e \in Inside(type, value) : Holds(e.key, e.type)
    BY <1>2, <2>1 DEF NumbersHeld
  <2> QED BY <1>0, <2>2 DEF Ample
<1>3. CASE type.is # "array" /\ type.is # "object"
  BY <1>3 DEF Inside
<1> QED BY <1>1, <1>2, <1>3

LEMMA DeclaredFits ==
  ASSUME NEW e \in Ample, NEW value \in Declared(e)
  PROVE  Fits(e.type, value)
<1>0. WellFormed(e.type)
  BY TypesWellFormed DEF Ample, Entries
<1>1. CASE e.type.is = "number"
  <2>1. value = Number(DaemonBits[e.key])
    BY <1>1 DEF Declared
  <2>2. value.is = "number" /\ value.bits <= e.type.bits
    BY <1>1, <2>1 DEF Number, Ample, Holds
  <2> QED BY <1>1, <2>2 DEF Fits
<1>2. CASE e.type.is = "array"
  <2>1. value.is = "array"
    BY <1>2 DEF Declared, Array
  <2> QED BY <1>2, <2>1 DEF Fits
<1>3. CASE e.type.is = "object"
  <2>1. value = Keyed(DOMAIN e.type.members)
    BY <1>3 DEF Declared
  <2>2. value.is = "object" /\ value.keys = DOMAIN e.type.members
    BY <2>1 DEF Keyed
  <2> QED BY <1>3, <2>2 DEF Fits
<1>4. CASE e.type.is \in {"boolean", "string"}
  <2>1. value.is = e.type.is
    BY <1>4 DEF Declared
  <2> QED BY <1>4, <2>1 DEF Fits
<1> QED BY <1>0, <1>1, <1>2, <1>3, <1>4 DEF WellFormed

Deserved == expected \in Stacks(Ample) /\ NullIsDeserved

LEMMA DeservedStep ==
  ASSUME NumbersHeld, DecodingTypeOK, Deserved, [DecodingNext]_decodingVars
  PROVE  Deserved'
<1> USE DEF Deserved, NullIsDeserved
<1>1. ASSUME expected # <<>>
      PROVE  /\ Due \in Ample
             /\ Due.type \in Types
             /\ \A value : Decode(value) => expected' \in Stacks(Ample)
  <2>1. Due \in Ample /\ Due.type \in Types
    BY <1>1, DueIsExpected DEF Ample, Entries
  <2> QED BY <1>1, <2>1, DecodeStacks, InsideAmple
<1>2. CASE ReadDeclared
  <2>1. PICK value \in Declared(Due) : Decode(value)
    BY <1>2 DEF ReadDeclared
  <2>2. Fits(Due.type, value) /\ expected' \in Stacks(Ample)
    BY <1>1, <1>2, <2>1, DeclaredFits DEF ReadDeclared
  <2>3. verdict' # "null"
    BY <2>1, <2>2 DEF Decode
  <2> QED BY <2>2, <2>3
<1>3. ASSUME NEW oddity \in Oddities, ReadOdd(oddity) PROVE Deserved'
  <2>1. PICK value \in Odd(Due.type, oddity) : Decode(value)
    BY <1>3 DEF ReadOdd
  <2>2. (Fits(Due.type, value) <=> oddity = "unquoted") /\ expected' \in Stacks(Ample)
    BY <1>1, <1>3, <2>1, OddFits DEF ReadOdd
  <2>3. verdict' = "null" => oddity # "unquoted"
    BY <2>1, <2>2 DEF Decode
  <2> QED BY <1>3, <2>2, <2>3 DEF ReadOdd
<1>4. CASE UNCHANGED decodingVars
  BY <1>4 DEF decodingVars
<1> QED BY <1>2, <1>3, <1>4 DEF DecodingNext

\* For every class table whose numbers are wide enough for what the daemon
\* reports: a reply is lost only if something in it was odd, unquoted strings
\* excepted.
THEOREM NullCorrect == ASSUME NumbersHeld PROVE DecodingSpec => []NullIsDeserved
<1>1. DecodingInit => Deserved
  <2> SUFFICES ASSUME DecodingInit PROVE Deserved
    OBVIOUS
  <2>1. Expect("", 0, ReplyTypes[op]) \in Ample
    <3>1. Expect("", 0, ReplyTypes[op]) \in Entries
      BY ReplyEntry DEF DecodingInit
    <3>2. Holds("", ReplyTypes[op])
      BY DEF DecodingInit, NumbersHeld
    <3> QED BY <3>1, <3>2 DEF Ample, Expect
  <2>2. {Expect("", 0, ReplyTypes[op])} \in (SUBSET Ample) \ {{}}
    BY <2>1
  <2>3. expected \in Seq((SUBSET Ample) \ {{}})
    BY <2>2, OneLevel DEF DecodingInit
  <2> QED BY <2>3 DEF DecodingInit, Deserved, Stacks, NullIsDeserved
<1>2. DecodingTypeOK /\ Deserved /\ [DecodingNext]_decodingVars => Deserved'
  BY DeservedStep
<1>3. Deserved => NullIsDeserved
  BY DEF Deserved
<1> QED BY <1>1, <1>2, <1>3, DecodingTypeCorrect, PTL DEF DecodingSpec

=============================================================================

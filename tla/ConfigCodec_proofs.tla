-------------------------- MODULE ConfigCodec_proofs --------------------------
(***************************************************************************)
(* Whatever classes, fields, values and defaults there are, and through    *)
(* however many clients and formats a config goes: what is read has the    *)
(* types of its fields, what is portable comes out as it went in, what is  *)
(* absent is its default, and no document is refused but for a reason.     *)
(*                                                                         *)
(* What the conversions do to a value of any depth is proved by induction  *)
(* over the levels of values (ValueInduction); the invariant of the steps  *)
(* says what a config may hold in a field (Held), and what a document may  *)
(* (Sent): a held value as some format writes it.                          *)
(***************************************************************************)
EXTENDS ConfigCodec, DataLemmas

-----------------------------------------------------------------------------
\* Induction and recursion over the nesting of values.

UpTo(n) == UNION {Levels[i] : i \in 1..n}

\* Each level of nesting holds only values whose items are on the levels below it.
LEMMA LevelsFacts ==
    /\ Len(Levels) \in Nat
    /\ UpTo(0) = {} /\ UpTo(Len(Levels)) = Values
    /\ \A n \in Nat : n + 1 <= Len(Levels) =>
          /\ UpTo(n) \subseteq UpTo(n + 1)
          /\ UpTo(n + 1) \subseteq Values
          /\ \A v \in UpTo(n + 1) : \A f \in DOMAIN v.items : v.items[f] \in UpTo(n)
<1>1. Len(Levels) \in Nat /\ DOMAIN Levels = 1..Len(Levels)
  BY ValueAssumption
<1>2. UpTo(0) = {}
  BY DEF UpTo
<1>3. UpTo(Len(Levels)) = Values
  BY <1>1 DEF UpTo, Values, Range
<1>4. ASSUME NEW n \in Nat, n + 1 <= Len(Levels)
      PROVE  /\ UpTo(n) \subseteq UpTo(n + 1)
             /\ UpTo(n + 1) \subseteq Values
             /\ \A v \in UpTo(n + 1) : \A f \in DOMAIN v.items : v.items[f] \in UpTo(n)
  <2>1. 1..n \subseteq 1..(n + 1) /\ 1..(n + 1) \subseteq 1..Len(Levels)
    BY <1>1, <1>4
  <2>2. UpTo(n) \subseteq UpTo(n + 1)
    BY <2>1 DEF UpTo
  <2>3. UpTo(n + 1) \subseteq Values
    BY <2>1, <1>1 DEF UpTo, Values, Range
  <2>4. ASSUME NEW v \in UpTo(n + 1), NEW f \in DOMAIN v.items
        PROVE  v.items[f] \in UpTo(n)
    <3>1. PICK i \in 1..(n + 1) : v \in Levels[i]
      BY DEF UpTo
    <3>2. PICK m \in 1..(i - 1) : v.items[f] \in Levels[m]
      BY <1>1, <2>1, <3>1, ValueAssumption
    <3>3. m \in 1..n
      BY <3>1, <3>2
    <3>4. QED
      BY <3>2, <3>3 DEF UpTo
  <2>5. QED
    BY <2>2, <2>3, <2>4
<1>5. QED
  BY <1>1, <1>2, <1>3, <1>4

\* A set that has every value whose items it has, has them all.
LEMMA ValueInduction ==
    ASSUME NEW T,
           \A v \in Values : (\A f \in DOMAIN v.items : v.items[f] \in T) => v \in T
    PROVE  Values \subseteq T
<1> DEFINE N == {n \in Nat : n <= Len(Levels) => UpTo(n) \subseteq T}
<1>1. 0 \in N
  BY LevelsFacts
<1>2. ASSUME NEW n \in Nat, n \in N
      PROVE  n + 1 \in N
  <2>1. SUFFICES ASSUME n + 1 <= Len(Levels)
                 PROVE  UpTo(n + 1) \subseteq T
    OBVIOUS
  <2>2. UpTo(n) \subseteq T
    BY <1>2, <2>1, LevelsFacts
  <2>3. ASSUME NEW v \in UpTo(n + 1)
        PROVE  v \in T
    <3>1. v \in Values /\ \A f \in DOMAIN v.items : v.items[f] \in UpTo(n)
      BY <2>1, LevelsFacts
    <3>2. QED
      BY <2>2, <3>1
  <2>4. QED
    BY <2>3
<1> HIDE DEF N
<1>3. Nat \subseteq N
  BY <1>1, <1>2, NatSetInduction
<1>4. QED
  BY <1>3, LevelsFacts DEF N

\* One step of each function that recurses over a value, of what it gives for its items.
Step(kind, flag, v, of) ==
    CASE kind = "plain" -> PlainOf(v, of)
      [] kind = "json" -> JsonOf(v, of, flag)
      [] kind = "decoder" ->
            [klass \in DOMAIN Schema |-> _decode_dataclass(klass, v, of, flag)]
      [] kind = "parts" -> {v} \cup UNION {of[f] : f \in DOMAIN v.items}

Recurses(fn, kind, flag, S) ==
    fn = [v \in S |-> Step(kind, flag, v, [f \in DOMAIN v.items |-> fn[v.items[f]]])]

\* The values nested at most n deep have a function of each kind, and so has each
\* level above them.
LEMMA RecursionExists ==
    ASSUME NEW kind, NEW flag
    PROVE  \E fn : Recurses(fn, kind, flag, Values)
<1> DEFINE N == {n \in Nat : n <= Len(Levels) => \E fn : Recurses(fn, kind, flag, UpTo(n))}
<1>1. 0 \in N
  <2>1. Recurses([v \in {} |-> {}], kind, flag, {})
    BY DEF Recurses
  <2>2. QED
    BY <2>1, LevelsFacts
<1>2. ASSUME NEW n \in Nat, n \in N
      PROVE  n + 1 \in N
  <2>1. SUFFICES ASSUME n + 1 <= Len(Levels)
                 PROVE  \E fn : Recurses(fn, kind, flag, UpTo(n + 1))
    OBVIOUS
  <2>2. PICK fn : Recurses(fn, kind, flag, UpTo(n))
    BY <1>2, <2>1, LevelsFacts
  <2> DEFINE next == [v \in UpTo(n + 1) |->
                         Step(kind, flag, v, [f \in DOMAIN v.items |-> fn[v.items[f]]])]
  <2>3. \A v \in UpTo(n) : next[v] = fn[v]
    BY <2>1, <2>2, LevelsFacts DEF Recurses
  <2>4. ASSUME NEW v \in UpTo(n + 1)
        PROVE  [f \in DOMAIN v.items |-> fn[v.items[f]]] = [f \in DOMAIN v.items |-> next[v.items[f]]]
    <3> HIDE DEF next
    <3>1. \A f \in DOMAIN v.items : v.items[f] \in UpTo(n)
      BY <2>1, LevelsFacts
    <3>2. QED
      BY <2>3, <3>1
  <2>5. \A v \in UpTo(n + 1) :
           next[v] = Step(kind, flag, v, [f \in DOMAIN v.items |-> next[v.items[f]]])
    <3>1. SUFFICES ASSUME NEW v \in UpTo(n + 1)
                   PROVE  next[v] = Step(kind, flag, v, [f \in DOMAIN v.items |-> next[v.items[f]]])
      OBVIOUS
    <3>2. next[v] = Step(kind, flag, v, [f \in DOMAIN v.items |-> fn[v.items[f]]])
      OBVIOUS
    <3> HIDE DEF next
    <3>3. QED
      BY <2>4, <3>2, Zenon
  <2>6. next = [v \in UpTo(n + 1) |-> next[v]]
    OBVIOUS
  <2> HIDE DEF next
  <2>7. Recurses(next, kind, flag, UpTo(n + 1))
    BY <2>5, <2>6 DEF Recurses
  <2>8. QED
    BY <2>7
<1> HIDE DEF N
<1>3. Nat \subseteq N
  BY <1>1, <1>2, NatSetInduction
<1>4. QED
  BY <1>3, LevelsFacts DEF N

\* So each of the functions that recurse over a value is defined, by its own equation.
LEMMA PlainDef ==
    ASSUME NEW v \in Values
    PROVE  _to_plain[v] = PlainOf(v, [f \in DOMAIN v.items |-> _to_plain[v.items[f]]])
<1>1. PICK fn : Recurses(fn, "plain", FALSE, Values)
  BY RecursionExists
<1>2. \A u, of : Step("plain", FALSE, u, of) = PlainOf(u, of)
  BY DEF Step
<1>3. fn = [u \in Values |-> PlainOf(u, [f \in DOMAIN u.items |-> fn[u.items[f]]])]
  BY <1>1, <1>2 DEF Recurses
<1>4. _to_plain = [u \in Values |-> PlainOf(u, [f \in DOMAIN u.items |-> _to_plain[u.items[f]]])]
  BY <1>3 DEF _to_plain
<1>5. QED
  BY <1>4

\* The equation of what a writer makes of a value ...
LEMMA JsonDef ==
    ASSUME NEW writer, NEW v \in Values
    PROVE  _encode_json_type(writer)[v] =
               JsonOf(v, [f \in DOMAIN v.items |-> _encode_json_type(writer)[v.items[f]]], writer)
<1>1. PICK fn : Recurses(fn, "json", writer, Values)
  BY RecursionExists
<1>2. \A u, of : Step("json", writer, u, of) = JsonOf(u, of, writer)
  BY DEF Step
<1>3. fn = [u \in Values |-> JsonOf(u, [f \in DOMAIN u.items |-> fn[u.items[f]]], writer)]
  BY <1>1, <1>2 DEF Recurses
<1> DEFINE encoded == CHOOSE e :
               e = [u \in Values |-> JsonOf(u, [f \in DOMAIN u.items |-> e[u.items[f]]], writer)]
<1>4. encoded = [u \in Values |-> JsonOf(u, [f \in DOMAIN u.items |-> encoded[u.items[f]]], writer)]
  BY <1>3
<1>5. _encode_json_type(writer) = encoded
  BY DEF _encode_json_type
<1> HIDE DEF encoded
<1>6. QED
  BY <1>4, <1>5

\* ... of _decode_dataclass() ...
LEMMA DecoderDef ==
    ASSUME NEW infer, NEW v \in Values, NEW klass \in DOMAIN Schema
    PROVE  Decoder(infer)[v][klass] =
               _decode_dataclass(klass, v, [f \in DOMAIN v.items |-> Decoder(infer)[v.items[f]]], infer)
<1>1. PICK fn : Recurses(fn, "decoder", infer, Values)
  BY RecursionExists
<1>2. \A u, of : Step("decoder", infer, u, of) =
                 [k \in DOMAIN Schema |-> _decode_dataclass(k, u, of, infer)]
  BY DEF Step
<1>3. fn = [u \in Values |-> [k \in DOMAIN Schema |->
               _decode_dataclass(k, u, [f \in DOMAIN u.items |-> fn[u.items[f]]], infer)]]
  BY <1>1, <1>2 DEF Recurses
<1> DEFINE decoded == CHOOSE d : d = [u \in Values |-> [k \in DOMAIN Schema |->
               _decode_dataclass(k, u, [f \in DOMAIN u.items |-> d[u.items[f]]], infer)]]
<1>4. decoded = [u \in Values |-> [k \in DOMAIN Schema |->
               _decode_dataclass(k, u, [f \in DOMAIN u.items |-> decoded[u.items[f]]], infer)]]
  BY <1>3
<1>5. Decoder(infer) = decoded
  BY DEF Decoder
<1> HIDE DEF decoded
<1>6. decoded[v] = [k \in DOMAIN Schema |->
               _decode_dataclass(k, v, [f \in DOMAIN v.items |-> decoded[v.items[f]]], infer)]
  BY <1>4
<1>7. QED
  BY <1>5, <1>6

\* ... and of the parts of a value.
LEMMA PartsDef ==
    ASSUME NEW v \in Values
    PROVE  Parts[v] = {v} \cup UNION {Parts[v.items[f]] : f \in DOMAIN v.items}
<1>1. PICK fn : Recurses(fn, "parts", FALSE, Values)
  BY RecursionExists
<1>2. \A u : Step("parts", FALSE, u, [f \in DOMAIN u.items |-> fn[u.items[f]]]) =
             {u} \cup UNION {fn[u.items[f]] : f \in DOMAIN u.items}
  BY DEF Step
<1>3. fn = [u \in Values |-> {u} \cup UNION {fn[u.items[f]] : f \in DOMAIN u.items}]
  BY <1>1, <1>2 DEF Recurses
<1>4. Parts = [u \in Values |-> {u} \cup UNION {Parts[u.items[f]] : f \in DOMAIN u.items}]
  BY <1>3 DEF Parts
<1>5. QED
  BY <1>4

-----------------------------------------------------------------------------
\* Values and their parts.

\* The types the code names, the Enums and the dataclasses are all different.
LEMMA TypeNames ==
    /\ \A t \in Builtin : t \notin DOMAIN Schema /\ t \notin Enums
    /\ \A t \in Enums : t \notin DOMAIN Schema
    /\ \A t \in Coerced : t \notin Collections \cup DOMAIN Schema
BY TypeNameAssumption DEF Builtin, Json, Coerced, Collections

\* A value without items is its type and its text.
LEMMA ValueFields ==
    ASSUME NEW type, NEW text
    PROVE  /\ Value(type, text).type = type
           /\ Value(type, text).text = text
           /\ DOMAIN Value(type, text).items = {}
BY DEF Value

\* None is no instance and no text.
LEMMA NoneType == None.type = "None"
BY ValueFields DEF None

\* A value is its type, its text and its items, which are values.
LEMMA ValueFacts ==
    /\ None \in Values /\ Error \notin Values /\ Mandatory \notin Values
    /\ \A v \in Values :
          /\ v = With(v, v.type, [f \in DOMAIN v.items |-> v.items[f]])
          /\ \A f \in DOMAIN v.items : v.items[f] \in Values
          /\ v.type \notin Collections \cup DOMAIN Schema => v = Value(v.type, v.text)
<1>1. None \in Values /\ Error \notin Values /\ Mandatory \notin Values
  <2>1. Error.type = "error" /\ Mandatory.type = "MISSING"
    BY ValueFields DEF Error, Mandatory
  <2>2. QED
    BY <2>1, ValueAssumption
<1>2. ASSUME NEW v \in Values, NEW f \in DOMAIN v.items
      PROVE  v.items[f] \in Values
  <2>1. PICK n \in DOMAIN Levels : v \in Levels[n]
    BY DEF Values, Range
  <2>2. PICK m \in 1..(n - 1) : v.items[f] \in Levels[m]
    BY <2>1, ValueAssumption
  <2>3. m \in DOMAIN Levels
    BY <2>1, <2>2, ValueAssumption
  <2>4. QED
    BY <2>2, <2>3 DEF Values, Range
<1>3. QED
  BY <1>1, <1>2, ValueAssumption

\* The parts of a value are itself and the parts of its items.
LEMMA PartsFacts ==
    ASSUME NEW v \in Values
    PROVE  /\ v \in Parts[v]
           /\ \A f \in DOMAIN v.items : Parts[v.items[f]] \subseteq Parts[v]
           /\ v.type \notin Collections \cup DOMAIN Schema => Parts[v] = {v} /\ Instances(v) = {}
<1>1. v \in Parts[v] /\ \A f \in DOMAIN v.items : Parts[v.items[f]] \subseteq Parts[v]
  BY PartsDef
<1>2. ASSUME v.type \notin Collections \cup DOMAIN Schema
      PROVE  Parts[v] = {v} /\ Instances(v) = {}
  <2>1. DOMAIN v.items = {}
    BY <1>2, ValueFacts, ValueFields
  <2>2. Parts[v] = {v}
    BY <2>1, PartsDef
  <2>3. QED
    BY <1>2, <2>2 DEF Instances
<1>3. QED
  BY <1>1, <1>2

\* What holds of a value, and of the parts of its items, holds of its parts.
LEMMA PartsIn ==
    ASSUME NEW S, NEW v \in Values, v \in S,
           \A f \in DOMAIN v.items : Parts[v.items[f]] \subseteq S
    PROVE  Parts[v] \subseteq S
BY PartsDef

\* They are all values.
LEMMA PartsAreValues == \A v \in Values : Parts[v] \subseteq Values
<1> DEFINE T == {v \in Values : Parts[v] \subseteq Values}
<1>1. ASSUME NEW v \in Values, \A f \in DOMAIN v.items : v.items[f] \in T
      PROVE  v \in T
  BY <1>1, PartsIn
<1>2. Values \subseteq T
  <2> HIDE DEF T
  <2>1. QED
    BY <1>1, ValueInduction
<1>3. QED
  BY <1>2

\* The instances in an item are instances in what holds it.
LEMMA InstancesFacts ==
    ASSUME NEW v \in Values
    PROVE  /\ Instances(v) \subseteq Values
           /\ \A f \in DOMAIN v.items : Instances(v.items[f]) \subseteq Instances(v)
           /\ v.type \in DOMAIN Schema => v \in Instances(v)
BY PartsAreValues, PartsFacts DEF Instances

-----------------------------------------------------------------------------
\* Writing.

\* The fields of a value that is given other items.
LEMMA WithFields ==
    ASSUME NEW v, NEW type, NEW items
    PROVE  /\ With(v, type, items).type = type
           /\ With(v, type, items).text = v.text
           /\ With(v, type, items).items = items
BY DEF With

\* What is written is a value.
LEMMA PlainIsValue == \A v \in Values : _to_plain[v] \in Values
BY ClosureAssumption

\* And as JSON, a value or an exception.
LEMMA JsonIsValue ==
    ASSUME NEW v \in Values, NEW writer \in Writers
    PROVE  _encode_json_type(writer)[v] \in Values \cup {Error}
BY ClosureAssumption

PlainAt(f, v) == IF f \in Pems THEN _encode_grpc_cert(v) ELSE _to_plain[v]

\* A PEM as a caller or the constructor leaves it: no collection and no instance.
Scalar(v) == v.type \notin Collections \cup DOMAIN Schema

\* _encode_grpc_cert() turns bytes into text and leaves the rest.
LEMMA CertFacts ==
    ASSUME NEW v \in Values, Scalar(v)
    PROVE  /\ _encode_grpc_cert(v) \in Values
           /\ Scalar(_encode_grpc_cert(v))
           /\ v.type = "bytes" => _encode_grpc_cert(v) = Value("str", v.text)
           /\ v.type # "bytes" => _encode_grpc_cert(v) = v
<1>1. _encode_grpc_cert(v) \in Values
  BY ClosureAssumption
<1>2. "str" \notin Collections \cup DOMAIN Schema
  BY TypeNames DEF Coerced
<1>3. QED
  BY <1>1, <1>2, ValueFields DEF _encode_grpc_cert, Scalar

\* An instance is one its constructor has built, with a field for each of its class.
LEMMA InstanceFacts ==
    ASSUME NEW v \in Values, v.type \in DOMAIN Schema
    PROVE  /\ v = Constructed(v.type, v.items)
           /\ DOMAIN v.items = DOMAIN Schema[v.type]
           /\ \A f \in Pems \cap DOMAIN v.items : Scalar(v.items[f])
BY ValueAssumption DEF Scalar

\* What an instance is written as.
LEMMA PlainInstance ==
    ASSUME NEW v \in Values, v.type \in DOMAIN Schema
    PROVE  /\ _to_plain[v].type = "dict"
           /\ DOMAIN _to_plain[v].items = DOMAIN v.items
           /\ \A f \in DOMAIN v.items : _to_plain[v].items[f] = PlainAt(f, v.items[f])
<1> DEFINE plain == [f \in DOMAIN v.items |-> _to_plain[v.items[f]]]
<1>1. _to_plain[v] = PlainOf(v, plain)
  BY PlainDef
<1>2. PlainOf(v, plain) = With(v, "dict", [f \in DOMAIN v.items |->
             IF f \in Pems THEN _encode_grpc_cert(v.items[f]) ELSE plain[f]])
  BY DEF PlainOf
<1>3. [f \in DOMAIN v.items |-> IF f \in Pems THEN _encode_grpc_cert(v.items[f]) ELSE plain[f]]
      = [f \in DOMAIN v.items |-> PlainAt(f, v.items[f])]
  BY DEF PlainAt
<1> DEFINE items == [f \in DOMAIN v.items |-> PlainAt(f, v.items[f])]
<1>4. DOMAIN items = DOMAIN v.items /\ \A f \in DOMAIN v.items : items[f] = PlainAt(f, v.items[f])
  OBVIOUS
<1>5. _to_plain[v] = With(v, "dict", items)
  BY <1>1, <1>2, <1>3
<1> HIDE DEF items
<1>6. _to_plain[v].type = "dict" /\ _to_plain[v].items = items
  BY <1>5 DEF With
<1>7. QED
  BY <1>4, <1>6

\* What a collection is written as: its items written, and a list for a set.
LEMMA PlainCollection ==
    ASSUME NEW v \in Values, v.type \in Collections
    PROVE  /\ _to_plain[v] = With(v, IF v.type = "set" THEN "list" ELSE v.type,
                                  [f \in DOMAIN v.items |-> _to_plain[v.items[f]]])
           /\ _to_plain[v].type = IF v.type = "set" THEN "list" ELSE v.type
           /\ DOMAIN _to_plain[v].items = DOMAIN v.items
           /\ \A f \in DOMAIN v.items : _to_plain[v].items[f] = _to_plain[v.items[f]]
<1> DEFINE items == [f \in DOMAIN v.items |-> _to_plain[v.items[f]]]
<1>1. v.type \notin DOMAIN Schema
  BY TypeNames DEF Collections, Builtin, Json
<1>2. DOMAIN items = DOMAIN v.items /\ \A f \in DOMAIN v.items : items[f] = _to_plain[v.items[f]]
  OBVIOUS
<1>3. _to_plain[v] = PlainOf(v, items)
  BY PlainDef
<1> HIDE DEF items
<1>4. _to_plain[v] = With(v, IF v.type = "set" THEN "list" ELSE v.type, items)
  BY <1>1, <1>3 DEF PlainOf, Collections
<1>5. /\ _to_plain[v].type = IF v.type = "set" THEN "list" ELSE v.type
      /\ _to_plain[v].items = items
  BY <1>4 DEF With
<1>6. QED
  BY <1>2, <1>4, <1>5 DEF items

\* Anything else is left as it is.
LEMMA PlainScalar ==
    ASSUME NEW v \in Values, Scalar(v)
    PROVE  _to_plain[v] = v
BY PlainDef DEF PlainOf, Collections, Scalar

\* A plain value has no instance and no set in it.
PlainParts == {u \in Values : u.type \notin {"set"} \cup DOMAIN Schema}

\* So _to_plain() leaves neither set nor instance, at any depth.
LEMMA PlainIsPlain == \A v \in Values : Parts[_to_plain[v]] \subseteq PlainParts
<1> DEFINE T == {v \in Values : Parts[_to_plain[v]] \subseteq PlainParts}
<1>0. /\ "dict" \notin {"set"} \cup DOMAIN Schema
      /\ "list" \notin {"set"} \cup DOMAIN Schema
  BY TypeNames DEF Builtin, Json
<1>1. ASSUME NEW v \in Values, Scalar(v)
      PROVE  Parts[v] \subseteq PlainParts
  BY <1>1, PartsFacts DEF Scalar, PlainParts, Collections
<1>2. ASSUME NEW v \in Values, \A f \in DOMAIN v.items : v.items[f] \in T
      PROVE  v \in T
  <2>0. _to_plain[v] \in Values
    BY PlainIsValue
  <2>1. CASE v.type \in DOMAIN Schema
    <3>1. /\ _to_plain[v].type = "dict"
          /\ DOMAIN _to_plain[v].items = DOMAIN v.items
          /\ \A f \in DOMAIN v.items : _to_plain[v].items[f] = PlainAt(f, v.items[f])
      BY <2>1, PlainInstance
    <3>2. ASSUME NEW f \in DOMAIN v.items
          PROVE  Parts[_to_plain[v].items[f]] \subseteq PlainParts
      <4>1. CASE f \in Pems
        <5>1. v.items[f] \in Values /\ Scalar(v.items[f])
          BY <2>1, <4>1, ValueFacts, InstanceFacts
        <5>2. Parts[_encode_grpc_cert(v.items[f])] \subseteq PlainParts
          BY <1>1, <5>1, CertFacts
        <5>3. QED
          BY <3>1, <4>1, <5>2 DEF PlainAt
      <4>2. CASE f \notin Pems
        BY <1>2, <3>1, <4>2 DEF PlainAt
      <4>3. QED
        BY <4>1, <4>2
    <3>3. _to_plain[v] \in PlainParts
      BY <1>0, <2>0, <3>1 DEF PlainParts
    <3>4. Parts[_to_plain[v]] \subseteq PlainParts
      BY <2>0, <3>1, <3>2, <3>3, PartsIn
    <3>5. QED
      BY <3>4
  <2>2. CASE v.type \in Collections
    <3>1. /\ _to_plain[v].type \in {"dict", "list"}
          /\ DOMAIN _to_plain[v].items = DOMAIN v.items
          /\ \A f \in DOMAIN v.items : _to_plain[v].items[f] = _to_plain[v.items[f]]
      BY <2>2, PlainCollection DEF Collections
    <3>2. _to_plain[v] \in PlainParts
      BY <1>0, <2>0, <3>1 DEF PlainParts
    <3>3. Parts[_to_plain[v]] \subseteq PlainParts
      BY <1>2, <2>0, <3>1, <3>2, PartsIn
    <3>4. QED
      BY <3>3
  <2>3. CASE Scalar(v)
    BY <1>1, <2>3, PlainScalar
  <2>4. QED
    BY <2>1, <2>2, <2>3 DEF Scalar
<1>3. Values \subseteq T
  <2> HIDE DEF T
  <2>1. QED
    BY <1>2, ValueInduction
<1>4. QED
  BY <1>3

\* In JSON text the keys of a mapping are strs, each a key of the mapping's.
LEMMA KeyedFacts ==
    ASSUME NEW items
    PROVE  /\ DOMAIN Keyed(items) \cap DOMAIN KeyText = {}
           /\ \A k \in DOMAIN Keyed(items) : \E j \in DOMAIN items : Keyed(items)[k] = items[j]
<1>1. DOMAIN Keyed(items) = {KeyAs(j) : j \in DOMAIN items}
  BY DEF Keyed
<1>2. \A j : KeyAs(j) \notin DOMAIN KeyText
  BY KeyAssumption DEF KeyAs, Range
<1>3. ASSUME NEW k \in DOMAIN Keyed(items)
      PROVE  \E j \in DOMAIN items : Keyed(items)[k] = items[j]
  <2>1. \E j \in DOMAIN items : KeyAs(j) = k
    BY <1>1
  <2>2. Keyed(items)[k] = items[CHOOSE j \in DOMAIN items : KeyAs(j) = k]
    BY DEF Keyed
  <2>3. QED
    BY <2>1, <2>2
<1>4. QED
  BY <1>1, <1>2, <1>3

\* Keys that are strs stay.
LEMMA KeyedSame ==
    ASSUME NEW items, items = [j \in DOMAIN items |-> items[j]],
           DOMAIN items \cap DOMAIN KeyText = {}
    PROVE  Keyed(items) = items
<1>1. \A j \in DOMAIN items : KeyAs(j) = j
  BY DEF KeyAs
<1>2. {KeyAs(j) : j \in DOMAIN items} = DOMAIN items
  BY <1>1
<1>3. \A k \in DOMAIN items : (CHOOSE j \in DOMAIN items : KeyAs(j) = k) = k
  BY <1>1
<1>4. QED
  BY <1>2, <1>3 DEF Keyed

\* Of a collection, and of a scalar, JSON makes:
LEMMA JsonCollection ==
    ASSUME NEW v \in Values, v.type \in {"dict", "list"}, NEW writer,
           _encode_json_type(writer)[v] # Error
    PROVE  /\ _encode_json_type(writer)[v].type = v.type
           /\ \A f \in DOMAIN v.items : _encode_json_type(writer)[v.items[f]] # Error
           /\ \A k \in DOMAIN _encode_json_type(writer)[v].items : \E f \in DOMAIN v.items :
                 _encode_json_type(writer)[v].items[k] = _encode_json_type(writer)[v.items[f]]
           /\ writer \in Libraries => StrKeys(_encode_json_type(writer)[v])
           /\ StrKeys(v) =>
                 /\ DOMAIN _encode_json_type(writer)[v].items = DOMAIN v.items
                 /\ \A f \in DOMAIN v.items :
                       _encode_json_type(writer)[v].items[f] = _encode_json_type(writer)[v.items[f]]
<1> DEFINE encoded == [f \in DOMAIN v.items |-> _encode_json_type(writer)[v.items[f]]]
           json    == _encode_json_type(writer)[v]
<1>1. json = JsonOf(v, encoded, writer)
  BY JsonDef
<1>2. /\ DOMAIN encoded = DOMAIN v.items
      /\ \A f \in DOMAIN v.items : encoded[f] = _encode_json_type(writer)[v.items[f]]
      /\ encoded = [f \in DOMAIN encoded |-> encoded[f]]
  OBVIOUS
<1> DEFINE items == IF v.type = "dict" /\ writer \in Libraries THEN Keyed(encoded) ELSE encoded
<1> HIDE DEF encoded, json
<1>3. Error \notin Range(encoded) /\ json = With(v, v.type, items)
  BY <1>1 DEF JsonOf, json
<1>4. \A f \in DOMAIN v.items : encoded[f] # Error
  BY <1>2, <1>3 DEF Range
<1> HIDE DEF items
<1>5. json.type = v.type /\ json.items = items
  BY <1>3, WithFields
<1>6. \A k \in DOMAIN items : \E f \in DOMAIN v.items : items[k] = encoded[f]
  <2>1. CASE items = encoded
    BY <1>2, <2>1
  <2>2. CASE items = Keyed(encoded)
    BY <1>2, <2>2, KeyedFacts
  <2>3. QED
    BY <2>1, <2>2 DEF items
<1>7. ASSUME v.type = "dict", writer \in Libraries
      PROVE  DOMAIN items \cap DOMAIN KeyText = {}
  BY <1>7, KeyedFacts DEF items
<1>8. ASSUME StrKeys(v)
      PROVE  items = encoded
  <2>1. CASE v.type = "dict" /\ writer \in Libraries
    <3>1. DOMAIN encoded \cap DOMAIN KeyText = {}
      BY <1>2, <1>8, <2>1 DEF StrKeys
    <3>2. QED
      BY <1>2, <2>1, <3>1, KeyedSame DEF items
  <2>2. CASE ~(v.type = "dict" /\ writer \in Libraries)
    BY <2>2 DEF items
  <2>3. QED
    BY <2>1, <2>2
<1>9. writer \in Libraries => StrKeys(json)
  BY <1>5, <1>7 DEF StrKeys
<1>10. QED
  <2>1. \A f \in DOMAIN v.items : _encode_json_type(writer)[v.items[f]] # Error
    BY <1>2, <1>4
  <2>2. \A k \in DOMAIN json.items : \E f \in DOMAIN v.items :
           json.items[k] = _encode_json_type(writer)[v.items[f]]
    BY <1>2, <1>5, <1>6
  <2>3. StrKeys(v) => /\ DOMAIN json.items = DOMAIN v.items
                      /\ \A f \in DOMAIN v.items :
                            json.items[f] = _encode_json_type(writer)[v.items[f]]
    BY <1>2, <1>5, <1>8
  <2>4. QED
    BY <1>5, <1>9, <2>1, <2>2, <2>3 DEF json

\* Of a scalar: itself, None for what orjson has no literal for, or its default encoding.
LEMMA JsonScalar ==
    ASSUME NEW v \in Values, v.type \notin {"dict", "list"}, NEW writer
    PROVE  _encode_json_type(writer)[v] =
               IF writer = "orjson" /\ IsNonFinite(v) THEN None
               ELSE IF v.type \in Json THEN v ELSE _json_default(v)
BY JsonDef DEF JsonOf

JsonParts(writer) ==
    {u \in Values : u.type \in Json /\ (writer \in Libraries => StrKeys(u))}

\* Of a plain value a writer leaves only what JSON has a type for, and JSON text no key but strs, at any depth.
LEMMA JsonIsJson ==
    \A v \in Values : \A writer \in Writers :
        /\ Parts[v] \subseteq PlainParts
        /\ _encode_json_type(writer)[v] # Error
        => Parts[_encode_json_type(writer)[v]] \subseteq JsonParts(writer)
<1> DEFINE Json_(v, writer) == _encode_json_type(writer)[v]
           T == {v \in Values : \A writer \in Writers :
                    Parts[v] \subseteq PlainParts /\ Json_(v, writer) # Error
                    => Parts[Json_(v, writer)] \subseteq JsonParts(writer)}
<1>1. ASSUME NEW v \in Values, \A f \in DOMAIN v.items : v.items[f] \in T
      PROVE  v \in T
  <2>1. SUFFICES ASSUME NEW writer \in Writers,
                        Parts[v] \subseteq PlainParts, Json_(v, writer) # Error
                 PROVE  Parts[Json_(v, writer)] \subseteq JsonParts(writer)
    OBVIOUS
  <2>2. Json_(v, writer) \in Values
    BY <2>1, JsonIsValue
  <2>3. CASE v.type \in {"dict", "list"}
    <3>1. /\ Json_(v, writer).type = v.type
          /\ \A f \in DOMAIN v.items : Json_(v.items[f], writer) # Error
          /\ \A k \in DOMAIN Json_(v, writer).items : \E f \in DOMAIN v.items :
                Json_(v, writer).items[k] = Json_(v.items[f], writer)
          /\ writer \in Libraries => StrKeys(Json_(v, writer))
      BY <2>1, <2>3, JsonCollection
    <3>2. \A f \in DOMAIN v.items : Parts[v.items[f]] \subseteq PlainParts
      BY <2>1, PartsFacts
    <3>3. Json_(v, writer) \in JsonParts(writer)
      BY <2>2, <2>3, <3>1 DEF JsonParts, Json
    <3>4. \A f \in DOMAIN v.items : Parts[Json_(v.items[f], writer)] \subseteq JsonParts(writer)
      BY <1>1, <3>1, <3>2
    <3> HIDE DEF Json_
    <3>5. \A k \in DOMAIN Json_(v, writer).items :
             Parts[Json_(v, writer).items[k]] \subseteq JsonParts(writer)
      BY <3>1, <3>4
    <3>6. QED
      BY <2>2, <3>3, <3>5, PartsIn
  <2>4. CASE v.type \notin {"dict", "list"}
    <3>1. v.type \notin {"set"} \cup DOMAIN Schema
      BY <2>1, PartsFacts DEF PlainParts
    <3>2. DOMAIN v.items = {}
      <4>1. v = Value(v.type, v.text)
        BY <2>4, <3>1, ValueFacts DEF Collections
      <4>2. QED
        BY <4>1, ValueFields
    <3>3. Json_(v, writer).type \in Json /\ DOMAIN Json_(v, writer).items = {}
      <4>1. CASE Json_(v, writer) = None
        <5>1. None.type = "None" /\ DOMAIN None.items = {}
          BY ValueFields DEF None
        <5> HIDE DEF Json_
        <5>2. QED
          BY <4>1, <5>1 DEF Json
      <4>2. CASE v.type \in Json /\ Json_(v, writer) = v
        BY <3>2, <4>2
      <4>3. CASE Json_(v, writer) = _json_default(v)
        <5>1. CASE v.type \in Enums
          BY <4>3, <5>1, ValueFields DEF _json_default, Json
        <5>2. CASE v.type \notin Enums
          BY <2>1, <3>2, <4>3, <5>2, WithFields DEF _json_default, Json
        <5>3. QED
          BY <5>1, <5>2
      <4>4. QED
        BY <2>4, <4>1, <4>2, <4>3, JsonScalar
    <3> HIDE DEF Json_
    <3>4. Json_(v, writer) \in JsonParts(writer)
      BY <2>2, <3>3 DEF JsonParts, StrKeys
    <3>5. QED
      BY <2>2, <3>3, <3>4, PartsIn
  <2>5. QED
    BY <2>3, <2>4
<1>2. Values \subseteq T
  <2> HIDE DEF T
  <2>1. QED
    BY <1>1, ValueInduction
<1>3. QED
  BY <1>2

\* What JSON has as it is, every writer leaves as it is.
LEMMA JsonUnchanged ==
    \A v \in Values :
        (\A u \in Parts[v] : InJson(u)) =>
            /\ _to_plain[v] = v
            /\ \A writer \in Writers : _encode_json_type(writer)[v] = v
<1> DEFINE Fit(v) == \A u \in Parts[v] : InJson(u)
           Same(v) == /\ _to_plain[v] = v
                      /\ \A writer \in Writers : _encode_json_type(writer)[v] = v
           T == {v \in Values : Fit(v) => Same(v)}
<1>1. ASSUME NEW v \in Values, \A f \in DOMAIN v.items : v.items[f] \in T
      PROVE  v \in T
  <2>1. SUFFICES ASSUME Fit(v) PROVE Same(v)
    OBVIOUS
  <2>2. /\ v.type \in Json /\ ~IsNonFinite(v) /\ StrKeys(v)
        /\ \A f \in DOMAIN v.items : Same(v.items[f])
    BY <1>1, <2>1, PartsFacts DEF InJson
  <2>3. CASE v.type \in {"dict", "list"}
    <3>1. v = With(v, v.type, [f \in DOMAIN v.items |-> v.items[f]])
      BY ValueFacts
    <3>2. _to_plain[v] = v
      <4>1. _to_plain[v] = With(v, v.type, [f \in DOMAIN v.items |-> _to_plain[v.items[f]]])
        BY <2>3, PlainCollection DEF Collections
      <4>2. [f \in DOMAIN v.items |-> _to_plain[v.items[f]]] = [f \in DOMAIN v.items |-> v.items[f]]
        BY <2>2
      <4>3. QED
        BY <3>1, <4>1, <4>2
    <3>3. ASSUME NEW writer \in Writers
          PROVE  _encode_json_type(writer)[v] = v
      <4> DEFINE encoded == [f \in DOMAIN v.items |-> _encode_json_type(writer)[v.items[f]]]
      <4>1. encoded = [f \in DOMAIN v.items |-> v.items[f]]
        BY <2>2
      <4>2. Error \notin Range(encoded)
        <5>1. \A f \in DOMAIN v.items : v.items[f] # Error
          BY ValueFacts
        <5>2. QED
          BY <4>1, <5>1 DEF Range
      <4>3. _encode_json_type(writer)[v] = JsonOf(v, encoded, writer)
        BY JsonDef
      <4>4. ASSUME v.type = "dict"
            PROVE  Keyed(encoded) = encoded
        <5>1. DOMAIN encoded \cap DOMAIN KeyText = {}
          BY <2>2, <4>4 DEF StrKeys
        <5>2. encoded = [f \in DOMAIN encoded |-> encoded[f]]
          OBVIOUS
        <5> HIDE DEF encoded
        <5>3. QED
          BY <5>1, <5>2, KeyedSame
      <4> HIDE DEF encoded
      <4>5. JsonOf(v, encoded, writer) = With(v, v.type, encoded)
        BY <2>3, <4>2, <4>4 DEF JsonOf
      <4>6. QED
        BY <3>1, <4>1, <4>3, <4>5
    <3>4. QED
      BY <3>2, <3>3
  <2>4. CASE v.type \notin {"dict", "list"}
    <3>1. Scalar(v)
      BY <2>2, <2>4, TypeNames DEF Scalar, Collections, Builtin, Json
    <3>2. QED
      BY <2>2, <2>4, <3>1, PlainScalar, JsonScalar
  <2>5. QED
    BY <2>3, <2>4
<1>2. Values \subseteq T
  <2> HIDE DEF T
  <2>1. QED
    BY <1>1, ValueInduction
<1>3. QED
  BY <1>2

-----------------------------------------------------------------------------
\* The constructor.

\* encode() is idempotent, turns nothing into an exception, and keeps what is false.
LEMMA EncodeFacts ==
    /\ encode(Error) = Error /\ encode(None) = None
    /\ \A v : /\ encode(encode(v)) = encode(v)
              /\ encode(v) = Error => v = Error
              /\ encode(v) \in Falsy <=> v \in Falsy
              /\ v.type \in {"str", "bytes"} => encode(v).type \in {"str", "bytes"}
              /\ v.type # "str" => encode(v) = v
    /\ \A v \in Values : encode(v) \in Values
<1>1. Error.type = "error" /\ None.type = "None"
  BY ValueFields DEF Error, None
<1>2. ASSUME NEW v
      PROVE  /\ encode(encode(v)) = encode(v)
             /\ encode(v) = Error => v = Error
             /\ encode(v) \in Falsy <=> v \in Falsy
             /\ v.type \in {"str", "bytes"} => encode(v).type \in {"str", "bytes"}
             /\ v.type # "str" => encode(v) = v
  <2>1. CASE v.type = "str" /\ v.text # ""
    <3> DEFINE w == Value("bytes", v.text)
    <3>1. encode(v) = w /\ w.type = "bytes" /\ w.text = v.text
      BY <2>1, ValueFields DEF encode
    <3> HIDE DEF w
    <3>2. encode(w) = w
      BY <3>1 DEF encode
    <3>3. \A x \in Falsy : x.type \in {"str", "bytes"} => x.text = ""
      <4>1. /\ Value("bool", "False").type = "bool" /\ Value("int", "0").type = "int"
            /\ Value("float", "0").type = "float" /\ None.type = "None"
            /\ Value("str", "").text = "" /\ Value("bytes", "").text = ""
        BY ValueFields DEF None
      <4>2. QED
        BY <4>1 DEF Falsy
    <3>4. v \notin Falsy /\ w \notin Falsy
      BY <2>1, <3>1, <3>3
    <3>5. w # Error
      BY <1>1, <3>1
    <3>6. QED
      BY <2>1, <3>1, <3>2, <3>4, <3>5
  <2>2. CASE ~(v.type = "str" /\ v.text # "")
    BY <2>2 DEF encode
  <2>3. QED
    BY <2>1, <2>2
<1>3. encode(Error) = Error /\ encode(None) = None
  BY <1>1 DEF encode
<1>4. QED
  BY <1>2, <1>3, ClosureAssumption

\* __post_init__() converts PEMs, and leaves half an identity half a one.
LEMMA PostInitFacts ==
    ASSUME NEW items
    PROVE  /\ DOMAIN __post_init__(items) = DOMAIN items
           /\ \A f \in DOMAIN items :
                 __post_init__(items)[f] = IF f \in Pems THEN encode(items[f]) ELSE items[f]
           /\ Half(__post_init__(items)) <=> Half(items)
<1>1. /\ DOMAIN __post_init__(items) = DOMAIN items
      /\ \A f \in DOMAIN items :
            __post_init__(items)[f] = IF f \in Pems THEN encode(items[f]) ELSE items[f]
  BY DEF __post_init__
<1>2. \A f \in DOMAIN items : __post_init__(items)[f] \in Falsy <=> items[f] \in Falsy
  BY <1>1, EncodeFacts
<1>3. QED
  BY <1>1, <1>2 DEF Half, Given

\* What the constructor refuses, and what it builds.
LEMMA ConstructedFacts ==
    ASSUME NEW klass \in DOMAIN Schema, NEW items
    PROVE  /\ Constructed(klass, items) = Error
                 <=> Half(items) \/ \E f \in DOMAIN items : items[f] = Error
           /\ Constructed(klass, items) # Error =>
                 /\ Constructed(klass, items).type = klass
                 /\ Constructed(klass, items).text = ""
                 /\ Constructed(klass, items).items = __post_init__(items)
                 /\ Constructed(klass, items) = With(None, klass, __post_init__(items))
<1> DEFINE built == [type |-> klass, text |-> "", items |-> __post_init__(items)]
<1>1. klass # "error"
  BY TypeNames DEF Builtin
<1>2. Error.type = "error" /\ None.text = ""
  BY ValueFields DEF Error, None
<1>3. built.type = klass /\ built.text = "" /\ built.items = __post_init__(items)
      /\ built = With(None, klass, __post_init__(items))
  BY <1>2 DEF With
<1>4. Constructed(klass, items) = IF Error \in Range(items) \/ Half(items) THEN Error ELSE built
  BY DEF Constructed
<1> HIDE DEF built
<1>5. built # Error
  BY <1>1, <1>2, <1>3
<1>6. Error \in Range(items) <=> \E f \in DOMAIN items : items[f] = Error
  BY DEF Range
<1>7. QED
  BY <1>3, <1>4, <1>5, <1>6

-----------------------------------------------------------------------------
\* Reading.

Decoded(c, f, infer, d) == _decode_value(Schema[c][f].types, d, Decoder(infer)[d])

DecodedItems(c, kvs, infer) ==
    [f \in DOMAIN Schema[c] |->
        IF f \in DOMAIN kvs.items THEN Decoded(c, f, infer, kvs.items[f])
        ELSE Absent(Schema[c][f], infer)]

\* A field once the constructor has it too.
Taken(f, v) == IF f \in Pems THEN encode(v) ELSE v

\* Reading a dict constructs the class of its decoded items.
LEMMA DecodeDataclass ==
    ASSUME NEW c \in DOMAIN Schema, NEW kvs, kvs.type = "dict", NEW infer
    PROVE  _decode_dataclass(c, kvs, [f \in DOMAIN kvs.items |-> Decoder(infer)[kvs.items[f]]], infer)
               = Constructed(c, DecodedItems(c, kvs, infer))
<1> DEFINE of == [f \in DOMAIN kvs.items |-> Decoder(infer)[kvs.items[f]]]
           items == [f \in DOMAIN Schema[c] |->
             IF Present(f, kvs) THEN _decode_value(Schema[c][f].types, kvs.items[f], of[f])
             ELSE Absent(Schema[c][f], infer)]
<1>1. kvs.type # c
  BY TypeNames DEF Builtin, Json
<1>2. items = DecodedItems(c, kvs, infer)
  BY DEF DecodedItems, Present, Decoded
<1>3. _decode_dataclass(c, kvs, of, infer) = Constructed(c, items)
  BY <1>1 DEF _decode_dataclass, Decodable
<1>4. QED
  BY <1>2, <1>3

\* What a field decodes a value to: as a class, as it is, or by its builtin.
LEMMA DecodedCases ==
    ASSUME NEW c \in DOMAIN Schema, NEW f \in DOMAIN Schema[c], NEW infer, NEW d \in Values
    PROVE  LET type == Target(Schema[c][f].types)
               w == Decoded(c, f, infer, d)
           IN /\ d = None => w = None
              /\ d # None /\ type \in DOMAIN Schema =>
                    /\ d.type \in DOMAIN Schema => w = d
                    /\ d.type = "dict" => w = Constructed(type, DecodedItems(type, d, infer))
                    /\ d.type \notin {"dict"} \cup DOMAIN Schema => w = Error
              /\ d # None /\ type \notin DOMAIN Schema =>
                    /\ Keeps(type, d) => w = d
                    /\ ~Keeps(type, d) =>
                          w = IF d \in DOMAIN Builtins[type] THEN Builtins[type][d] ELSE Error
<1> DEFINE type == Target(Schema[c][f].types)
           w == Decoded(c, f, infer, d)
<1>1. w = IF d = None THEN None
          ELSE IF type \in DOMAIN Schema
               THEN IF d.type \in DOMAIN Schema THEN d ELSE Decoder(infer)[d][type]
          ELSE IF Keeps(type, d) THEN d
          ELSE IF d \in DOMAIN Builtins[type] THEN Builtins[type][d] ELSE Error
  BY DEF Decoded, _decode_value
<1>2. ASSUME type \in DOMAIN Schema, d.type \notin DOMAIN Schema
      PROVE  /\ d.type = "dict" => Decoder(infer)[d][type] = Constructed(type, DecodedItems(type, d, infer))
             /\ d.type # "dict" => Decoder(infer)[d][type] = Error
  <2> DEFINE of == [g \in DOMAIN d.items |-> Decoder(infer)[d.items[g]]]
  <2>1. Decoder(infer)[d][type] = _decode_dataclass(type, d, of, infer)
    BY <1>2, DecoderDef
  <2>2. d.type # type
    BY <1>2
  <2> HIDE DEF type
  <2>3. d.type # "dict" => _decode_dataclass(type, d, of, infer) = Error
    BY <2>2 DEF _decode_dataclass, Decodable
  <2>4. d.type = "dict" => _decode_dataclass(type, d, of, infer) = Constructed(type, DecodedItems(type, d, infer))
    BY <1>2, DecodeDataclass
  <2>5. QED
    BY <2>1, <2>3, <2>4
<1>3. "dict" \notin DOMAIN Schema
  BY TypeNames DEF Builtin, Json
<1> HIDE DEF type, w
<1>4. QED
  BY <1>1, <1>2, <1>3 DEF type, w

\* What a builtin makes has its type.
LEMMA BuiltinsFacts ==
    ASSUME NEW type \in Coerced, NEW d \in DOMAIN Builtins[type]
    PROVE  Builtins[type][d] \in Values /\ Builtins[type][d].type = type /\ Scalar(Builtins[type][d])
BY BuiltinsAssumption, TypeNames DEF Scalar

\* A field decodes a value to a value, or raises.
LEMMA DecodedIsValue ==
    ASSUME NEW c \in DOMAIN Schema, NEW f \in DOMAIN Schema[c], NEW infer \in BOOLEAN, NEW d \in Values
    PROVE  Decoded(c, f, infer, d) \in Values \cup {Error}
<1> DEFINE type == Target(Schema[c][f].types)
<1>1. type \in DOMAIN Schema => Decoder(infer)[d][type] \in Values \cup {Error}
  <2>1. type \in Nested
    BY DEF Nested
  <2>2. QED
    BY <2>1, ClosureAssumption
<1>2. ~Keeps(type, d) => type \in Coerced
  BY DEF Keeps
<1>3. Decoded(c, f, infer, d) = IF d = None THEN None
          ELSE IF type \in DOMAIN Schema
               THEN IF d.type \in DOMAIN Schema THEN d ELSE Decoder(infer)[d][type]
          ELSE IF Keeps(type, d) THEN d
          ELSE IF d \in DOMAIN Builtins[type] THEN Builtins[type][d] ELSE Error
  BY DEF Decoded, _decode_value
<1> HIDE DEF type
<1>4. QED
  BY <1>1, <1>2, <1>3, BuiltinsFacts

\* An absent field that is not refused is its default, or None.
LEMMA AbsentFacts ==
    ASSUME NEW c \in DOMAIN Schema, NEW f \in DOMAIN Schema[c], NEW infer,
           Absent(Schema[c][f], infer) # Error
    PROVE  /\ Absent(Schema[c][f], infer) \in Values
           /\ Absent(Schema[c][f], infer) =
                 IF Schema[c][f].default = Mandatory THEN None ELSE Schema[c][f].default
           /\ Typed(Schema[c][f].types, Absent(Schema[c][f], infer), {})
           /\ f \in Pems => Absent(Schema[c][f], infer) = None
<1>1. Typed(Schema[c][f].types, None, {})
  <2>0. None.type = "None" /\ "None" \notin DOMAIN Schema
    BY TypeNames, ValueFields DEF None, Builtin, Json
  <2>1. None.type \notin Collections \cup DOMAIN Schema
    BY <2>0 DEF Collections
  <2>2. Instances(None) = {}
    BY <2>1, ValueFacts, PartsFacts
  <2>3. QED
    BY <2>2 DEF Typed, HasType
<1>2. f \in Pems => Schema[c][f].default = None
  BY SchemaAssumption
<1>3. None # Mandatory
  BY ValueFacts
<1>4. QED
  BY <1>1, <1>2, <1>3, DefaultAssumption, ValueFacts DEF Absent

\* What is typed but for some instances is typed but for more of them.
LEMMA TypedMore ==
    ASSUME NEW types, NEW v, NEW P, NEW Q, P \subseteq Q, Typed(types, v, P)
    PROVE  Typed(types, v, Q)
BY DEF Typed

\* The declared type of a PEM.
PemTypes == {"str", "None"}

\* A PEM is declared Optional[str], and so is decoded as text.
LEMMA PemTarget ==
    /\ Target(PemTypes) = "str"
    /\ "str" \in Coerced /\ "str" \notin DOMAIN Schema
    /\ \A c \in DOMAIN Schema : \A f \in Pems \cap DOMAIN Schema[c] : Schema[c][f].types = PemTypes
<1>1. Cardinality({"str", "None"}) = 2
  <2>1. IsFiniteSet({"None"}) /\ Cardinality({"None"}) = 1
    BY FS_Singleton
  <2>2. "str" \notin {"None"} /\ {"None"} \cup {"str"} = {"str", "None"}
    OBVIOUS
  <2>3. Cardinality({"None"} \cup {"str"}) = Cardinality({"None"}) + 1
    BY <2>1, <2>2, FS_AddElement
  <2>4. QED
    BY <2>1, <2>2, <2>3
<1>2. {"str", "None"} \ {"None"} = {"str"} /\ Cardinality({"str"}) = 1
  BY FS_Singleton
<1>3. (CHOOSE type \in {"str"} : TRUE) = "str"
  OBVIOUS
<1>4. Target(PemTypes) = "str"
  BY <1>1, <1>2, <1>3 DEF Target, PemTypes
<1>5. QED
  BY <1>4, SchemaAssumption, TypeNames DEF PemTypes, Builtin, Json, Coerced

\* A PEM of whatever type is read as text or bytes, and the constructor makes it bytes.
LEMMA PemDecoded ==
    ASSUME NEW c \in DOMAIN Schema, NEW f \in Pems \cap DOMAIN Schema[c], NEW infer \in BOOLEAN,
           NEW d \in Values
    PROVE  /\ Decoded(c, f, infer, d) \in Values
           /\ d = None \/ d.type \in {"str", "bytes"} => Decoded(c, f, infer, d) = d
           /\ Decoded(c, f, infer, d) = None \/ Decoded(c, f, infer, d).type \in {"str", "bytes"}
<1>1. Target(Schema[c][f].types) = "str" /\ "str" \in Coerced /\ "str" \notin DOMAIN Schema
  BY PemTarget
<1>2. Keeps("str", d) <=> d.type \in {"str", "bytes"}
  BY <1>1 DEF Keeps, IsInstance
<1>3. d \in DOMAIN Builtins["str"] /\ Builtins["str"][d] \in Values /\ Builtins["str"][d].type = "str"
  BY <1>1, BuiltinsAssumption
<1>4. QED
  BY <1>1, <1>2, <1>3, DecodedCases, ValueFacts

\* A scalar is typed when it has its type: there is no instance in it.
LEMMA TypedScalar ==
    ASSUME NEW types, NEW v \in Values, Scalar(v), HasType(types, v), NEW P
    PROVE  Typed(types, v, P)
BY PartsFacts DEF Typed, Scalar

\* None is typed, whatever the field.
LEMMA NoneTyped ==
    ASSUME NEW types, NEW P
    PROVE  Typed(types, None, P) /\ Scalar(None) /\ None \in Values
<1>1. None.type = "None" /\ "None" \notin DOMAIN Schema
  BY TypeNames, ValueFields DEF None, Builtin, Json
<1>2. Scalar(None)
  BY <1>1 DEF Scalar, Collections
<1>3. QED
  BY <1>2, ValueFacts, TypedScalar DEF HasType

\* Text and bytes are typed as PEMs.
LEMMA PemTyped ==
    ASSUME NEW v \in Values, v = None \/ v.type \in {"str", "bytes"}, NEW P
    PROVE  Scalar(v) /\ Typed(PemTypes, v, P)
<1>1. \A t \in {"str", "bytes"} : t \notin DOMAIN Schema /\ t \notin Collections
  BY TypeNames DEF Builtin, Json, Collections
<1>2. Scalar(v)
  BY <1>1, NoneTyped DEF Scalar
<1>3. HasType(PemTypes, v)
  BY PemTarget DEF HasType, IsInstance
<1>4. QED
  BY <1>2, <1>3, TypedScalar

\* What is read of the field of a class, taken, has the field's type, but for the
\* instances that were there.
ReadTyped(d) ==
    \A c \in DOMAIN Schema : \A f \in DOMAIN Schema[c] : \A infer \in BOOLEAN :
        Decoded(c, f, infer, d) # Error =>
            /\ Taken(f, Decoded(c, f, infer, d)) \in Values
            /\ Typed(Schema[c][f].types, Taken(f, Decoded(c, f, infer, d)), Instances(d))

\* The fields of what a constructor is given, taken.
LEMMA ItemsTyped ==
    ASSUME NEW c \in DOMAIN Schema, NEW kvs, NEW infer \in BOOLEAN,
           \A f \in DOMAIN kvs.items : kvs.items[f] \in Values /\ ReadTyped(kvs.items[f]),
           NEW f \in DOMAIN Schema[c], DecodedItems(c, kvs, infer)[f] # Error
    PROVE  LET v == Taken(f, DecodedItems(c, kvs, infer)[f])
           IN /\ v \in Values
              /\ f \in DOMAIN kvs.items => Typed(Schema[c][f].types, v, Instances(kvs.items[f]))
              /\ f \notin DOMAIN kvs.items =>
                    /\ v = IF Schema[c][f].default = Mandatory THEN None ELSE Schema[c][f].default
                    /\ Typed(Schema[c][f].types, v, {})
<1>1. CASE f \in DOMAIN kvs.items
  <2>1. DecodedItems(c, kvs, infer)[f] = Decoded(c, f, infer, kvs.items[f])
    BY <1>1 DEF DecodedItems
  <2>2. QED
    BY <1>1, <2>1 DEF ReadTyped
<1>2. CASE f \notin DOMAIN kvs.items
  <2>1. DecodedItems(c, kvs, infer)[f] = Absent(Schema[c][f], infer)
    BY <1>2 DEF DecodedItems
  <2>2. Taken(f, Absent(Schema[c][f], infer)) = Absent(Schema[c][f], infer)
    BY <2>1, AbsentFacts, EncodeFacts DEF Taken
  <2>3. QED
    BY <1>2, <2>1, <2>2, AbsentFacts
<1>3. QED
  BY <1>1, <1>2

\* By induction over the nesting of what is read.
LEMMA DecodedTyped == \A d \in Values : ReadTyped(d)
<1> DEFINE T == {d \in Values : ReadTyped(d)}
<1>1. ASSUME NEW d \in Values, \A g \in DOMAIN d.items : d.items[g] \in T
      PROVE  d \in T
  <2>1. SUFFICES ASSUME NEW c \in DOMAIN Schema, NEW f \in DOMAIN Schema[c], NEW infer \in BOOLEAN,
                        Decoded(c, f, infer, d) # Error
                 PROVE  /\ Taken(f, Decoded(c, f, infer, d)) \in Values
                        /\ Typed(Schema[c][f].types, Taken(f, Decoded(c, f, infer, d)), Instances(d))
    BY DEF ReadTyped
  <2> DEFINE types == Schema[c][f].types
             type == Target(types)
             w == Decoded(c, f, infer, d)
  <2>2. w \in Values
    BY <2>1, DecodedIsValue
  <2>3. Taken(f, w) \in Values
    BY <2>2, EncodeFacts DEF Taken
  <2>4. CASE f \in Pems
    <3>1. w = None \/ w.type \in {"str", "bytes"}
      BY <2>4, PemDecoded
    <3>2. Taken(f, w) = encode(w)
      BY <2>4 DEF Taken
    <3> HIDE DEF w
    <3>3. Taken(f, w) = None \/ Taken(f, w).type \in {"str", "bytes"}
      BY <3>1, <3>2, EncodeFacts
    <3>4. types = PemTypes
      BY <2>4, PemTarget
    <3>5. QED
      BY <2>3, <3>3, <3>4, PemTyped DEF w
  <2>5. CASE f \notin Pems
    <3>1. Taken(f, w) = w
      BY <2>5 DEF Taken
    <3>2. CASE d = None
      BY <2>3, <3>1, <3>2, DecodedCases, NoneTyped
    <3>3. CASE d # None /\ type \in DOMAIN Schema /\ d.type \in DOMAIN Schema
      <4>1. w = d
        BY <3>3, DecodedCases
      <4>2. d \in Instances(d)
        BY <3>3, InstancesFacts
      <4>3. QED
        BY <2>2, <3>1, <4>1, <4>2 DEF Typed
    <3>4. CASE d # None /\ type \in DOMAIN Schema /\ d.type \notin DOMAIN Schema
      <4>1. d.type = "dict" /\ w = Constructed(type, DecodedItems(type, d, infer))
        BY <2>1, <3>4, DecodedCases
      <4> DEFINE items == DecodedItems(type, d, infer)
      <4>3. DOMAIN items = DOMAIN Schema[type]
        BY DEF DecodedItems
      <4>a. type \in DOMAIN Schema /\ w = Constructed(type, items) /\ w # Error
        BY <2>1, <3>4, <4>1
      <4> HIDE DEF items, w, type
      <4>2. /\ w.type = type
            /\ w.items = __post_init__(items)
            /\ \A g \in DOMAIN items : items[g] # Error
        BY <4>a, ConstructedFacts
      <4>4. /\ DOMAIN w.items = DOMAIN Schema[type]
            /\ \A g \in DOMAIN w.items : w.items[g] = Taken(g, items[g])
        BY <4>2, <4>3, PostInitFacts DEF Taken
      <4>5. ASSUME NEW g \in DOMAIN w.items
            PROVE  w.items[g] \in Values /\ Typed(Schema[type][g].types, w.items[g], Instances(d))
        <5>1. \A h \in DOMAIN d.items : d.items[h] \in Values /\ ReadTyped(d.items[h])
          BY <1>1
        <5>2. g \in DOMAIN Schema[type] /\ items[g] # Error
          BY <4>2, <4>3, <4>4
        <5>3. /\ w.items[g] \in Values
              /\ g \in DOMAIN d.items => Typed(Schema[type][g].types, w.items[g], Instances(d.items[g]))
              /\ g \notin DOMAIN d.items => Typed(Schema[type][g].types, w.items[g], {})
          BY <3>4, <4>4, <5>1, <5>2, ItemsTyped DEF items
        <5>4. QED
          BY <5>3, InstancesFacts, TypedMore
      <4>6. HasType(types, w)
        BY <4>2 DEF HasType, IsInstance, type
      <4>7. ASSUME NEW u \in Instances(w) \ Instances(d), NEW h \in DOMAIN u.items
            PROVE  HasType(Schema[u.type][h].types, u.items[h]) \/ u.items[h] \in Instances(d)
        <5>1. CASE u = w
          BY <4>2, <4>5, <5>1 DEF Typed
        <5>2. CASE u # w
          <6>1. PICK g \in DOMAIN w.items : u \in Parts[w.items[g]]
            BY <2>2, <5>2, PartsDef DEF Instances, w
          <6>2. u \in Instances(w.items[g])
            BY <6>1 DEF Instances
          <6>3. QED
            BY <4>5, <6>1, <6>2 DEF Typed
        <5>3. QED
          BY <5>1, <5>2
      <4>8. Typed(types, w, Instances(d))
        BY <4>6, <4>7 DEF Typed
      <4>9. QED
        BY <2>3, <3>1, <4>8 DEF w
    <3>5. CASE d # None /\ type \notin DOMAIN Schema /\ Keeps(type, d)
      <4>1. w = d
        BY <3>5, DecodedCases
      <4>2. HasType(types, d)
        BY <3>5 DEF HasType, Keeps
      <4>3. QED
        BY <2>3, <3>1, <4>1, <4>2 DEF Typed
    <3>6. CASE d # None /\ type \notin DOMAIN Schema /\ ~Keeps(type, d)
      <4>1. type \in Coerced
        BY <3>6 DEF Keeps
      <4>2. d \in DOMAIN Builtins[type] /\ w = Builtins[type][d]
        BY <2>1, <3>6, DecodedCases
      <4>3. w.type = type /\ Scalar(w)
        BY <4>1, <4>2, BuiltinsFacts
      <4>4. HasType(types, w)
        BY <4>3 DEF HasType, IsInstance
      <4>5. QED
        BY <2>2, <2>3, <3>1, <4>3, <4>4, TypedScalar
    <3>7. QED
      BY <3>2, <3>3, <3>4, <3>5, <3>6
  <2>6. QED
    BY <2>4, <2>5
<1>2. Values \subseteq T
  <2> HIDE DEF T
  <2>1. QED
    BY <1>1, ValueInduction
<1>3. QED
  BY <1>2

-----------------------------------------------------------------------------
\* What a field that holds v is written as, in whatever format.
Written(f, v, d) ==
    /\ d \in Values
    /\ \/ d = PlainAt(f, v)
       \/ \E writer \in Writers : d = _encode_json_type(writer)[PlainAt(f, v)]

\* An instance is written as a dict of its fields, each as it is written.
LEMMA WrittenInstance ==
    ASSUME NEW v \in Values, v.type \in DOMAIN Schema, NEW f, f \notin Pems, NEW d, Written(f, v, d)
    PROVE  /\ d.type = "dict"
           /\ DOMAIN d.items = DOMAIN Schema[v.type]
           /\ \A g \in DOMAIN d.items : Written(g, v.items[g], d.items[g])
<1> DEFINE p == _to_plain[v]
<1>1. PlainAt(f, v) = p
  BY DEF PlainAt
<1>2. p \in Values
  BY PlainIsValue
<1>3. /\ p.type = "dict"
      /\ DOMAIN p.items = DOMAIN v.items
      /\ \A g \in DOMAIN v.items : p.items[g] = PlainAt(g, v.items[g])
  BY PlainInstance
<1> HIDE DEF p
<1>4. CASE d = p
  <2>1. \A g \in DOMAIN v.items : d.items[g] \in Values
    BY <1>2, <1>3, <1>4, ValueFacts
  <2>2. QED
    BY <1>3, <1>4, <2>1, InstanceFacts DEF Written
<1>5. ASSUME NEW writer \in Writers, d = _encode_json_type(writer)[p]
      PROVE  /\ d.type = "dict"
             /\ DOMAIN d.items = DOMAIN Schema[v.type]
             /\ \A g \in DOMAIN d.items : Written(g, v.items[g], d.items[g])
  <2>1. d # Error /\ d \in Values
    BY ValueFacts DEF Written
  <2>2. StrKeys(p)
    BY <1>3, InstanceFacts, SchemaAssumption DEF StrKeys
  <2>3. /\ d.type = "dict"
        /\ DOMAIN d.items = DOMAIN v.items
        /\ \A g \in DOMAIN v.items : d.items[g] = _encode_json_type(writer)[PlainAt(g, v.items[g])]
    BY <1>2, <1>3, <1>5, <2>2, <2>1, JsonCollection
  <2>4. \A g \in DOMAIN d.items : d.items[g] \in Values
    BY <2>1, ValueFacts
  <2>5. QED
    BY <2>3, <2>4, InstanceFacts DEF Written
<1>6. QED
  BY <1>1, <1>4, <1>5 DEF Written

\* A scalar of JSON is written as it is (or as None, not being finite); an Enum member as its value.
LEMMA WrittenScalar ==
    ASSUME NEW v \in Values, Scalar(v), NEW f, f \notin Pems, NEW d, Written(f, v, d)
    PROVE  /\ v.type \in Json /\ ~IsNonFinite(v) => d = v
           /\ v.type \in Json => d \in {v, None}
           /\ v.type \in Enums => d \in {v, Value("str", v.text)}
<1>1. PlainAt(f, v) = v
  BY PlainScalar DEF PlainAt
<1>2. v.type \notin {"dict", "list"}
  BY DEF Scalar, Collections
<1>3. \A writer : _encode_json_type(writer)[v] =
               IF writer = "orjson" /\ IsNonFinite(v) THEN None
               ELSE IF v.type \in Json THEN v ELSE _json_default(v)
  BY <1>2, JsonScalar
<1>4. v.type \in Enums => ~IsNonFinite(v) /\ v.type \notin Json /\ _json_default(v) = Value("str", v.text)
  BY TypeNames DEF IsNonFinite, _json_default, Builtin, Json
<1>5. QED
  BY <1>1, <1>3, <1>4 DEF Written

\* A PEM that is None, text or bytes is written as None or text.
LEMMA WrittenPem ==
    ASSUME NEW f \in Pems, NEW v \in Values, v = None \/ v.type \in {"str", "bytes"},
           NEW d, Written(f, v, d)
    PROVE  /\ d = IF v.type = "bytes" THEN Value("str", v.text) ELSE v
           /\ d = None \/ d.type = "str"
           /\ d \in Falsy <=> v \in Falsy
<1> DEFINE w == IF v.type = "bytes" THEN Value("str", v.text) ELSE v
<1>1. Scalar(v)
  BY PemTyped
<1>2. _encode_grpc_cert(v) = w /\ w \in Values /\ Scalar(w)
  BY <1>1, CertFacts
<1>3. None.type = "None"
  BY ValueFields DEF None
<1>4. w = None \/ w.type = "str"
  BY ValueFields
<1>5. w.type \in {"None", "str"} /\ (v.type = "bytes" => w.text = v.text)
  BY <1>3, <1>4, ValueFields
<1>6. v.type = "bytes" => v = Value("bytes", v.text)
  BY <1>1, ValueFacts DEF Scalar
<1>7. w \in Falsy <=> v \in Falsy
  <2>1. CASE v.type = "bytes"
    <3>1. /\ Value("bool", "False").type = "bool" /\ Value("int", "0").type = "int"
          /\ Value("float", "0").type = "float"
          /\ Value("str", "").text = "" /\ Value("bytes", "").text = ""
          /\ Value("str", "").type = "str" /\ Value("bytes", "").type = "bytes"
      BY ValueFields
    <3>2. w.type = "str" /\ w.text = v.text /\ w = Value("str", v.text)
      BY <2>1, ValueFields
    <3>3. v \in Falsy <=> v.text = ""
      BY <1>3, <1>6, <2>1, <3>1 DEF Falsy
    <3> HIDE DEF w
    <3>4. w \in Falsy <=> w.text = ""
      BY <1>3, <3>1, <3>2 DEF Falsy
    <3>5. QED
      BY <3>2, <3>3, <3>4
  <2>2. QED
    BY <2>1
<1> HIDE DEF w
<1>8. ASSUME NEW writer \in Writers
      PROVE  _encode_json_type(writer)[w] = w
  <2>1. w.type \in Json /\ w.type \notin {"dict", "list"} /\ ~IsNonFinite(w)
    BY <1>5 DEF Json, IsNonFinite
  <2>2. QED
    BY <1>2, <2>1, JsonScalar
<1>9. d = w
  BY <1>2, <1>8 DEF Written, PlainAt
<1>10. QED
  BY <1>4, <1>7, <1>9 DEF w

\* The constructor builds what has no exception in it and no half identity.
LEMMA ConstructedFit ==
    ASSUME NEW klass \in DOMAIN Schema, NEW items, ~Half(items), \A f \in DOMAIN items : items[f] # Error
    PROVE  /\ Constructed(klass, items) # Error
           /\ Constructed(klass, items) = With(None, klass, __post_init__(items))
<1>1. Constructed(klass, items) = Error
          <=> Half(items) \/ \E f \in DOMAIN items : items[f] = Error
  BY ConstructedFacts
<1>2. Constructed(klass, items) # Error
  BY <1>1
<1>3. QED
  BY <1>2, ConstructedFacts

\* A value of its field's type, written in whatever format, is never refused.
ReadsBack(v) ==
    \A c \in DOMAIN Schema : \A f \in DOMAIN Schema[c] : \A infer \in BOOLEAN : \A d \in Values :
        Typed(Schema[c][f].types, v, {}) /\ Written(f, v, d) => Decoded(c, f, infer, d) # Error

\* So the constructor does not refuse what an instance is written as.
LEMMA InstanceReadsBack ==
    ASSUME NEW v \in Values, v.type \in DOMAIN Schema, NEW d \in Values, NEW infer \in BOOLEAN,
           d.type = "dict", DOMAIN d.items = DOMAIN Schema[v.type],
           \A g \in DOMAIN d.items : /\ Written(g, v.items[g], d.items[g])
                                     /\ ReadsBack(v.items[g])
                                     /\ Typed(Schema[v.type][g].types, v.items[g], {})
    PROVE  Constructed(v.type, DecodedItems(v.type, d, infer)) # Error
<1> DEFINE items == DecodedItems(v.type, d, infer)
<1>1. /\ DOMAIN items = DOMAIN Schema[v.type] /\ DOMAIN v.items = DOMAIN Schema[v.type]
      /\ \A g \in DOMAIN items : items[g] = Decoded(v.type, g, infer, d.items[g])
  BY InstanceFacts DEF DecodedItems
<1> HIDE DEF items
<1>2. \A g \in DOMAIN items : v.items[g] \in Values /\ d.items[g] \in Values
  BY <1>1, ValueFacts
<1>3. \A g \in DOMAIN items : items[g] # Error
  BY <1>1, <1>2 DEF ReadsBack
<1>4. ASSUME NEW g \in DOMAIN items, g \in Pems
      PROVE  items[g] \in Falsy <=> v.items[g] \in Falsy
  <2>1. Typed(PemTypes, v.items[g], {})
    BY <1>1, <1>4, PemTarget
  <2>2. v.items[g] = None \/ v.items[g].type \in {"str", "bytes"}
    BY <2>1, PemTarget DEF Typed, HasType, IsInstance
  <2>3. /\ d.items[g] = None \/ d.items[g].type = "str"
        /\ d.items[g] \in Falsy <=> v.items[g] \in Falsy
    BY <1>1, <1>2, <1>4, <2>2, WrittenPem
  <2>4. items[g] = d.items[g]
    BY <1>1, <1>2, <1>4, <2>3, PemDecoded
  <2>5. QED
    BY <2>3, <2>4
<1>5. "grpc_client_cert" \in Pems /\ "grpc_client_key" \in Pems
  BY DEF Pems
<1>6. Half(items) <=> Half(v.items)
  BY <1>1, <1>4, <1>5 DEF Half, Given
<1>7. v = Constructed(v.type, v.items) /\ v # Error
  BY InstanceFacts, ValueFacts
<1>8. ~Half(v.items)
  BY <1>7, ConstructedFacts
<1> DEFINE klass == v.type
<1>9. klass \in DOMAIN Schema
  OBVIOUS
<1> HIDE DEF klass
<1>10. Constructed(klass, items) # Error
  BY <1>3, <1>6, <1>8, <1>9, ConstructedFit
<1>11. QED
  BY <1>10 DEF items, klass

\* The fields of a typed instance are typed.
LEMMA TypedItems ==
    ASSUME NEW types, NEW v \in Values, v.type \in DOMAIN Schema, Typed(types, v, {}),
           NEW g \in DOMAIN v.items
    PROVE  Typed(Schema[v.type][g].types, v.items[g], {})
BY InstancesFacts DEF Typed

\* By induction over the nesting of what is written.
LEMMA TypedReadsBack == \A v \in Values : ReadsBack(v)
<1> DEFINE T == {v \in Values : ReadsBack(v)}
<1>1. ASSUME NEW v \in Values, \A g \in DOMAIN v.items : v.items[g] \in T
      PROVE  v \in T
  <2>1. SUFFICES ASSUME NEW c \in DOMAIN Schema, NEW f \in DOMAIN Schema[c], NEW infer \in BOOLEAN,
                        NEW d \in Values,
                        Typed(Schema[c][f].types, v, {}), Written(f, v, d)
                 PROVE  Decoded(c, f, infer, d) # Error
    BY DEF ReadsBack
  <2> DEFINE types == Schema[c][f].types
             type == Target(types)
  <2>2. HasType(types, v)
    BY <2>1 DEF Typed
  <2>3. CASE f \in Pems
    BY <2>3, PemDecoded, ValueFacts
  <2>4. CASE f \notin Pems
    <3>1. d = None => Decoded(c, f, infer, d) # Error
      BY DecodedCases, ValueFacts
    <3>2. CASE v = None
      <4>1. v.type = "None" /\ Scalar(v) /\ "None" \in Json
        BY <3>2, NoneTyped, ValueFields DEF None, Json
      <4>2. ~IsNonFinite(v)
        BY <4>1 DEF IsNonFinite
      <4>3. d = None
        BY <2>1, <2>4, <3>2, <4>1, <4>2, WrittenScalar
      <4>4. QED
        BY <3>1, <4>3
    <3>3. CASE type \notin Coerced \cup DOMAIN Schema
      <4>1. Keeps(type, d)
        BY <3>3 DEF Keeps
      <4>2. QED
        BY <3>1, <3>3, <4>1, DecodedCases, ValueFacts
    <3>4. CASE type = "str"
      <4>1. type \in Coerced /\ type \notin DOMAIN Schema
        BY <3>4, PemTarget
      <4>2. d \in DOMAIN Builtins[type]
        BY <3>4, BuiltinsAssumption
      <4>3. Builtins[type][d] # Error
        BY <4>1, <4>2, BuiltinsFacts, ValueFacts
      <4>4. QED
        BY <3>1, <4>1, <4>2, <4>3, DecodedCases, ValueFacts
    <3>5. CASE type \in Coerced /\ IsInstance(v, type)
      <4>1. v.type \in Coerced /\ type \notin DOMAIN Schema
        BY <3>5, TypeNames DEF IsInstance, Coerced
      <4>2. Scalar(v)
        BY <4>1, TypeNames DEF Scalar
      <4>3. d = v => Decoded(c, f, infer, d) # Error
        <5>1. Keeps(type, v)
          BY <3>5 DEF Keeps
        <5>2. QED
          BY <3>1, <4>1, <5>1, DecodedCases, ValueFacts
      <4>4. CASE v.type \in Enums
        <5>1. v.type = type
          BY <3>5, <4>4, TypeNames DEF IsInstance, Builtin, Json
        <5>2. Value("str", v.text) \in DOMAIN Builtins[type] /\ Builtins[type][Value("str", v.text)] = v
          BY <4>4, <5>1, BuiltinsAssumption
        <5>3. d \in {v, Value("str", v.text)}
          BY <2>1, <2>4, <4>2, <4>4, WrittenScalar
        <5>4. QED
          BY <3>1, <4>1, <4>3, <5>2, <5>3, DecodedCases, ValueFacts
      <4>5. CASE v.type \notin Enums
        <5>1. v.type \in Json
          BY <4>1, <4>5 DEF Coerced, Json
        <5>2. d \in {v, None}
          BY <2>1, <2>4, <4>2, <5>1, WrittenScalar
        <5>3. QED
          BY <3>1, <4>3, <5>2
      <4>6. QED
        BY <4>4, <4>5
    <3>6. CASE type \in DOMAIN Schema /\ IsInstance(v, type)
      <4>1. v.type = type
        BY <3>6, TypeNames DEF IsInstance, Builtin, Json
      <4>2. /\ d.type = "dict"
            /\ DOMAIN d.items = DOMAIN Schema[type]
            /\ \A g \in DOMAIN d.items : Written(g, v.items[g], d.items[g])
        BY <2>1, <2>4, <3>6, <4>1, WrittenInstance
      <4>3. \A g \in DOMAIN d.items : /\ ReadsBack(v.items[g])
                                      /\ Typed(Schema[type][g].types, v.items[g], {})
        BY <1>1, <2>1, <3>6, <4>1, <4>2, InstanceFacts, TypedItems
      <4> HIDE DEF type
      <4>4. Constructed(v.type, DecodedItems(v.type, d, infer)) # Error
        BY <3>6, <4>1, <4>2, <4>3, InstanceReadsBack
      <4>5. d # None
        BY <4>2, NoneType
      <4>6. QED
        BY <3>6, <4>1, <4>2, <4>4, <4>5, DecodedCases DEF type
    <3>7. QED
      BY <2>2, <3>2, <3>3, <3>4, <3>5, <3>6 DEF HasType
  <2>5. QED
    BY <2>3, <2>4
<1>2. Values \subseteq T
  <2> HIDE DEF T
  <2>1. QED
    BY <1>1, ValueInduction
<1>3. QED
  BY <1>2

-----------------------------------------------------------------------------
\* A portable value, written in whatever format or left as it is, comes back, and every
\* number written for it is finite.
ComesBack(v) ==
    \A c \in DOMAIN Schema : \A f \in DOMAIN Schema[c] : \A infer \in BOOLEAN : \A d \in Values :
        Portable(f, Schema[c][f].types, v) /\ (Written(f, v, d) \/ d = v) =>
            Taken(f, Decoded(c, f, infer, d)) = v /\ ~HasNonFinite(d)

\* The fields of a portable instance are portable.
LEMMA PortableItems ==
    ASSUME NEW f, NEW types, NEW v \in Values, v.type \in DOMAIN Schema, Portable(f, types, v),
           NEW g \in DOMAIN v.items
    PROVE  Portable(g, Schema[v.type][g].types, v.items[g])
BY InstancesFacts DEF Portable

\* What is not finite in a value is the value itself, or in one of its items.
LEMMA NonFiniteParts ==
    ASSUME NEW d \in Values, ~IsNonFinite(d), \A g \in DOMAIN d.items : ~HasNonFinite(d.items[g])
    PROVE  ~HasNonFinite(d)
BY PartsDef DEF HasNonFinite

\* A finite scalar has nothing in it that is not.
LEMMA NonFiniteScalar ==
    ASSUME NEW d \in Values, Scalar(d), ~IsNonFinite(d)
    PROVE  ~HasNonFinite(d)
BY PartsFacts DEF HasNonFinite, Scalar

\* What an instance of portable fields is written as is constructed anew, equal to it.
LEMMA InstanceComesBack ==
    ASSUME NEW v \in Values, v.type \in DOMAIN Schema, NEW d \in Values, NEW infer \in BOOLEAN,
           d.type = "dict", DOMAIN d.items = DOMAIN Schema[v.type],
           \A g \in DOMAIN d.items : Taken(g, Decoded(v.type, g, infer, d.items[g])) = v.items[g]
    PROVE  Constructed(v.type, DecodedItems(v.type, d, infer)) = v
<1> DEFINE items == DecodedItems(v.type, d, infer)
<1>1. /\ DOMAIN items = DOMAIN Schema[v.type] /\ DOMAIN v.items = DOMAIN Schema[v.type]
      /\ \A g \in DOMAIN items : items[g] = Decoded(v.type, g, infer, d.items[g])
  BY InstanceFacts DEF DecodedItems
<1> HIDE DEF items
<1>2. v = Constructed(v.type, v.items) /\ v # Error
  BY InstanceFacts, ValueFacts
<1> DEFINE klass == v.type
           made == v.items
<1>0. klass \in DOMAIN Schema /\ v = Constructed(klass, made) /\ v # Error
  BY <1>2
<1> HIDE DEF klass, made
<1>3. ~Half(made) /\ v = With(None, klass, __post_init__(made)) /\ v.items = __post_init__(made)
  BY <1>0, ConstructedFacts
<1> USE DEF klass, made
<1>4. \A g \in DOMAIN items : Taken(g, items[g]) = v.items[g] /\ v.items[g] \in Values
  BY <1>1, ValueFacts
<1>5. \A g \in DOMAIN items : items[g] # Error
  BY <1>4, EncodeFacts, ValueFacts DEF Taken
<1>6. __post_init__(items) = v.items
  <2>1. \A g \in DOMAIN items : __post_init__(items)[g] = v.items[g]
    BY <1>4, PostInitFacts DEF Taken
  <2>2. __post_init__(items) = [g \in DOMAIN items |-> __post_init__(items)[g]]
    BY DEF __post_init__
  <2>3. __post_init__(v.items) = [g \in DOMAIN v.items |-> __post_init__(v.items)[g]]
    BY DEF __post_init__
  <2>4. QED
    BY <1>1, <1>3, <2>1, <2>2, <2>3
<1>7. ~Half(items)
  BY <1>3, <1>6, PostInitFacts
<1> HIDE DEF klass
<1>8. Constructed(klass, items) = With(None, klass, v.items)
  BY <1>0, <1>5, <1>6, <1>7, ConstructedFit
<1>9. QED
  BY <1>3, <1>8 DEF items, klass

\* A portable PEM comes back, as the bytes it was.
LEMMA PortablePem ==
    ASSUME NEW f \in Pems, NEW c \in DOMAIN Schema, f \in DOMAIN Schema[c], NEW infer \in BOOLEAN,
           NEW v \in Values, NEW d \in Values, PortableAt(f, PemTypes, v),
           Written(f, v, d) \/ d = v
    PROVE  Taken(f, Decoded(c, f, infer, d)) = v /\ ~HasNonFinite(d)
<1> DEFINE s == Value("str", v.text)
<1>0. s.type = "str" /\ s.text = v.text
  BY ValueFields
<1>1. v = None \/ v = encode(s)
  BY PemTarget DEF PortableAt
<1> HIDE DEF s
<1>2. v = None \/ v.type \in {"str", "bytes"}
  BY <1>0, <1>1, EncodeFacts
<1>3. Scalar(v)
  BY <1>2, PemTyped
<1>4. encode(v) = v
  BY <1>1, EncodeFacts
<1>5. d = v \/ (v.type = "bytes" /\ d = s)
  BY <1>2, WrittenPem DEF s
<1>6. d = None \/ d.type \in {"str", "bytes"}
  BY <1>0, <1>2, <1>5
<1>7. encode(d) = v
  <2>1. "bytes" # None.type
    BY NoneType
  <2>2. QED
    BY <1>1, <1>4, <1>5, <2>1
<1>8. Decoded(c, f, infer, d) = d
  BY <1>6, PemDecoded
<1>9. Scalar(d) /\ ~IsNonFinite(d)
  <2>1. None.type = "None"
    BY ValueFields DEF None
  <2>2. QED
    BY <1>6, <2>1, PemTyped DEF IsNonFinite
<1>10. QED
  BY <1>7, <1>8, <1>9, NonFiniteScalar DEF Taken

\* By induction over the nesting of what is written.
LEMMA PortableComesBack == \A v \in Values : ComesBack(v)
<1> DEFINE T == {v \in Values : ComesBack(v)}
<1>1. ASSUME NEW v \in Values, \A g \in DOMAIN v.items : v.items[g] \in T
      PROVE  v \in T
  <2>1. SUFFICES ASSUME NEW c \in DOMAIN Schema, NEW f \in DOMAIN Schema[c], NEW infer \in BOOLEAN,
                        NEW d \in Values,
                        Portable(f, Schema[c][f].types, v), Written(f, v, d) \/ d = v
                 PROVE  Taken(f, Decoded(c, f, infer, d)) = v /\ ~HasNonFinite(d)
    BY DEF ComesBack
  <2> DEFINE types == Schema[c][f].types
             type == Target(types)
  <2>2. PortableAt(f, types, v)
    BY <2>1 DEF Portable
  <2>3. CASE f \in Pems
    BY <2>1, <2>2, <2>3, PemTarget, PortablePem
  <2>4. CASE f \notin Pems
    <3>0. Taken(f, Decoded(c, f, infer, d)) = Decoded(c, f, infer, d)
      BY <2>4 DEF Taken
    <3>2. CASE v = None
      <4>1. v.type = "None" /\ Scalar(v) /\ "None" \in Json
        BY <3>2, NoneTyped, ValueFields DEF None, Json
      <4>2. ~IsNonFinite(v)
        BY <4>1 DEF IsNonFinite
      <4>3. d = None
        BY <2>1, <2>4, <3>2, <4>1, <4>2, WrittenScalar
      <4>4. QED
        BY <3>0, <3>2, <4>1, <4>2, <4>3, DecodedCases, NonFiniteScalar
    <3>3. CASE v # None /\ type \notin Coerced \cup DOMAIN Schema
      <4>1. \A u \in Parts[v] : InJson(u)
        BY <2>2, <2>4, <3>3 DEF PortableAt
      <4>2. d = v
        BY <2>1, <2>4, <4>1, JsonUnchanged DEF Written, PlainAt
      <4>3. Keeps(type, d)
        BY <3>3 DEF Keeps
      <4>4. Decoded(c, f, infer, d) = d
        BY <3>3, <4>2, <4>3, DecodedCases
      <4>5. QED
        BY <3>0, <4>1, <4>2, <4>4 DEF HasNonFinite, InJson
    <3>4. CASE v # None /\ type \in Coerced
      <4>1. IsInstance(v, type) /\ ~IsNonFinite(v)
        BY <2>2, <2>4, <3>4 DEF PortableAt
      <4>2. v.type \in Coerced /\ type \notin DOMAIN Schema
        BY <3>4, <4>1, TypeNames DEF IsInstance, Coerced
      <4>3. Scalar(v)
        BY <4>2, TypeNames DEF Scalar
      <4>4. d = v => Decoded(c, f, infer, d) = v
        <5>1. Keeps(type, v)
          BY <4>1 DEF Keeps
        <5>2. QED
          BY <3>4, <4>2, <5>1, DecodedCases
      <4>5. CASE v.type \in Enums
        <5>1. v.type = type
          BY <4>1, <4>5, TypeNames DEF IsInstance, Builtin, Json
        <5> DEFINE s == Value("str", v.text)
        <5>2. s \in DOMAIN Builtins[type] /\ Builtins[type][s] = v /\ s.type = "str"
          BY <4>5, <5>1, BuiltinsAssumption, ValueFields
        <5>3. d \in {v, s}
          BY <2>1, <2>4, <4>3, <4>5, WrittenScalar
        <5> HIDE DEF s
        <5>4. d = s => Decoded(c, f, infer, d) = v
          <6>0. \A t \in Enums : t # "str" /\ t # "int"
            BY TypeNames DEF Builtin, Json
          <6>1. type # "str" /\ type # "int" /\ s # None
            BY <4>5, <5>1, <5>2, <6>0, NoneType
          <6>2. ~Keeps(type, s)
            BY <3>4, <5>2, <6>1 DEF Keeps, IsInstance
          <6>3. QED
            BY <4>2, <5>2, <6>1, <6>2, DecodedCases
        <5>5. Scalar(d) /\ ~IsNonFinite(d)
          <6>1. Scalar(s) /\ ~IsNonFinite(s)
            BY <5>2, TypeNames DEF Scalar, IsNonFinite, Coerced
          <6>2. QED
            BY <4>1, <4>3, <5>3, <6>1
        <5>6. QED
          BY <3>0, <4>4, <5>3, <5>4, <5>5, NonFiniteScalar
      <4>6. CASE v.type \notin Enums
        <5>1. v.type \in Json
          BY <4>2, <4>6 DEF Coerced, Json
        <5>2. d = v
          BY <2>1, <2>4, <4>1, <4>3, <5>1, WrittenScalar
        <5>3. QED
          BY <3>0, <4>1, <4>3, <4>4, <5>2, NonFiniteScalar
      <4>7. QED
        BY <4>5, <4>6
    <3>5. CASE v # None /\ type \in DOMAIN Schema
      <4>1. IsInstance(v, type) /\ ~IsNonFinite(v) /\ type \notin Coerced
        BY <2>2, <2>4, <3>5, TypeNames DEF PortableAt
      <4>2. v.type = type
        BY <3>5, <4>1, TypeNames DEF IsInstance, Builtin, Json
      <4>3. /\ DOMAIN v.items = DOMAIN Schema[type]
            /\ \A g \in DOMAIN v.items : /\ v.items[g] \in Values /\ ComesBack(v.items[g])
                                         /\ Portable(g, Schema[type][g].types, v.items[g])
        BY <1>1, <2>1, <3>5, <4>2, InstanceFacts, ValueFacts, PortableItems
      <4>4. CASE d = v
        <5>1. Decoded(c, f, infer, d) = v
          BY <3>5, <4>2, <4>4, DecodedCases
        <5>2. \A g \in DOMAIN v.items : ~HasNonFinite(v.items[g])
          BY <3>5, <4>3 DEF ComesBack
        <5>3. QED
          BY <3>0, <4>1, <4>4, <5>1, <5>2, NonFiniteParts
      <4>5. CASE Written(f, v, d)
        <5>1. /\ d.type = "dict"
              /\ DOMAIN d.items = DOMAIN Schema[type]
              /\ \A g \in DOMAIN d.items : Written(g, v.items[g], d.items[g])
          BY <2>4, <3>5, <4>2, <4>5, WrittenInstance
        <5>2. \A g \in DOMAIN d.items : d.items[g] \in Values
          BY ValueFacts
        <5>3. \A g \in DOMAIN d.items :
                 Taken(g, Decoded(type, g, infer, d.items[g])) = v.items[g] /\ ~HasNonFinite(d.items[g])
          BY <3>5, <4>3, <5>1, <5>2 DEF ComesBack
        <5> HIDE DEF type
        <5>4. Constructed(v.type, DecodedItems(v.type, d, infer)) = v
          BY <3>5, <4>2, <5>1, <5>3, InstanceComesBack
        <5>5. d # None /\ ~IsNonFinite(d)
          BY <5>1, NoneType DEF IsNonFinite
        <5>6. Decoded(c, f, infer, d) = v
          <6>1. d.type \notin DOMAIN Schema
            BY <5>1, TypeNames DEF Builtin, Json
          <6>2. QED
            BY <3>5, <4>2, <5>1, <5>4, <5>5, DecodedCases DEF type
        <5>7. QED
          BY <3>0, <5>3, <5>5, <5>6, NonFiniteParts
      <4>6. QED
        BY <2>1, <4>4, <4>5
    <3>6. QED
      BY <3>2, <3>3, <3>4, <3>5
  <2>5. QED
    BY <2>3, <2>4
<1>2. Values \subseteq T
  <2> HIDE DEF T
  <2>1. QED
    BY <1>1, ValueInduction
<1>3. QED
  BY <1>2

-----------------------------------------------------------------------------
\* The inductive invariant.

\* A PEM as the constructor leaves it.
PemShape(v) == Scalar(v) /\ v = encode(v)

\* What a config may hold in f: what f was meant to hold, if that is portable; and
\* what was first given, until some client reads the config: then a value of f's type.
Held(f, v) ==
    /\ v \in Values
    /\ f \in Pems => PemShape(v)
    /\ Portable(f, Field(f).types, Intended(f)) => v = Intended(f)
    /\ IF hops THEN Typed(Field(f).types, v, Caller(f)) ELSE f \in kept /\ v = first[f]

\* What a document may hold in f: some such value as it is written, or as its author passed it.
Sent(f, v, d) == Held(f, v) /\ (Written(f, v, d) \/ (~hops /\ d = v))

AllFields == UNION {DOMAIN Schema[c] : c \in Clients}

HistInv ==
    /\ kept \subseteq DOMAIN first
    /\ \A f \in DOMAIN first : first[f] \in Values /\ (f \in Pems => PemShape(first[f]))

ConfigInv ==
    config # None =>
        /\ config.type \in Clients
        /\ config = With(None, config.type, config.items)
        /\ DOMAIN config.items = DOMAIN Schema[config.type]
        /\ refused = NoOne
        /\ kept \subseteq DOMAIN config.items
        /\ ~Half(config.items)
        /\ \A f \in DOMAIN config.items : Held(f, config.items[f])

DocumentInv ==
    document # None =>
        /\ document.type = "dict"
        /\ kept \subseteq DOMAIN document.items
        /\ DOMAIN document.items \subseteq AllFields
        /\ hops => ~Half(document.items)
        /\ \A f \in DOMAIN document.items :
              /\ document.items[f] \in Values
              /\ \E v \in Values : Sent(f, v, document.items[f])

IInv == TypeOK /\ HistInv /\ ConfigInv /\ DocumentInv /\ RefusedOnlyUnfit

-----------------------------------------------------------------------------
\* A field is that of every client that has it.
LEMMA FieldOf ==
    ASSUME NEW c \in Clients, NEW f \in DOMAIN Schema[c]
    PROVE  Field(f) = Schema[c][f] /\ c \in DOMAIN Schema /\ f \in AllFields
<1> DEFINE owner == CHOOSE d \in Clients : f \in DOMAIN Schema[d]
<1>1. owner \in Clients /\ f \in DOMAIN Schema[owner]
  OBVIOUS
<1>2. Field(f) = Schema[owner][f]
  BY DEF Field
<1> HIDE DEF owner
<1>3. Schema[owner][f] = Schema[c][f]
  BY <1>1, SchemaAssumption
<1>4. QED
  BY <1>2, <1>3, SchemaAssumption DEF AllFields

\* Every such field has a client.
LEMMA FieldOwner ==
    ASSUME NEW f \in AllFields
    PROVE  \E c \in Clients : f \in DOMAIN Schema[c] /\ Field(f) = Schema[c][f] /\ c \in DOMAIN Schema
BY FieldOf DEF AllFields

\* A PEM is Optional[str], and None by default.
LEMMA PemField ==
    ASSUME NEW f \in AllFields, f \in Pems
    PROVE  Field(f).types = PemTypes /\ Field(f).default = None
BY FieldOwner, SchemaAssumption DEF PemTypes

\* What the constructor makes of a scalar, or of text, has the shape of a PEM.
LEMMA PemShapes ==
    ASSUME NEW v \in Values
    PROVE  /\ Scalar(v) => PemShape(encode(v)) /\ encode(v) \in Values
           /\ v = None \/ v.type \in {"str", "bytes"} => PemShape(encode(v))
<1>1. ASSUME Scalar(v) PROVE PemShape(encode(v)) /\ encode(v) \in Values
  <2> DEFINE b == Value("bytes", v.text)
  <2>1. b.type = "bytes"
    BY ValueFields
  <2> HIDE DEF b
  <2>2. "bytes" \notin Collections \cup DOMAIN Schema
    BY TypeNames DEF Collections, Builtin
  <2>3. encode(v) \in {v, b}
    BY DEF encode, b
  <2>4. Scalar(encode(v))
    BY <1>1, <2>1, <2>2, <2>3 DEF Scalar
  <2>5. QED
    BY <2>4, EncodeFacts DEF PemShape
<1>2. v = None \/ v.type \in {"str", "bytes"} => Scalar(v)
  BY PemTyped
<1>3. QED
  BY <1>1, <1>2

\* What is written has no instance in it.
LEMMA WrittenParts ==
    ASSUME NEW f, NEW v \in Values, f \in Pems => Scalar(v), NEW d, Written(f, v, d)
    PROVE  /\ Instances(d) = {}
           /\ \A writer \in Writers :
                 d = _encode_json_type(writer)[PlainAt(f, v)] => Parts[d] \subseteq JsonParts(writer)
<1> DEFINE p == PlainAt(f, v)
<1>1. p \in Values /\ Parts[p] \subseteq PlainParts
  <2>1. CASE f \in Pems
    <3>1. p = _encode_grpc_cert(v)
      BY <2>1 DEF PlainAt
    <3> HIDE DEF p
    <3>2. p \in Values /\ Scalar(p)
      BY <2>1, <3>1, CertFacts
    <3>3. Parts[p] = {p}
      BY <3>2, PartsFacts DEF Scalar
    <3>4. QED
      BY <3>2, <3>3 DEF PlainParts, Scalar, Collections
  <2>2. CASE f \notin Pems
    BY <2>2, PlainIsValue, PlainIsPlain DEF PlainAt
  <2>3. QED
    BY <2>1, <2>2
<1>2. d \in Values /\ d # Error
  BY ValueFacts DEF Written
<1> HIDE DEF p
<1>3. ASSUME NEW writer \in Writers, d = _encode_json_type(writer)[p]
      PROVE  Parts[d] \subseteq JsonParts(writer)
  BY <1>1, <1>2, <1>3, JsonIsJson
<1>4. \A writer : JsonParts(writer) \subseteq PlainParts
  BY TypeNames DEF JsonParts, PlainParts, Json, Builtin
<1>5. Parts[d] \subseteq PlainParts
  BY <1>1, <1>3, <1>4 DEF Written, p
<1>6. Instances(d) = {}
  BY <1>5 DEF Instances, PlainParts
<1>7. QED
  BY <1>3, <1>6 DEF p

\* A PEM that some client has read is None, text or bytes.
LEMMA HeldPem ==
    ASSUME HistInv, hops, NEW f \in AllFields, f \in Pems, NEW v, Held(f, v)
    PROVE  v = None \/ v.type \in {"str", "bytes"}
<1>1. Caller(f) = {}
  <2>1. f \in kept => first[f] \in Values /\ Scalar(first[f])
    BY DEF HistInv, PemShape
  <2>2. QED
    BY <2>1, PartsFacts DEF Caller, Scalar
<1>2. Typed(PemTypes, v, {})
  BY <1>1, PemField DEF Held
<1>3. QED
  BY <1>2, PemTarget DEF Typed, HasType, IsInstance

\* What f holds does not depend on where it is held.
LEMMA HeldUnchanged ==
    ASSUME UNCHANGED <<first, kept, hops>>, NEW f, NEW v, Held(f, v)
    PROVE  Held(f, v)'
BY DEF Held, Caller, Intended

-----------------------------------------------------------------------------
\* The initial states.

\* What the caller passed is what each field first holds.
LEMMA BeginHist ==
    ASSUME NEW items \in Passed, Begin(items)
    PROVE  /\ HistInv
           /\ DOMAIN items \subseteq AllFields /\ kept = DOMAIN items /\ DOMAIN first = DOMAIN items
           /\ \A f \in DOMAIN items : /\ first[f] = Taken(f, items[f])
                                      /\ Held(f, first[f])
<1>1. /\ DOMAIN items \subseteq AllFields
      /\ \A f \in DOMAIN items : items[f] \in Values /\ (f \in Pems => Scalar(items[f]))
  BY PassedAssumption DEF AllFields, Scalar
<1>2. /\ kept = DOMAIN items /\ DOMAIN first = DOMAIN items /\ hops = FALSE
      /\ \A f \in DOMAIN items : first[f] = Taken(f, items[f])
  BY DEF Begin, __post_init__, Taken
<1>3. \A f \in DOMAIN items : first[f] \in Values /\ (f \in Pems => PemShape(first[f]))
  BY <1>1, <1>2, PemShapes DEF Taken
<1>4. \A f \in DOMAIN items : Held(f, first[f])
  BY <1>2, <1>3 DEF Held, Intended
<1>5. HistInv
  BY <1>2, <1>3 DEF HistInv
<1>6. QED
  BY <1>1, <1>2, <1>4, <1>5

\* A config that is constructed ...
LEMMA ConstructInv ==
    ASSUME NEW klass \in Clients, Construct(klass)
    PROVE  IInv
<1>1. PICK items \in Passed : /\ DOMAIN items = DOMAIN Schema[klass]
                              /\ Constructed(klass, items) # Error
                              /\ Begin(items)
                              /\ config = Constructed(klass, items)
                              /\ document = None
  BY DEF Construct
<1>2. klass \in DOMAIN Schema
  BY SchemaAssumption
<1>3. /\ config.type = klass /\ config.items = __post_init__(items)
      /\ config = With(None, klass, __post_init__(items))
  BY <1>1, <1>2, ConstructedFacts
<1>4. first = __post_init__(items) /\ isText = FALSE /\ refused = NoOne /\ hops = FALSE
  BY <1>1 DEF Begin
<1>5. /\ HistInv
      /\ kept = DOMAIN items /\ DOMAIN first = DOMAIN items
      /\ \A f \in DOMAIN items : Held(f, first[f])
  BY <1>1, BeginHist
<1>6. ~Half(items)
  BY <1>1, <1>2, ConstructedFacts
<1>7. ~Half(config.items)
  BY <1>3, <1>6, PostInitFacts
<1>8. ConfigInv
  BY <1>1, <1>3, <1>4, <1>5, <1>7 DEF ConfigInv
<1>9. config # None
  BY <1>2, <1>3, NoneType, TypeNames DEF Builtin, Json
<1>10. config.items \in [DOMAIN Schema[config.type] -> Values]
  <2>1. config.items = [f \in DOMAIN config.items |-> config.items[f]]
    BY <1>3 DEF __post_init__
  <2>2. \A f \in DOMAIN config.items : config.items[f] \in Values
    BY <1>3, <1>4, <1>5 DEF HistInv
  <2>3. DOMAIN config.items = DOMAIN Schema[config.type]
    BY <1>1, <1>3, <1>4, <1>5
  <2>4. QED
    BY <2>1, <2>2, <2>3
<1>11. TypeOK
  BY <1>1, <1>3, <1>4, <1>5, <1>9, <1>10 DEF TypeOK
<1>12. QED
  BY <1>1, <1>4, <1>5, <1>8, <1>11 DEF IInv, DocumentInv, RefusedOnlyUnfit

\* ... and a document that is authored.
LEMMA AuthorInv ==
    ASSUME Author
    PROVE  IInv
<1>1. PICK items \in Passed : /\ Begin(items)
                              /\ document = With(None, "dict", items)
                              /\ config = None
  BY DEF Author
<1>2. isText = FALSE /\ refused = NoOne /\ hops = FALSE
  BY <1>1 DEF Begin
<1>3. /\ HistInv
      /\ DOMAIN items \subseteq AllFields /\ kept = DOMAIN items /\ DOMAIN first = DOMAIN items
      /\ \A f \in DOMAIN items : /\ first[f] = Taken(f, items[f])
                                 /\ Held(f, first[f])
  BY <1>1, BeginHist
<1>4. document.type = "dict" /\ document.items = items
  BY <1>1, WithFields
<1>5. ASSUME NEW f \in DOMAIN items
      PROVE  items[f] \in Values /\ \E v \in Values : Sent(f, v, items[f])
  <2>1. items[f] \in Values /\ (f \in Pems => Scalar(items[f]))
    BY PassedAssumption DEF Scalar
  <2>2. first[f] \in Values /\ Held(f, first[f]) /\ first[f] = Taken(f, items[f])
    BY <1>3 DEF HistInv
  <2>3. first[f] = items[f] \/ Written(f, first[f], items[f])
    <3> DEFINE v == items[f]
               b == Value("bytes", v.text)
    <3>1. CASE f \in Pems /\ v.type = "str" /\ first[f] # v
      <4>1. first[f] = b
        BY <2>2, <3>1 DEF Taken, encode
      <4>2. b.type = "bytes" /\ b.text = v.text
        BY ValueFields
      <4>3. v = Value("str", v.text)
        BY <2>1, <3>1, ValueFacts DEF Scalar
      <4> HIDE DEF v, b
      <4>4. _encode_grpc_cert(b) = v
        BY <4>2, <4>3 DEF _encode_grpc_cert
      <4>5. QED
        BY <2>1, <3>1, <4>1, <4>4 DEF Written, PlainAt, v
    <3>2. CASE f \in Pems /\ v.type # "str"
      BY <2>2, <3>2, EncodeFacts DEF Taken
    <3>3. CASE f \notin Pems
      BY <2>2, <3>3 DEF Taken
    <3>4. QED
      BY <3>1, <3>2, <3>3
  <2>4. Sent(f, first[f], items[f])
    BY <1>2, <2>2, <2>3 DEF Sent
  <2>5. QED
    BY <2>1, <2>2, <2>4
<1>6. DocumentInv
  BY <1>2, <1>3, <1>4, <1>5 DEF DocumentInv
<1>7. document # None
  BY <1>4, NoneType
<1>8. Range(document.items) \subseteq Values
  BY <1>4, <1>5 DEF Range
<1>9. TypeOK
  BY <1>1, <1>2, <1>3, <1>7, <1>8 DEF TypeOK
<1>10. QED
  BY <1>1, <1>2, <1>3, <1>6, <1>9 DEF IInv, ConfigInv, RefusedOnlyUnfit

\* All the initial states satisfy the invariant.
LEMMA InitInv == Init => IInv
BY ConstructInv, AuthorInv DEF Init

-----------------------------------------------------------------------------
\* Writing.

\* The config as a document: each field written ...
LEMMA PlainConfig ==
    ASSUME ConfigInv, config # None
    PROVE  /\ Plain.type = "dict"
           /\ DOMAIN Plain.items = DOMAIN config.items
           /\ \A f \in DOMAIN config.items :
                 /\ config.items[f] \in Values /\ (f \in Pems => Scalar(config.items[f]))
                 /\ Plain.items[f] = PlainAt(f, config.items[f]) /\ Plain.items[f] \in Values
<1> DEFINE items == [f \in DOMAIN config.items |->
                       IF f \in Pems THEN _encode_grpc_cert(config.items[f])
                       ELSE Mapped(_to_plain, config)[f]]
<1>1. config.type \in DOMAIN Schema
  BY SchemaAssumption DEF ConfigInv
<1>2. Plain = With(config, "dict", items)
  BY <1>1 DEF Plain, PlainOf
<1>3. /\ DOMAIN items = DOMAIN config.items
      /\ \A f \in DOMAIN config.items : items[f] = PlainAt(f, config.items[f])
  BY DEF Mapped, PlainAt
<1> HIDE DEF items
<1>4. Plain.type = "dict" /\ Plain.items = items
  BY <1>2, WithFields
<1>5. ASSUME NEW f \in DOMAIN config.items
      PROVE  /\ config.items[f] \in Values /\ (f \in Pems => Scalar(config.items[f]))
             /\ PlainAt(f, config.items[f]) \in Values
  <2>1. config.items[f] \in Values /\ (f \in Pems => Scalar(config.items[f]))
    BY DEF ConfigInv, Held, PemShape
  <2>2. QED
    BY <2>1, CertFacts, PlainIsValue DEF PlainAt
<1>6. QED
  BY <1>3, <1>4, <1>5

\* ... and, for JSON, encoded, none of them refused.
LEMMA JsonConfig ==
    ASSUME ConfigInv, config # None, NEW writer \in Writers, AsJson(writer) # Error
    PROVE  /\ AsJson(writer).type = "dict"
           /\ DOMAIN AsJson(writer).items = DOMAIN config.items
           /\ \A f \in DOMAIN config.items :
                 /\ AsJson(writer).items[f] = _encode_json_type(writer)[PlainAt(f, config.items[f])]
                 /\ AsJson(writer).items[f] \in Values
<1> DEFINE encoded == Mapped(_encode_json_type(writer), Plain)
<1>1. /\ DOMAIN encoded = DOMAIN config.items
      /\ \A f \in DOMAIN config.items :
            encoded[f] = _encode_json_type(writer)[PlainAt(f, config.items[f])]
      /\ encoded = [f \in DOMAIN encoded |-> encoded[f]]
  BY PlainConfig DEF Mapped
<1> HIDE DEF encoded
<1>2. Keyed(encoded) = encoded
  <2>1. DOMAIN encoded \cap DOMAIN KeyText = {}
    BY <1>1, SchemaAssumption DEF ConfigInv
  <2>2. QED
    BY <1>1, <2>1, KeyedSame
<1>3. AsJson(writer) = IF Error \in Range(encoded) THEN Error ELSE With(Plain, "dict", encoded)
  BY <1>2, PlainConfig DEF AsJson, JsonOf, encoded
<1>4. AsJson(writer).type = "dict" /\ AsJson(writer).items = encoded
  BY <1>3, WithFields
<1>5. \A f \in DOMAIN config.items : encoded[f] # Error
  BY <1>3, <1>1 DEF Range
<1>6. \A f \in DOMAIN config.items : encoded[f] \in Values
  BY <1>1, <1>5, PlainConfig, JsonIsValue
<1>7. QED
  BY <1>1, <1>4, <1>6

\* Whatever is sent, its fields are written from those of the config.
LEMMA SendInv ==
    ASSUME IInv, config # None, NEW written, NEW text \in BOOLEAN, Send(written, text),
           written.type = "dict", DOMAIN written.items = DOMAIN config.items,
           \A f \in DOMAIN config.items :
               /\ Written(f, config.items[f], written.items[f])
               /\ text => \A u \in Parts[written.items[f]] : u.type \in Json /\ StrKeys(u)
    PROVE  IInv'
<1>1. /\ document' = written /\ isText' = text /\ config' = None
      /\ UNCHANGED <<refused, first, kept, hops>>
  BY DEF Send
<1>2. /\ config.type \in Clients /\ DOMAIN config.items = DOMAIN Schema[config.type]
      /\ refused = NoOne /\ kept \subseteq DOMAIN config.items /\ ~Half(config.items)
      /\ \A f \in DOMAIN config.items : config.items[f] \in Values /\ Held(f, config.items[f])
  BY DEF IInv, ConfigInv, Held
<1>3. DOMAIN written.items \subseteq AllFields
  BY <1>2 DEF AllFields
<1>4. \A f \in DOMAIN config.items : written.items[f] \in Values
  BY DEF Written
<1>5. ASSUME hops PROVE ~Half(written.items)
  <2>1. \A f \in Pems \cap DOMAIN config.items :
            written.items[f] \in Falsy <=> config.items[f] \in Falsy
    BY <1>2, <1>3, <1>5, HeldPem, WrittenPem DEF IInv
  <2>2. "grpc_client_cert" \in Pems /\ "grpc_client_key" \in Pems
    BY DEF Pems
  <2>3. QED
    BY <1>2, <2>1, <2>2 DEF Half, Given
<1>6. ASSUME NEW f \in DOMAIN config.items
      PROVE  \E v \in Values : Sent(f, v, written.items[f])'
  <2> DEFINE v == config.items[f]
             d == written.items[f]
  <2>1. v \in Values /\ Held(f, v) /\ Written(f, v, d)
    BY <1>2
  <2> HIDE DEF v, d
  <2>2. PICK w \in Values : Held(f, w) /\ Written(f, w, d)
    BY <2>1
  <2>3. Held(f, w)'
    BY <1>1, <2>2, HeldUnchanged
  <2>4. QED
    BY <2>2, <2>3 DEF Sent, Written, d
<1>7. DocumentInv'
  BY <1>1, <1>2, <1>3, <1>4, <1>5, <1>6 DEF DocumentInv
<1>8. document' # None
  BY <1>1, NoneType
<1>9. Range(written.items) \subseteq Values
  BY <1>4 DEF Range
<1>10. TypeOK'
  BY <1>1, <1>8, <1>9 DEF IInv, TypeOK
<1>11. HistInv'
  BY <1>1 DEF IInv, HistInv
<1>12. QED
  BY <1>1, <1>2, <1>7, <1>10, <1>11 DEF IInv, ConfigInv, RefusedOnlyUnfit

\* to_dict() sends Python values ...
LEMMA ToDictInv ==
    ASSUME IInv, to_dict
    PROVE  IInv'
<1>1. config # None /\ Send(Plain, FALSE) /\ ConfigInv
  BY DEF to_dict, IInv
<1>2. \A f \in DOMAIN config.items : Written(f, config.items[f], Plain.items[f])
  BY <1>1, PlainConfig DEF Written
<1>3. QED
  BY <1>1, <1>2, PlainConfig, SendInv

\* ... to_dict(encode_json=True) and to_json() what JSON can hold.
LEMMA ToJsonInv ==
    ASSUME IInv, config # None, NEW writer \in Writers, NEW text \in BOOLEAN, Send(AsJson(writer), text),
           text => writer \in Libraries
    PROVE  IInv'
<1>1. ConfigInv /\ AsJson(writer) # Error
  BY DEF Send, IInv
<1>2. \A f \in DOMAIN config.items : Written(f, config.items[f], AsJson(writer).items[f])
  BY <1>1, JsonConfig DEF Written
<1>3. \A f \in DOMAIN config.items : Parts[AsJson(writer).items[f]] \subseteq JsonParts(writer)
  BY <1>1, <1>2, PlainConfig, JsonConfig, WrittenParts
<1>4. text => \A f \in DOMAIN config.items : \A u \in Parts[AsJson(writer).items[f]] :
                 u.type \in Json /\ StrKeys(u)
  BY <1>3 DEF JsonParts
<1>5. QED
  BY <1>1, <1>2, <1>4, JsonConfig, SendInv

-----------------------------------------------------------------------------
\* Reading.

\* It refuses only an exception in the items, or half an identity.
LEMMA ConstructedRefuses ==
    ASSUME NEW klass \in DOMAIN Schema, NEW items, Constructed(klass, items) = Error
    PROVE  Half(items) \/ \E f \in DOMAIN items : items[f] = Error
BY ConstructedFit

\* The config that is read of the document, and the items its constructor is given.
Got(klass, infer) == _decode_dataclass(klass, document, Mapped(Decoder(infer), document), infer)

\* It is constructed of the decoded items of the document.
LEMMA GotIs ==
    ASSUME NEW klass \in DOMAIN Schema, NEW infer, document.type = "dict"
    PROVE  Got(klass, infer) = Constructed(klass, DecodedItems(klass, document, infer))
<1> DEFINE d == document
<1>1. Got(klass, infer) =
          _decode_dataclass(klass, d, [f \in DOMAIN d.items |-> Decoder(infer)[d.items[f]]], infer)
  BY DEF Got, Mapped
<1>2. d.type = "dict"
  OBVIOUS
<1> HIDE DEF d
<1>3. QED
  BY <1>1, <1>2, DecodeDataclass DEF d

\* What a document holds of a field is free of instances, but for those passed by its author.
LEMMA SentParts ==
    ASSUME NEW f, NEW v \in Values, NEW d, Sent(f, v, d)
    PROVE  Instances(d) \subseteq Caller(f)
<1>1. CASE Written(f, v, d)
  <2>1. f \in Pems => Scalar(v)
    BY DEF Sent, Held, PemShape
  <2>2. QED
    BY <1>1, <2>1, WrittenParts
<1>2. CASE ~hops /\ d = v
  BY <1>2 DEF Sent, Held, Caller
<1>3. QED
  BY <1>1, <1>2 DEF Sent

\* A PEM that was ever read, or is portable, is sent as None, text or bytes.
LEMMA SentPem ==
    ASSUME HistInv, NEW f \in AllFields, f \in Pems, NEW v \in Values, NEW d, Sent(f, v, d),
           hops \/ Portable(f, Field(f).types, Intended(f))
    PROVE  d = None \/ d.type \in {"str", "bytes"}
<1>1. v = None \/ v.type \in {"str", "bytes"}
  <2>1. CASE hops
    BY <2>1, HeldPem DEF Sent
  <2>2. CASE Portable(f, Field(f).types, Intended(f))
    <3> DEFINE s == Value("str", v.text)
    <3>1. Field(f).types = PemTypes
      BY PemField
    <3>2. v = Intended(f)
      BY <2>2 DEF Sent, Held
    <3>3. PortableAt(f, PemTypes, v)
      BY <2>2, <3>1, <3>2 DEF Portable
    <3>4. v = None \/ v = encode(s)
      BY <3>3, PemTarget DEF PortableAt
    <3>5. s.type = "str"
      BY ValueFields
    <3> HIDE DEF s
    <3>6. QED
      BY <3>4, <3>5, EncodeFacts
  <2>3. QED
    BY <2>1, <2>2
<1>2. QED
  BY <1>1, WrittenPem DEF Sent

\* A field that is read is what it was meant to hold, if that is portable, and has its type.
LEMMA ReadField ==
    ASSUME IInv, document # None, NEW klass \in Clients, NEW infer \in BOOLEAN,
           NEW f \in DOMAIN Schema[klass], DecodedItems(klass, document, infer)[f] # Error
    PROVE  LET v == Taken(f, DecodedItems(klass, document, infer)[f])
           IN /\ v \in Values
              /\ f \in Pems => PemShape(v)
              /\ Portable(f, Field(f).types, Intended(f)) => v = Intended(f)
              /\ Typed(Field(f).types, v, Caller(f))
<1> DEFINE d == document
           w == DecodedItems(klass, d, infer)[f]
           v == Taken(f, w)
<1>1. klass \in DOMAIN Schema /\ Field(f) = Schema[klass][f] /\ f \in AllFields
  BY FieldOf
<1>2. /\ kept \subseteq DOMAIN d.items
      /\ \A g \in DOMAIN d.items : d.items[g] \in Values /\ \E u \in Values : Sent(g, u, d.items[g])
  BY DEF IInv, DocumentInv
<1>3. \A g \in DOMAIN d.items : d.items[g] \in Values /\ ReadTyped(d.items[g])
  BY <1>2, DecodedTyped
<1>4. w # Error
  OBVIOUS
<1> HIDE DEF d
<1>5. /\ v \in Values
      /\ f \in DOMAIN d.items => Typed(Field(f).types, v, Instances(d.items[f]))
      /\ f \notin DOMAIN d.items =>
            /\ v = IF Field(f).default = Mandatory THEN None ELSE Field(f).default
            /\ Typed(Field(f).types, v, {})
  BY <1>1, <1>3, <1>4, ItemsTyped
<1>6. CASE f \in DOMAIN d.items
  <2>1. w = Decoded(klass, f, infer, d.items[f])
    BY <1>6 DEF DecodedItems
  <2>2. d.items[f] \in Values
    BY <1>2, <1>6
  <2>3. PICK u \in Values : Sent(f, u, d.items[f])
    BY <1>2, <1>6
  <2> DEFINE item == d.items[f]
  <2> HIDE DEF w
  <2>4. ASSUME f \in Pems PROVE PemShape(v)
    <3>1. w = None \/ w.type \in {"str", "bytes"}
      BY <1>1, <2>1, <2>2, <2>4, PemDecoded
    <3>2. w \in Values
      BY <1>1, <2>1, <2>2, <2>4, PemDecoded
    <3>3. QED
      BY <2>4, <3>1, <3>2, PemShapes DEF Taken
  <2>5. ASSUME Portable(f, Field(f).types, Intended(f)) PROVE v = Intended(f)
    <3>1. u = Intended(f) /\ (Written(f, u, item) \/ item = u)
      BY <2>3, <2>5 DEF Sent, Held
    <3>2. item \in Values /\ w = Decoded(klass, f, infer, item)
      BY <2>1, <2>2
    <3>3. Portable(f, Schema[klass][f].types, u)
      BY <1>1, <2>5, <3>1
    <3> HIDE DEF item
    <3>4. ComesBack(u)
      BY PortableComesBack
    <3>5. v = u
      BY <1>1, <3>1, <3>2, <3>3, <3>4 DEF ComesBack
    <3>6. QED
      BY <3>1, <3>5
  <2>6. Typed(Field(f).types, v, Caller(f))
    <3>1. Instances(item) \subseteq Caller(f)
      BY <2>3, SentParts
    <3>2. Typed(Field(f).types, v, Instances(item))
      BY <1>5, <1>6
    <3> HIDE DEF item, v
    <3>3. QED
      BY <3>1, <3>2, TypedMore
  <2>7. QED
    BY <1>5, <2>4, <2>5, <2>6 DEF d, w
<1>7. CASE f \notin DOMAIN d.items
  <2>1. f \notin kept
    BY <1>2, <1>7
  <2>2. v = Intended(f)
    BY <1>5, <1>7, <2>1 DEF Intended
  <2>3. Typed(Field(f).types, v, Caller(f))
    BY <1>5, <1>7, TypedMore
  <2>4. ASSUME f \in Pems PROVE PemShape(v)
    <3>1. Field(f).default = None
      BY <1>1, <2>4, PemField
    <3>2. v = None
      BY <1>5, <1>7, <3>1
    <3>3. QED
      BY <3>2, NoneTyped, EncodeFacts DEF PemShape
  <2>5. QED
    BY <1>5, <2>2, <2>3, <2>4 DEF d
<1>8. QED
  BY <1>6, <1>7

\* A config that is read satisfies the invariant.
LEMMA ReadAccepted ==
    ASSUME IInv, document # None, NEW klass \in Clients, NEW infer \in BOOLEAN,
           Got(klass, infer) # Error,
           config' = Got(klass, infer), document' = None, isText' = FALSE, refused' = NoOne,
           kept' = kept \cap DOMAIN Schema[klass], hops' = TRUE, UNCHANGED first
    PROVE  IInv'
<1> DEFINE items == DecodedItems(klass, document, infer)
<1>1. klass \in DOMAIN Schema /\ document.type = "dict" /\ kept \subseteq DOMAIN first
  BY SchemaAssumption DEF IInv, DocumentInv, HistInv
<1>2. config' = Constructed(klass, items) /\ Constructed(klass, items) # Error
  BY <1>1, GotIs
<1>3. DOMAIN items = DOMAIN Schema[klass]
  BY DEF DecodedItems
<1>4. \A f \in DOMAIN items : items[f] # Error =>
          LET v == Taken(f, items[f])
          IN /\ v \in Values
             /\ f \in Pems => PemShape(v)
             /\ Portable(f, Field(f).types, Intended(f)) => v = Intended(f)
             /\ Typed(Field(f).types, v, Caller(f))
  BY <1>3, ReadField
<1> HIDE DEF items
<1>5. ~Half(items) /\ \A f \in DOMAIN items : items[f] # Error
  BY <1>1, <1>2, ConstructedFacts
<1>6. /\ config'.type = klass /\ config'.items = __post_init__(items)
      /\ config' = With(None, klass, __post_init__(items))
  BY <1>1, <1>2, <1>5, ConstructedFit, WithFields
<1>7. /\ DOMAIN config'.items = DOMAIN Schema[klass]
      /\ \A f \in DOMAIN Schema[klass] : config'.items[f] = Taken(f, items[f])
  BY <1>3, <1>6, PostInitFacts DEF Taken
<1>8. ~Half(config'.items)
  BY <1>5, <1>6, PostInitFacts
<1>9. ASSUME NEW f \in DOMAIN Schema[klass], NEW v, v = Taken(f, items[f])
      PROVE  Held(f, v)' /\ v \in Values
  <2>1. /\ v \in Values
        /\ f \in Pems => PemShape(v)
        /\ Portable(f, Field(f).types, Intended(f)) => v = Intended(f)
        /\ Typed(Field(f).types, v, Caller(f))
    BY <1>3, <1>4, <1>5, <1>9
  <2>2. f \in kept' <=> f \in kept
    OBVIOUS
  <2>3. Intended(f)' = Intended(f) /\ Caller(f)' = Caller(f)
    BY <2>2 DEF Intended, Caller
  <2>4. QED
    BY <2>1, <2>3 DEF Held
<1>10. ConfigInv'
  BY <1>6, <1>7, <1>8, <1>9 DEF ConfigInv
<1>11. config' # None
  BY <1>1, <1>6, NoneType, TypeNames DEF Builtin, Json
<1>12. config'.items \in [DOMAIN Schema[klass] -> Values]
  <2>1. config'.items = [f \in DOMAIN config'.items |-> config'.items[f]]
    BY <1>6 DEF __post_init__
  <2>2. \A f \in DOMAIN Schema[klass] : config'.items[f] \in Values
    BY <1>7, <1>9
  <2>3. QED
    BY <1>7, <2>1, <2>2
<1>13. TypeOK'
  BY <1>1, <1>6, <1>11, <1>12 DEF TypeOK
<1>14. HistInv'
  BY <1>1 DEF IInv, HistInv
<1>15. QED
  BY <1>10, <1>13, <1>14 DEF IInv, DocumentInv, RefusedOnlyUnfit

\* Why a document is refused: a literal that its reader does not take.
LEMMA RefusedNonFinite ==
    ASSUME DocumentInv, document # None, NEW f \in DOMAIN document.items, HasNonFinite(document.items[f])
    PROVE  ~Portable(f, Field(f).types, Intended(f))
<1> DEFINE item == document.items[f]
<1>1. f \in AllFields /\ item \in Values
  BY DEF DocumentInv
<1>2. PICK v \in Values : Sent(f, v, item)
  BY DEF DocumentInv
<1>3. PICK c \in Clients : f \in DOMAIN Schema[c] /\ Field(f) = Schema[c][f] /\ c \in DOMAIN Schema
  BY <1>1, FieldOwner
<1>4. HasNonFinite(item)
  OBVIOUS
<1>5. Written(f, v, item) \/ item = v
  BY <1>2 DEF Sent
<1> HIDE DEF item
<1>6. ASSUME Portable(f, Field(f).types, Intended(f)) PROVE FALSE
  <2>1. v = Intended(f)
    BY <1>2, <1>6 DEF Sent, Held
  <2>2. Portable(f, Schema[c][f].types, v)
    BY <1>3, <1>6, <2>1
  <2>3. ComesBack(v) /\ TRUE \in BOOLEAN
    BY PortableComesBack
  <2>4. QED
    BY <1>1, <1>3, <1>4, <1>5, <2>2, <2>3 DEF ComesBack
<1>7. QED
  BY <1>6

\* A field that is there and cannot be converted.
LEMMA RefusedPresent ==
    ASSUME DocumentInv, document # None, NEW klass \in Clients, NEW infer \in BOOLEAN,
           NEW f \in DOMAIN document.items, f \in DOMAIN Schema[klass],
           Decoded(klass, f, infer, document.items[f]) = Error
    PROVE  ~Portable(f, Field(f).types, Intended(f)) /\ (hops => Caller(f) # {})
<1> DEFINE item == document.items[f]
<1>1. /\ klass \in DOMAIN Schema /\ Field(f) = Schema[klass][f] /\ item \in Values
      /\ Decoded(klass, f, infer, item) = Error
  BY FieldOf DEF DocumentInv
<1>2. PICK v \in Values : Sent(f, v, item)
  BY DEF DocumentInv
<1> HIDE DEF item
<1>3. Error \notin Values /\ Taken(f, Error) = Error
  BY ValueFacts, EncodeFacts DEF Taken
<1>4. ASSUME Portable(f, Field(f).types, Intended(f)) PROVE FALSE
  <2>1. v = Intended(f) /\ (Written(f, v, item) \/ item = v)
    BY <1>2, <1>4 DEF Sent, Held
  <2>2. Portable(f, Schema[klass][f].types, v) /\ ComesBack(v)
    BY <1>1, <1>4, <2>1, PortableComesBack
  <2>3. Taken(f, Decoded(klass, f, infer, item)) = v
    BY <1>1, <2>1, <2>2 DEF ComesBack
  <2>4. QED
    BY <1>1, <1>3, <2>3
<1>5. ASSUME hops, Caller(f) = {} PROVE FALSE
  <2>1. Written(f, v, item) /\ Typed(Schema[klass][f].types, v, {}) /\ ReadsBack(v)
    BY <1>1, <1>2, <1>5, TypedReadsBack DEF Sent, Held
  <2>2. QED
    BY <1>1, <2>1 DEF ReadsBack
<1>6. QED
  BY <1>4, <1>5

\* Half an identity, of a document that has not half of one.
LEMMA RefusedHalf ==
    ASSUME IInv, document # None, NEW klass \in Clients, NEW infer \in BOOLEAN,
           Half(DecodedItems(klass, document, infer)), ~Half(document.items),
           \A f \in DOMAIN Schema[klass] : DecodedItems(klass, document, infer)[f] # Error
    PROVE  /\ ~hops
           /\ \E f \in DOMAIN document.items : ~Portable(f, Field(f).types, Intended(f))
<1> DEFINE d == document.items
           items == DecodedItems(klass, document, infer)
<1>1. klass \in DOMAIN Schema /\ HistInv
  BY SchemaAssumption DEF IInv
<1>2. /\ DOMAIN items = DOMAIN Schema[klass]
      /\ \A f \in DOMAIN items :
            items[f] = IF f \in DOMAIN d THEN Decoded(klass, f, infer, d[f])
                       ELSE Absent(Schema[klass][f], infer)
  BY DEF DecodedItems
<1>3. /\ DOMAIN d \subseteq AllFields
      /\ \A f \in DOMAIN d : d[f] \in Values /\ \E v \in Values : Sent(f, v, d[f])
  BY DEF IInv, DocumentInv
<1>4. /\ "grpc_client_cert" \in Pems /\ "grpc_client_key" \in Pems
      /\ "grpc_client_cert" \in DOMAIN Schema[klass] <=> "grpc_client_key" \in DOMAIN Schema[klass]
  BY <1>1, SchemaAssumption DEF Pems
<1>5. Half(items) /\ ~Half(d) /\ \A f \in DOMAIN items : items[f] # Error
  BY <1>2
<1> HIDE DEF d, items
<1>6. ASSUME \A f \in Pems \cap DOMAIN items : Given(f, items) <=> Given(f, d)
      PROVE  FALSE
  BY <1>2, <1>4, <1>5, <1>6 DEF Half, Given
<1>7. PICK f \in Pems \cap DOMAIN items : ~(Given(f, items) <=> Given(f, d))
  BY <1>6
<1>8. f \in DOMAIN Schema[klass] /\ f \in AllFields /\ Field(f) = Schema[klass][f]
  BY <1>2, <1>7, FieldOf
<1>9. f \in DOMAIN d
  <2>1. ASSUME f \notin DOMAIN d PROVE FALSE
    <3>1. items[f] = Absent(Schema[klass][f], infer) /\ items[f] # Error
      BY <1>2, <1>5, <1>7, <2>1
    <3>2. items[f] = None
      BY <1>1, <1>7, <1>8, <3>1, AbsentFacts
    <3>3. ~Given(f, items) /\ ~Given(f, d)
      BY <2>1, <3>2 DEF Given, Falsy
    <3>4. QED
      BY <1>7, <3>3
  <2>2. QED
    BY <2>1
<1>10. PICK v \in Values : Sent(f, v, d[f])
  BY <1>3, <1>9
<1>11. ~(d[f] = None \/ d[f].type \in {"str", "bytes"})
  <2>1. ASSUME d[f] = None \/ d[f].type \in {"str", "bytes"} PROVE FALSE
    <3>1. d[f] \in Values /\ items[f] = Decoded(klass, f, infer, d[f])
      BY <1>2, <1>3, <1>7, <1>9
    <3>2. Decoded(klass, f, infer, d[f]) = d[f]
      BY <1>1, <1>7, <1>8, <2>1, <3>1, PemDecoded
    <3>3. QED
      BY <1>7, <1>9, <3>1, <3>2 DEF Given
  <2>2. QED
    BY <2>1
<1>12. ~hops /\ ~Portable(f, Field(f).types, Intended(f))
  BY <1>1, <1>7, <1>8, <1>10, <1>11, SentPem
<1>13. QED
  BY <1>9, <1>12 DEF d

\* A document that is refused does too: the last reader had a reason to.
LEMMA ReadRefused ==
    ASSUME IInv, document # None, NEW klass \in Clients, NEW infer \in BOOLEAN,
           Got(klass, infer) = Error \/ \E f \in DOMAIN document.items : HasNonFinite(document.items[f]),
           refused' = [by |-> klass, infer |-> infer],
           UNCHANGED <<config, document, isText, first, kept, hops>>
    PROVE  IInv'
<1> DEFINE items == DecodedItems(klass, document, infer)
           Unfit(f) == /\ ~Portable(f, Field(f).types, Intended(f))
                       /\ hops => HasNonFinite(document.items[f]) \/ Caller(f) # {}
           Missing == \E f \in DOMAIN Schema[klass] \ DOMAIN document.items :
                          Schema[klass][f].default = Mandatory
<1>1. /\ klass \in DOMAIN Schema /\ DocumentInv /\ config = None /\ document.type = "dict"
      /\ hops => ~Half(document.items)
  BY SchemaAssumption DEF IInv, TypeOK, DocumentInv
<1>2. \/ \E f \in DOMAIN document.items : Unfit(f)
      \/ ~infer /\ Missing
      \/ ~hops /\ Half(document.items)
  <2>1. CASE \E f \in DOMAIN document.items : HasNonFinite(document.items[f])
    BY <1>1, <2>1, RefusedNonFinite
  <2>2. CASE Got(klass, infer) = Error
    <3>1. Constructed(klass, items) = Error /\ DOMAIN items = DOMAIN Schema[klass]
      BY <1>1, <2>2, GotIs DEF DecodedItems
    <3>2. Half(items) \/ \E f \in DOMAIN items : items[f] = Error
      <4> HIDE DEF items
      <4>1. QED
        BY <1>1, <3>1, ConstructedRefuses
    <3>3. CASE \E f \in DOMAIN items : items[f] = Error
      <4>1. PICK f \in DOMAIN Schema[klass] : items[f] = Error
        BY <3>1, <3>3
      <4>2. CASE f \in DOMAIN document.items
        <5>1. Decoded(klass, f, infer, document.items[f]) = Error
          BY <4>1, <4>2 DEF DecodedItems
        <5>2. ~Portable(f, Field(f).types, Intended(f)) /\ (hops => Caller(f) # {})
          BY <1>1, <4>2, <5>1, RefusedPresent
        <5>3. QED
          BY <4>2, <5>2
      <4>3. CASE f \notin DOMAIN document.items
        <5>1. Absent(Schema[klass][f], infer) = Error
          BY <4>1, <4>3 DEF DecodedItems
        <5>2. Schema[klass][f].default = Mandatory /\ ~infer
          BY <1>1, <5>1, DefaultAssumption, ValueFacts DEF Absent
        <5>3. QED
          BY <4>3, <5>2
      <4>4. QED
        BY <4>2, <4>3
    <3>4. CASE Half(items) /\ ~Half(document.items) /\ \A f \in DOMAIN items : items[f] # Error
      <4>1. ~hops /\ \E f \in DOMAIN document.items : ~Portable(f, Field(f).types, Intended(f))
        BY <3>1, <3>4, RefusedHalf
      <4>2. QED
        BY <4>1
    <3>5. QED
      BY <1>1, <3>2, <3>3, <3>4
  <2>3. QED
    BY <2>1, <2>2
<1>3. /\ refused'.by = klass /\ refused'.infer = infer
      /\ refused' \in [by : Clients, infer : BOOLEAN]
  OBVIOUS
<1>4. RefusedOnlyUnfit'
  BY <1>2, <1>3 DEF RefusedOnlyUnfit, Caller, Intended
<1>5. TypeOK'
  BY <1>3 DEF IInv, TypeOK
<1>6. DocumentInv'
  <2>1. ASSUME NEW f \in DOMAIN document.items PROVE \E v \in Values : Sent(f, v, document.items[f])'
    <3> DEFINE item == document.items[f]
    <3>1. PICK v \in Values : Sent(f, v, item)
      BY <1>1 DEF DocumentInv
    <3>2. Held(f, v) /\ (Written(f, v, item) \/ (~hops /\ item = v))
      BY <3>1 DEF Sent
    <3>3. Held(f, v)'
      BY <3>2, HeldUnchanged
    <3>4. item' = item
      OBVIOUS
    <3> HIDE DEF item
    <3>5. Sent(f, v, item)'
      BY <3>2, <3>3, <3>4 DEF Sent, Written
    <3>6. QED
      BY <3>5 DEF item
  <2>2. QED
    BY <1>1, <2>1 DEF DocumentInv
<1>7. HistInv' /\ ConfigInv'
  BY <1>1 DEF IInv, HistInv, ConfigInv
<1>8. QED
  BY <1>4, <1>5, <1>6, <1>7 DEF IInv

\* So does either outcome of from_dict() and from_json().
LEMMA ReadInv ==
    ASSUME IInv, document # None, NEW klass \in Clients, NEW infer \in BOOLEAN, NEW accepted,
           accepted \/ \E f \in DOMAIN document.items : HasNonFinite(document.items[f]),
           Read(klass, infer, accepted)
    PROVE  IInv'
<1>1. CASE ~accepted \/ Got(klass, infer) = Error
  <2>1. /\ refused' = [by |-> klass, infer |-> infer]
        /\ UNCHANGED <<config, document, isText, first, kept, hops>>
    BY <1>1 DEF Read, Got
  <2>2. QED
    BY <1>1, <2>1, ReadRefused
<1>2. CASE ~(~accepted \/ Got(klass, infer) = Error)
  <2>1. /\ config' = Got(klass, infer) /\ document' = None /\ isText' = FALSE /\ refused' = NoOne
        /\ kept' = kept \cap DOMAIN Schema[klass] /\ hops' = TRUE /\ UNCHANGED first
    BY <1>2 DEF Read, Got
  <2>2. QED
    BY <1>2, <2>1, ReadAccepted
<1>3. QED
  BY <1>1, <1>2

\* A step that changes nothing.
LEMMA StutterInv ==
    ASSUME IInv, UNCHANGED vars
    PROVE  IInv'
<1>1. UNCHANGED <<config, document, isText, refused, first, kept, hops>>
  BY DEF vars
<1>2. TypeOK' /\ HistInv' /\ RefusedOnlyUnfit'
  BY <1>1 DEF IInv, TypeOK, HistInv, RefusedOnlyUnfit, Caller, Intended
<1>3. \A f, v : Held(f, v) <=> Held(f, v)'
  BY <1>1 DEF Held, Caller, Intended
<1>4. ConfigInv'
  BY <1>1, <1>3 DEF IInv, ConfigInv
<1>5. \A f, v, d : Sent(f, v, d) <=> Sent(f, v, d)'
  BY <1>1, <1>3 DEF Sent
<1>6. DocumentInv'
  BY <1>1, <1>5 DEF IInv, DocumentInv
<1>7. QED
  BY <1>2, <1>4, <1>6 DEF IInv

\* Every step preserves the invariant.
LEMMA StepInv == IInv /\ [Next]_vars => IInv'
<1>1. SUFFICES ASSUME IInv, [Next]_vars PROVE IInv'
  OBVIOUS
<1>2. CASE to_dict
  BY <1>1, <1>2, ToDictInv
<1>3. CASE to_dict_encode_json
  BY <1>1, <1>3, ToJsonInv DEF to_dict_encode_json, Writers
<1>4. CASE \E library \in Libraries : to_json(library)
  BY <1>1, <1>4, ToJsonInv DEF to_json, Writers
<1>5. ASSUME NEW klass \in Clients, NEW infer \in BOOLEAN, from_dict(klass, infer)
      PROVE  IInv'
  BY <1>1, <1>5, ReadInv DEF from_dict
<1>6. ASSUME NEW klass \in Clients, NEW infer \in BOOLEAN, NEW library \in Libraries,
             from_json(klass, infer, library)
      PROVE  IInv'
  <2> DEFINE accepted == library = "orjson" => \A f \in DOMAIN document.items : ~HasNonFinite(document.items[f])
  <2>1. document # None /\ Read(klass, infer, accepted)
    BY <1>6 DEF from_json
  <2>2. accepted \/ \E f \in DOMAIN document.items : HasNonFinite(document.items[f])
    OBVIOUS
  <2> HIDE DEF accepted
  <2>3. QED
    BY <1>1, <2>1, <2>2, ReadInv
<1>7. CASE UNCHANGED vars
  BY <1>1, <1>7, StutterInv
<1>8. QED
  BY <1>1, <1>2, <1>3, <1>4, <1>5, <1>6, <1>7 DEF Next

\* The invariant holds in every reachable state.
LEMMA Invariance == Spec => []IInv
<1>1. Init => IInv
  BY InitInv
<1>2. IInv /\ [Next]_vars => IInv'
  BY StepInv
<1>3. QED
  BY <1>1, <1>2, PTL DEF Spec

-----------------------------------------------------------------------------
\* Every variable has its type, and a JSON text holds nothing that JSON cannot:
\* to_json writes no bytes, set, Enum member or instance, at any depth.
THEOREM TypeCorrect == Spec => []TypeOK
<1>1. IInv => TypeOK
  BY DEF IInv
<1>2. QED
  BY <1>1, Invariance, PTL

\* _decode_value(): a config that was read holds in every field of a converted type,
\* at every depth, a value of that type, None, or bytes for text; only a nested
\* instance that the caller passed stays as it is.
THEOREM ReadsAreTyped == Spec => []ReadIsTyped
<1>1. IInv => ReadIsTyped
  BY DEF IInv, ConfigInv, Held, ReadIsTyped
<1>2. QED
  BY <1>1, Invariance, PTL

\* from_dict / from_json "give back an equal config": whatever clients and formats
\* carry it, a portable field that all of them have comes out as it was first given.
THEOREM FieldsAreCarried == Spec => []CarriedUnchanged
<1>1. IInv => CarriedUnchanged
  BY DEF IInv, ConfigInv, Held, Intended, CarriedUnchanged
<1>2. QED
  BY <1>1, Invariance, PTL

\* "Absent fields take their defaults": a field that some client on the way did not
\* have, or the author left out, is its portable default, or None if it has none.
THEOREM SkewIsDefaulted == Spec => []SkewResetsToDefault
<1>1. ASSUME IInv, config # None, NEW f \in DOMAIN config.items \ kept
      PROVE  LET default == Schema[config.type][f].default
             IN IF default = Mandatory THEN config.items[f] = None
                ELSE Portable(f, Field(f).types, default) => config.items[f] = default
  <2>1. /\ Field(f) = Schema[config.type][f]
        /\ Portable(f, Field(f).types, Intended(f)) => config.items[f] = Intended(f)
    BY <1>1, FieldOf DEF IInv, ConfigInv, Held
  <2>2. Intended(f) = IF Field(f).default = Mandatory THEN None ELSE Field(f).default
    BY <1>1 DEF Intended
  <2>3. Portable(f, Field(f).types, None)
    <3>1. None \in Values /\ Scalar(None)
      BY NoneTyped
    <3>2. Instances(None) = {}
      BY <3>1, PartsFacts DEF Scalar
    <3>3. QED
      BY <3>2 DEF Portable, PortableAt
  <2>4. QED
    BY <2>1, <2>2, <2>3
<1>2. IInv => SkewResetsToDefault
  BY <1>1 DEF SkewResetsToDefault
<1>3. QED
  BY <1>2, Invariance, PTL

\* No version refuses a document but for a field that was not portable, a mandatory
\* one that is absent, or half an identity that its author wrote; and what a client
\* has once read, only a float that is not finite or a nested instance passed through can make refused.
THEOREM RefusalsAreDeserved == Spec => []RefusedOnlyUnfit
<1>1. IInv => RefusedOnlyUnfit
  BY DEF IInv
<1>2. QED
  BY <1>1, Invariance, PTL

===============================================================================

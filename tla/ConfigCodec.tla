----------------------------- MODULE ConfigCodec -----------------------------
(***************************************************************************)
(* A BaseClientConfig (or a subclass of it) handed from client to client:  *)
(* constructed from whatever the caller passes, or authored as a document  *)
(* by hand, then written with to_dict / to_json and read with from_dict /  *)
(* from_json by clients of other versions, any number of times.  A value   *)
(* is its Python type, its text, and, for a collection or a dataclass, its *)
(* items, by index, key or field; what recurses over a value in the code   *)
(* is a recursive function.                                                *)
(***************************************************************************)
EXTENDS FiniteSets, Sequences, Functions

CONSTANTS
    Schema,       \* dataclass -> field -> [types, default], for the fields that its
                  \*   constructor takes (`init`): the declared types
                  \*   (Optional[X] is {X, None}) and its default, or Mandatory
    Clients,      \* the dataclasses that are client configs; the others are nested
    Enums,        \* the Enum types
    KeyText,      \* key of a mapping that is no str -> the str it is in JSON text
    Builtins,     \* converted type -> value -> what type(value) gives, when it does
    Levels,       \* the values a field may hold, by the depth of their nesting
    Passed        \* the keyword arguments and mappings that callers pass

Value(type, text) == [type |-> type, text |-> text, items |-> <<>>]
None      == Value("None", "")
Error     == Value("error", "")      \* an exception was raised
Mandatory == Value("MISSING", "")    \* dataclasses.MISSING

Values  == UNION Range(Levels)
Pems    == {"grpc_cert", "grpc_client_cert", "grpc_client_key"}
Coerced == {"str", "int", "float", "bool"} \cup Enums
Json    == {"None", "str", "int", "float", "bool", "list", "dict"}
Collections == {"dict", "list", "set"}
Builtin     == Json \cup {"bytes", "set", "error", "MISSING"}

VARIABLES
    config,       \* the config held, or None
    document,     \* the document in flight, or None
    isText,       \* whether it is JSON text (else a Python dict)
    refused,      \* [by, infer]: the last reader of this document that raised, or NoOne
    first,        \* history: field -> the value it was first given
    kept,         \* history: the fields that every client so far has had
    hops          \* history: whether config, or document, comes from one that was read

vars == <<config, document, isText, refused, first, kept, hops>>

NoOne   == [by |-> "nobody", infer |-> FALSE]

\* What a conversion makes of the items of v, and v with other items.
Mapped(convert, v)   == [f \in DOMAIN v.items |-> convert[v.items[f]]]
With(v, type, items) == [type |-> type, text |-> v.text, items |-> items]

-----------------------------------------------------------------------------
\* The constructor: it converts nothing but PEMs, and refuses half an identity.

encode(v) == IF v.type = "str" /\ v.text # "" THEN Value("bytes", v.text) ELSE v
__post_init__(items) ==
    [f \in DOMAIN items |-> IF f \in Pems THEN encode(items[f]) ELSE items[f]]

Falsy == {None, Value("bool", "False"), Value("int", "0"), Value("float", "0"),
          Value("str", ""), Value("bytes", "")}
Given(name, items) == name \in DOMAIN items /\ items[name] \notin Falsy
Half(items) == Given("grpc_client_cert", items) # Given("grpc_client_key", items)

Constructed(klass, items) ==
    IF Error \in Range(items) \/ Half(items) THEN Error
    ELSE [type |-> klass, text |-> "", items |-> __post_init__(items)]

-----------------------------------------------------------------------------
\* Writing.

_encode_grpc_cert(v) == IF v.type = "bytes" THEN Value("str", v.text) ELSE v

\* A value, of what its items have become.
PlainOf(v, plain) ==
    IF v.type \in DOMAIN Schema
    THEN With(v, "dict", [f \in DOMAIN v.items |->
             IF f \in Pems THEN _encode_grpc_cert(v.items[f]) ELSE plain[f]])
    ELSE IF v.type \in {"dict", "list"} THEN With(v, v.type, plain)
    ELSE IF v.type = "set" THEN With(v, "list", plain) ELSE v

_to_plain[v \in Values] == PlainOf(v, [f \in DOMAIN v.items |-> _to_plain[v.items[f]]])

\* A mutant: bytes are taken for text that JSON can hold.
_json_default_BytesKept(v) ==
    IF v.type \in Enums THEN Value("str", v.text)
    ELSE IF v.type = "set" THEN With(v, "list", v.items)
    ELSE IF v.type = "bytes" THEN v ELSE Error

_json_default(v) ==
    IF v.type \in Enums THEN Value("str", v.text)
    ELSE IF v.type \in {"bytes", "set"} THEN With(v, "list", v.items) ELSE Error

\* The floats that JSON has no number for: NaN, Infinity and -Infinity.
IsNonFinite(v) == v.type = "float" /\ v.text \in {"nan", "inf", "-inf"}

KeyAs(k) == IF k \in DOMAIN KeyText THEN KeyText[k] ELSE k

\* A mapping in JSON text, where every key is a str.
Keyed(items) == [k \in {KeyAs(j) : j \in DOMAIN items} |->
                    items[CHOOSE j \in DOMAIN items : KeyAs(j) = k]]

Libraries == {"json", "orjson"}
Writers   == Libraries \cup {"encode_json"}

\* What a plain value is without Python's own types, in a dict ("encode_json") or in
\* the JSON text of a library; orjson writes the floats that are not finite as null.
JsonOf(v, encoded, writer) ==
    IF v.type \in {"dict", "list"}
    THEN IF Error \in Range(encoded) THEN Error
         ELSE With(v, v.type, IF v.type = "dict" /\ writer \in Libraries
                              THEN Keyed(encoded) ELSE encoded)
    ELSE IF writer = "orjson" /\ IsNonFinite(v) THEN None
    ELSE IF v.type \in Json THEN v ELSE _json_default(v)

_encode_json_type(writer) ==
    LET encoded[v \in Values] == JsonOf(v, [f \in DOMAIN v.items |-> encoded[v.items[f]]], writer)
    IN encoded

-----------------------------------------------------------------------------
\* Reading.

\* The type a field is decoded as: X for Optional[X]; other unions are no class.
Target(types) ==
    LET others == IF Cardinality(types) = 2 THEN types \ {"None"} ELSE types
    IN IF Cardinality(others) = 1 THEN CHOOSE type \in others : TRUE ELSE "Union"

IsInstance(v, type) == v.type = type \/ (v.type = "bool" /\ type = "int")

\* A mutant: a value of any converted type will do.
Keeps_AnyConverted(type, v) ==
    type \notin Coerced \/ v.type \in Coerced \/ (type = "str" /\ v.type = "bytes")

\* Whether a field decoded as `type`, which is no dataclass, takes v as it is.
Keeps(type, v) ==
    type \notin Coerced \/ IsInstance(v, type) \/ (type = "str" /\ v.type = "bytes")

\* `decoded` is what v decodes to as each dataclass.
_decode_value(types, v, decoded) ==
    LET type == Target(types)
    IN IF v = None THEN None
       ELSE IF type \in DOMAIN Schema
            THEN IF v.type \in DOMAIN Schema THEN v ELSE decoded[type]
       ELSE IF Keeps(type, v) THEN v
       ELSE IF v \in DOMAIN Builtins[type] THEN Builtins[type][v] ELSE Error

\* A mutant: infer_missing comes before the default.
Absent_InferredFirst(field, infer) ==
    IF infer THEN None
    ELSE IF field.default = Mandatory THEN Error ELSE field.default

\* What an absent field gets: its default, which decoding leaves as it is
\* (DefaultAssumption); the constructor raises for one without.
Absent(field, infer) ==
    IF field.default # Mandatory THEN field.default
    ELSE IF infer THEN None ELSE Error

\* A mutant: `if kvs.get(name)`, so that a value that is False counts as absent.
Present_Truthy(f, kvs) == f \in DOMAIN kvs.items /\ kvs.items[f] \notin Falsy

Present(f, kvs) == f \in DOMAIN kvs.items

\* A mutant: every key is passed to the constructor, which raises on one it lacks.
Decodable_NoUnknownKeys(klass, kvs) ==
    kvs.type = "dict" /\ DOMAIN kvs.items \subseteq DOMAIN Schema[klass]

Decodable(klass, kvs) == kvs.type = "dict"

\* `decoded` is what each item of kvs decodes to as each dataclass.
_decode_dataclass(klass, kvs, decoded, infer) ==
    IF kvs.type = klass THEN kvs
    ELSE IF ~Decodable(klass, kvs) THEN Error
    ELSE Constructed(klass, [f \in DOMAIN Schema[klass] |->
             IF Present(f, kvs) THEN _decode_value(Schema[klass][f].types, kvs.items[f], decoded[f])
             ELSE Absent(Schema[klass][f], infer)])

Decoder(infer) ==
    LET decoded[kvs \in Values] ==
            [klass \in DOMAIN Schema |->
                _decode_dataclass(klass, kvs, [f \in DOMAIN kvs.items |-> decoded[kvs.items[f]]], infer)]
    IN decoded

-----------------------------------------------------------------------------
\* The parts of a value: itself, its items, and their parts.
Parts[v \in Values] == {v} \cup UNION {Parts[v.items[f]] : f \in DOMAIN v.items}

Instances(v)    == {u \in Parts[v] : u.type \in DOMAIN Schema}
HasNonFinite(v) == \E u \in Parts[v] : IsNonFinite(u)

\* v has the type its field is decoded as, if that is one that values are converted to.
HasType(types, v) ==
    LET type == Target(types)
    IN \/ v = None
       \/ type \notin Coerced \cup DOMAIN Schema
       \/ IsInstance(v, type)
       \/ type = "str" /\ v.type = "bytes"

\* v, and each field of the instances in it, has its type, those in `passed` apart.
Typed(types, v, passed) ==
    /\ HasType(types, v) \/ v \in passed
    /\ \A u \in Instances(v) \ passed : \A f \in DOMAIN u.items :
          HasType(Schema[u.type][f].types, u.items[f]) \/ u.items[f] \in passed

-----------------------------------------------------------------------------
Begin(items) ==
    /\ isText = FALSE
    /\ refused = NoOne
    /\ first = __post_init__(items)
    /\ kept = DOMAIN items
    /\ hops = FALSE

Construct(klass) ==
    \E items \in Passed :
        /\ DOMAIN items = DOMAIN Schema[klass]
        /\ Constructed(klass, items) # Error
        /\ Begin(items)
        /\ config = Constructed(klass, items)
        /\ document = None

\* A mapping of the caller's own, with keys missing.
Author ==
    \E items \in Passed :
        /\ Begin(items)
        /\ document = With(None, "dict", items)
        /\ config = None

Init == (\E klass \in Clients : Construct(klass)) \/ Author

Send(written, text) ==
    /\ written # Error
    /\ document' = written
    /\ isText' = text
    /\ config' = None
    /\ UNCHANGED <<refused, first, kept, hops>>

Plain == PlainOf(config, Mapped(_to_plain, config))
AsJson(writer) == JsonOf(Plain, Mapped(_encode_json_type(writer), Plain), writer)

to_dict == config # None /\ Send(Plain, FALSE)
to_dict_encode_json == config # None /\ Send(AsJson("encode_json"), FALSE)

\* With keyword arguments json.dumps renders it, without orjson does.
to_json(library) == config # None /\ Send(AsJson(library), TRUE)

\* The reader holds the config, or it raises and the document is still there.
Read(klass, infer, accepted) ==
    LET read == _decode_dataclass(klass, document, Mapped(Decoder(infer), document), infer)
    IN IF ~accepted \/ read = Error
       THEN /\ refused' = [by |-> klass, infer |-> infer]
            /\ UNCHANGED <<config, document, isText, first, kept, hops>>
       ELSE /\ config' = read
            /\ document' = None
            /\ isText' = FALSE
            /\ refused' = NoOne
            /\ kept' = kept \cap DOMAIN Schema[klass]
            /\ hops' = TRUE
            /\ UNCHANGED first

from_dict(klass, infer) == document # None /\ ~isText /\ Read(klass, infer, TRUE)

\* orjson.loads refuses the literals NaN and Infinity anywhere, json.loads takes them.
from_json(klass, infer, library) ==
    /\ document # None /\ isText
    /\ Read(klass, infer, library = "orjson" =>
                              \A f \in DOMAIN document.items : ~HasNonFinite(document.items[f]))

Next ==
    \/ to_dict \/ to_dict_encode_json
    \/ \E library \in Libraries : to_json(library)
    \/ \E klass \in Clients, infer \in BOOLEAN :
        \/ from_dict(klass, infer)
        \/ \E library \in Libraries : from_json(klass, infer, library)

Spec == Init /\ [][Next]_vars

-----------------------------------------------------------------------------
\* What the constants stand for.

\* Fields of one name are the same in all the clients; the PEMs are those of
\* BaseClientConfig, and a class has both halves of an identity or neither.  Every
\* field is one that the constructor takes, and a str names it.
ASSUME SchemaAssumption ==
    /\ Clients \subseteq DOMAIN Schema
    /\ \A c \in DOMAIN Schema : DOMAIN Schema[c] \cap DOMAIN KeyText = {}
    /\ \A c, d \in Clients : \A f \in DOMAIN Schema[c] \cap DOMAIN Schema[d] :
          Schema[c][f] = Schema[d][f]
    /\ \A c \in DOMAIN Schema :
          /\ "grpc_client_cert" \in DOMAIN Schema[c] <=> "grpc_client_key" \in DOMAIN Schema[c]
          /\ \A f \in Pems \cap DOMAIN Schema[c] :
                Schema[c][f].types = {"str", "None"} /\ Schema[c][f].default = None

ASSUME TypeNameAssumption ==
    /\ Builtin \cap (DOMAIN Schema \cup Enums) = {}
    /\ DOMAIN Schema \cap Enums = {}

\* An item lies on a lower level than what holds it; only collections and instances
\* have items, and an instance is one that its constructor has built.
ASSUME ValueAssumption ==
    /\ Len(Levels) \in Nat /\ DOMAIN Levels = 1..Len(Levels)
    /\ \A n \in DOMAIN Levels : \A v \in Levels[n] : \A f \in DOMAIN v.items :
          \E m \in 1..(n - 1) : v.items[f] \in Levels[m]
    /\ None \in Values
    /\ \A v \in Values :
          /\ v = With(v, v.type, [f \in DOMAIN v.items |-> v.items[f]])
          /\ v.type \notin {"error", "MISSING"}
          /\ v.type \notin Collections \cup DOMAIN Schema => v = Value(v.type, v.text)
          /\ v.type \in DOMAIN Schema =>
                /\ v = Constructed(v.type, v.items)
                /\ DOMAIN v.items = DOMAIN Schema[v.type]
                /\ \A f \in Pems \cap DOMAIN v.items :
                      v.items[f].type \notin Collections \cup DOMAIN Schema

\* The text of a key is a str, and no mapping has two keys of one text.
ASSUME KeyAssumption ==
    /\ Range(KeyText) \cap DOMAIN KeyText = {}
    /\ \A v \in Values : \A j, k \in DOMAIN v.items : KeyAs(j) = KeyAs(k) => j = k

\* type(value) is of that type; str() takes any value, and an Enum its members' values.
ASSUME BuiltinsAssumption ==
    /\ \A type \in Coerced : \A v \in DOMAIN Builtins[type] :
          Builtins[type][v] \in Values /\ Builtins[type][v].type = type
    /\ Values \subseteq DOMAIN Builtins["str"]
    /\ \A v \in Values : v.type \in Enums =>
          /\ Value("str", v.text) \in DOMAIN Builtins[v.type]
          /\ Builtins[v.type][Value("str", v.text)] = v

\* Values has all that the conversions make of its members.
Nested == UNION {{Target(Schema[c][f].types) : f \in DOMAIN Schema[c]} : c \in DOMAIN Schema}
ASSUME ClosureAssumption ==
    \A v \in Values :
        /\ encode(v) \in Values /\ _encode_grpc_cert(v) \in Values
        /\ _to_plain[v] \in Values
        /\ \A writer \in Writers : _encode_json_type(writer)[v] \in Values \cup {Error}
        /\ \A infer \in BOOLEAN, klass \in DOMAIN Schema \cap Nested :
              Decoder(infer)[v][klass] \in Values \cup {Error}

ASSUME DefaultAssumption ==
    \A c \in DOMAIN Schema : \A f \in DOMAIN Schema[c] :
        Schema[c][f].default # Mandatory =>
            /\ Schema[c][f].default \in Values
            /\ Typed(Schema[c][f].types, Schema[c][f].default, {})

\* A caller passes the fields of some client, and no collection for a PEM.
ASSUME PassedAssumption ==
    \A items \in Passed :
        /\ DOMAIN items \subseteq UNION {DOMAIN Schema[c] : c \in Clients}
        /\ items = [f \in DOMAIN items |-> items[f]]
        /\ \A f \in DOMAIN items :
              /\ items[f] \in Values
              /\ f \in Pems => items[f].type \notin Collections \cup DOMAIN Schema

-----------------------------------------------------------------------------
\* A field, of whichever client has it.
Field(f) == LET owner == CHOOSE c \in Clients : f \in DOMAIN Schema[c] IN Schema[owner][f]

\* The instances that the caller passed for f, and what f is meant to hold.
Caller(f)   == IF f \in kept THEN Instances(first[f]) ELSE {}
Intended(f) == IF f \in kept THEN first[f]
               ELSE IF Field(f).default = Mandatory THEN None ELSE Field(f).default

\* What JSON has as it is: no other types, no float that is not finite, and no key
\* that is not a str.
StrKeys(v) == v.type = "dict" => DOMAIN v.items \cap DOMAIN KeyText = {}
InJson(v)  == v.type \in Json /\ ~IsNonFinite(v) /\ StrKeys(v)

\* A value of its field's type, which JSON has as it is or its field converts back;
\* and the same of every field of the instances in it.
PortableAt(f, types, v) ==
    LET type == Target(types)
    IN \/ v = None
       \/ f \in Pems /\ v = encode(Value("str", v.text))
       \/ f \notin Pems /\ type \in Coerced \cup DOMAIN Schema /\ IsInstance(v, type)
          /\ ~IsNonFinite(v)
       \/ type \notin Coerced \cup DOMAIN Schema /\ \A u \in Parts[v] : InJson(u)
Portable(f, types, v) ==
    /\ PortableAt(f, types, v)
    /\ \A u \in Instances(v) : \A g \in DOMAIN u.items :
          PortableAt(g, Schema[u.type][g].types, u.items[g])

\* Every variable has its type; a JSON text holds nothing that JSON cannot.
TypeOK ==
    /\ (config = None) # (document = None)
    /\ config # None => /\ config.type \in Clients
                        /\ config.items \in [DOMAIN Schema[config.type] -> Values]
    /\ document # None => Range(document.items) \subseteq Values
    /\ isText => \A f \in DOMAIN document.items : \A u \in Parts[document.items[f]] :
                    u.type \in Json /\ StrKeys(u)
    /\ refused \in [by : Clients, infer : BOOLEAN] \cup {NoOne}
    /\ kept \subseteq DOMAIN first
    /\ hops \in BOOLEAN

\* _decode_value(): whatever a caller passed to the constructor or wrote in a
\* document, a config that was read holds in each field of a converted type, at
\* every depth, a value of that type, None, or bytes for text, whichever clients
\* and formats it came through; only a nested instance that the caller passed stays.
ReadIsTyped ==
    hops /\ config # None =>
        \A f \in DOMAIN config.items : Typed(Field(f).types, config.items[f], Caller(f))

\* from_dict / from_json "give back an equal config": through any number of clients,
\* of whatever versions, and whichever of dict, orjson and json carries it in between,
\* every portable field that they all have comes out as it was first given.  (Not
\* portable: what its field would convert or JSON has no type for, Infinity and NaN,
\* and mappings whose keys are no strs, at any depth.)
CarriedUnchanged ==
    config # None =>
        \A f \in kept : Portable(f, Field(f).types, first[f]) => config.items[f] = first[f]

\* "A configuration written by a newer client loads on an older one; absent fields
\* take their defaults": a field some client on the way did not have, or the author
\* left out, is its default (a portable one), and None if it has none.
SkewResetsToDefault ==
    config # None => \A f \in DOMAIN config.items \ kept :
        LET default == Schema[config.type][f].default
        IN IF default = Mandatory THEN config.items[f] = None
           ELSE Portable(f, Field(f).types, default) => config.items[f] = default

\* No version refuses a document but for a field that is not portable as it was given
\* (or as its default is), for a mandatory one that is absent, or for half an identity
\* that the author wrote; and once some client has read the config, its conversions
\* can be refused no more: only a float that is not finite, or a nested instance that
\* was passed through, is left to be.
RefusedOnlyUnfit ==
    refused # NoOne =>
        \/ \E f \in DOMAIN document.items :
              /\ ~Portable(f, Field(f).types, Intended(f))
              /\ hops => HasNonFinite(document.items[f]) \/ Caller(f) # {}
        \/ /\ ~refused.infer
           /\ \E f \in DOMAIN Schema[refused.by] \ DOMAIN document.items :
                 Schema[refused.by][f].default = Mandatory
        \/ ~hops /\ Half(document.items)
=============================================================================

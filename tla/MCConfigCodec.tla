---------------------------- MODULE MCConfigCodec ----------------------------
(***************************************************************************)
(* A small instance of ConfigCodec: an older and a newer client, fields of *)
(* every kind the decoder tells apart, dataclasses nested two deep, and for *)
(* each field the values that it keeps, converts and refuses.              *)
(***************************************************************************)
EXTENDS ConfigCodec, FiniteSetsExt, TLC

CONSTANTS
    Old, New, Inner, Outer, Color,
    MaxVaried     \* the fields of one call that differ from the plain case

FieldOf(types, default) == [types |-> types, default |-> default]
Pem  == FieldOf({"str", "None"}, None)
Base == [port             |-> FieldOf({"str"}, Mandatory),
         grpc_client_cert |-> Pem,
         grpc_client_key  |-> Pem,
         verify           |-> FieldOf({"bool"}, Value("bool", "True"))]
Extra == [expires |-> FieldOf({"int", "None"}, None),
          color   |-> FieldOf({Color}, Value(Color, "blue")),
          outer   |-> FieldOf({Outer, "None"}, None),
          extra   |-> FieldOf({"Any"}, Value("float", "nan"))]

MCSchema == (Old :> Base) @@ (New :> (Base @@ Extra))
            @@ (Outer :> [inner |-> FieldOf({Inner, "None"}, None)])
            @@ (Inner :> [weight |-> FieldOf({"int"}, Value("int", "1"))])
MCClients == {Old, New}
MCEnums == {Color}
MCKeyText == "int 1" :> "1"      \* the key 1, which JSON text has as "1"

Item(type, name, v) == [type |-> type, text |-> "", items |-> (name :> v)]
Dict == [type |-> "dict", text |-> "", items |-> <<>>]

\* The scalars, and what is a list of the bytes of one.
Texts   == {"0", "1", "2", "False", "True", "red", "blue", "x", "b", "c", "", "..."}
Scalars == {None, Value("object", "o"), Value("float", "nan"), Value("float", "inf")}
           \cup {Value(type, text) : type \in {"str", "bytes", "list"}, text \in Texts}
           \cup {Value("int", text) : text \in {"0", "1", "2"}}
           \cup {Value("bool", text) : text \in {"True", "False"}}
           \cup {Value(Color, text) : text \in {"red", "blue"}}

Weights == {None, Value("int", "1"), Value("int", "2"), Value("str", "1"), Value("str", "x")}
Members == {Value("bytes", "b"), Value("list", "b"), Value(Color, "red"), Value("str", "red"),
            Value("float", "nan"), None}
Numbered == {Item("dict", key, m) : key \in {"int 1", "1"}, m \in Members}
Inners  == {Item(type, "weight", w) : type \in {Inner, "dict"}, w \in Weights}
           \cup {Dict, Item("dict", "unknown", Value("int", "1"))}
Lists(members) == {Item(type, "first", m) : type \in {"list", "set", "dict"}, m \in members}

MCLevels == <<Scalars,
              Inners \cup Lists(Members) \cup Numbered,
              {Item(type, "inner", v) : type \in {Outer, "dict"},
                                        v \in Inners \cup {None, Value("str", "x")}}
              \cup Lists(Inners)>>
MCValues == UNION {MCLevels[n] : n \in 1..3}

\* What Python's builtins make of the values.
Strs  == [v \in MCValues |-> Value("str", IF v.type \in {"bytes", "list"} \/ v.items # <<>>
                                             \/ v.text \notin Texts
                                          THEN "..." ELSE v.text)]
Ints  == [v \in {Value("str", t) : t \in {"0", "1", "2"}} |-> Value("int", v.text)]
Bools == [v \in MCValues |->
             Value("bool", IF v \in Falsy \cup {Dict, Value("list", "")} THEN "False" ELSE "True")]
Colors == [v \in {Value("str", t) : t \in {"red", "blue"}} |-> Value(Color, v.text)]
MCBuiltins == ("str" :> Strs) @@ ("int" :> Ints) @@ ("float" :> <<>>) @@ ("bool" :> Bools)
              @@ (Color :> Colors)

\* What callers pass: the plain case, and others in a few fields.
PlainCase == [port |-> Value("str", "1"),
              grpc_client_cert |-> Value("str", "c"), grpc_client_key |-> Value("bytes", "c"),
              verify |-> Value("bool", "False"), expires |-> Value("bool", "True"),
              color |-> Value(Color, "red"), extra |-> Item("dict", "first", Value("str", "red")),
              outer |-> Item(Outer, "inner", Item(Inner, "weight", Value("int", "2")))]
Others ==
    [port    |-> {Value("int", "1")},
     grpc_client_cert |-> {None, Value("str", "")},
     grpc_client_key  |-> {Value("bytes", ""), Value("bool", "False")},
     verify  |-> {Value("str", "False")},
     expires |-> {Value("str", "1"), Value("str", "x"), Value("float", "nan")},
     color   |-> {Value("str", "red")},
     outer   |-> {Item(Outer, "inner", Item("dict", "weight", Value("str", "1"))),
                  Item("dict", "inner", Item(Inner, "weight", Value("str", "x"))),
                  Item("dict", "inner", Item("dict", "weight", Value("str", "1"))),
                  Item("dict", "inner", Dict),
                  Item("dict", "inner", Value("str", "x"))},
     extra   |-> {Value("float", "inf"), Value("object", "o"), Value("bytes", "b"),
                  Item("dict", "int 1", Value("str", "red")),
                  Item("set", "first", Value(Color, "red")),
                  Item("list", "first", Item(Inner, "weight", Value("str", "1")))}]

\* The calls that pass `given` and, of each field of `varied`, another value or none.
Vary(given, varied) ==
    FoldSet(LAMBDA f, calls :
                calls \cup {[items EXCEPT ![f] = v] : items \in calls, v \in Others[f]}
                      \cup {[g \in DOMAIN items \ {f} |-> items[g]] : items \in calls},
            {given}, varied)
MCPassed ==
    UNION {UNION {Vary([f \in fields |-> PlainCase[f]], varied) :
                     varied \in kSubset(MaxVaried, fields)} :
              fields \in {DOMAIN Base, DOMAIN PlainCase}}
=============================================================================

---------------------------- MODULE ClientConfig ----------------------------
(***************************************************************************)
(* The life of a BaseClientConfig's certificates: constructed, copied with *)
(* dataclasses.replace, written with to_dict / to_json and read back (whole *)
(* or with keys missing), and finally handed to grpc core when a channel   *)
(* is opened for the config, or for PEMs passed to the public              *)
(* get_secure_channel.  grpc core aborts the process on half an identity.  *)
(***************************************************************************)
EXTENDS Integers

CONSTANTS
    Texts,       \* the contents a PEM may have
    Empty,       \* the content of "" and b""
    Undecodable  \* contents that only bytes can hold: no UTF-8 text

ASSUME PemAssumption == Empty \in Texts /\ Undecodable \subseteq Texts \ {Empty}

VARIABLES
    config,      \* the fields of the config in use, or NoConfig
    given,       \* history: the contents the caller meant it to hold
    channel,     \* the last channel opened
    aborted      \* whether grpc core has aborted the process

vars == <<config, given, channel, aborted>>

Fields == {"grpc_cert", "grpc_client_cert", "grpc_client_key"}

Str(text)   == [type |-> "str", text |-> text]
Bytes(text) == [type |-> "bytes", text |-> text]
None        == [type |-> "None", text |-> Empty]

Values == {None} \cup {Str(x) : x \in Texts \ Undecodable} \cup {Bytes(x) : x \in Texts}
Holders  == [Fields -> Values]
NoConfig == [f \in {} |-> None]
Wishes   == [Fields -> Texts]

Truthy(v)    == v.text # Empty
HalfIdentity(clientCert, clientKey) == Truthy(clientCert) # Truthy(clientKey)

\* A channel: over TLS or not, the root certificate and the identity it got, and
\* what its config was meant to hold.
Channels == [tls : BOOLEAN, root : Texts, identity : [cert : Texts, key : Texts],
             of : Wishes \cup {NoConfig}]
Unopened == [tls |-> TRUE, root |-> Empty, identity |-> [cert |-> Empty, key |-> Empty],
             of |-> NoConfig]

Init ==
    /\ config = NoConfig
    /\ given = NoConfig
    /\ channel = Unopened
    /\ aborted = FALSE

-----------------------------------------------------------------------------
\* A mutant: a str stays a str.
encode_Skipped(v) == v

encode(v) == IF v.type = "str" /\ Truthy(v) THEN Bytes(v.text) ELSE v
__post_init__(values) == [f \in Fields |-> encode(values[f])]

\* The constructor: it raises, and there is no new config, on half an identity.
\* `wish` is what the caller means the new config to hold.
Create(values, wish) ==
    /\ ~HalfIdentity(values["grpc_client_cert"], values["grpc_client_key"])
    /\ config' = __post_init__(values)
    /\ given' = wish
    /\ UNCHANGED <<channel, aborted>>

Construct(values) ==
    /\ config = NoConfig /\ ~aborted
    /\ Create(values, [f \in Fields |-> values[f].text])

\* dataclasses.replace(config, **changes) runs the constructor again.
Replace(names, values) ==
    /\ config # NoConfig /\ ~aborted
    /\ Create([f \in Fields |-> IF f \in names THEN values[f] ELSE config[f]],
              [f \in Fields |-> IF f \in names THEN values[f].text ELSE given[f]])

\* A mutant: bytes are written like any other collection, as a list.
_encode_grpc_cert_Missing(v) == IF v.type = "bytes" THEN [v EXCEPT !.type = "list"] ELSE v

\* The encoder of the three fields; decoding raises on what is no UTF-8.
_encode_grpc_cert(v) == IF v.type = "bytes" THEN Str(v.text) ELSE v

\* to_dict and from_dict (or to_json and from_json): the document is read back
\* with the keys `names` present.  An absent field takes its default, and
\* _decode_value keeps a str or None given for an Optional[str].
RoundTrip(names) ==
    /\ config # NoConfig /\ ~aborted
    /\ \A f \in Fields : config[f].type = "bytes" => config[f].text \notin Undecodable
    /\ Create([f \in Fields |-> IF f \in names THEN _encode_grpc_cert(config[f]) ELSE None],
              [f \in Fields |-> IF f \in names THEN given[f] ELSE Empty])

-----------------------------------------------------------------------------
\* grpc.ssl_channel_credentials: grpc core aborts on half an identity.
ssl_channel_credentials(root, clientCert, clientKey, of) ==
    /\ aborted' = ((clientCert = Empty) # (clientKey = Empty))
    /\ channel' = [tls |-> TRUE, root |-> root,
                   identity |-> [cert |-> clientCert, key |-> clientKey], of |-> of]
    /\ UNCHANGED <<config, given>>

\* A mutant: half an identity is not refused.
get_secure_channel_Unguarded(cert, clientCert, clientKey, of) ==
    ssl_channel_credentials(cert.text, clientCert.text, clientKey.text, of)

\* A mutant: the identity's parts are swapped.
get_secure_channel_Swapped(cert, clientCert, clientKey, of) ==
    /\ ~HalfIdentity(clientCert, clientKey)
    /\ ssl_channel_credentials(cert.text, clientKey.text, clientCert.text, of)

\* It raises on half an identity.
get_secure_channel(cert, clientCert, clientKey, of) ==
    /\ ~HalfIdentity(clientCert, clientKey)
    /\ ssl_channel_credentials(cert.text, clientCert.text, clientKey.text, of)

\* A mutant: a client certificate does not matter.
OpenInsecure_Unguarded ==
    /\ config # NoConfig /\ ~aborted
    /\ channel' = [tls |-> FALSE, root |-> Empty,
                   identity |-> [cert |-> Empty, key |-> Empty], of |-> given]
    /\ UNCHANGED <<config, given, aborted>>

\* A plaintext channel, refused to a config with a client certificate.
OpenInsecure ==
    /\ config # NoConfig /\ ~aborted
    /\ ~Truthy(config["grpc_client_cert"])
    /\ channel' = [tls |-> FALSE, root |-> Empty,
                   identity |-> [cert |-> Empty, key |-> Empty], of |-> given]
    /\ UNCHANGED <<config, given, aborted>>

\* A TLS channel, refused to a config without a root certificate.
OpenSecure ==
    /\ config # NoConfig /\ ~aborted
    /\ Truthy(config["grpc_cert"])
    /\ get_secure_channel(config["grpc_cert"], config["grpc_client_cert"],
                          config["grpc_client_key"], given)

\* A caller of get_secure_channel with PEMs of its own.
OpenDirect(cert, clientCert, clientKey) ==
    /\ ~aborted
    /\ cert # None
    /\ get_secure_channel(cert, clientCert, clientKey, NoConfig)

Next ==
    \/ \E values \in Holders : Construct(values)
    \/ \E names \in SUBSET Fields :
        \/ \E values \in [names -> Values] : Replace(names, values)
        \/ RoundTrip(names)
    \/ OpenInsecure \/ OpenSecure
    \/ \E cert, clientCert, clientKey \in Values : OpenDirect(cert, clientCert, clientKey)

Spec == Init /\ [][Next]_vars

-----------------------------------------------------------------------------
\* Every variable has its type.
TypeOK ==
    /\ config \in Holders \cup {NoConfig}
    /\ given \in Wishes \cup {NoConfig}
    /\ channel \in Channels
    /\ aborted \in BOOLEAN

\* get_secure_channel(): "Half an identity makes grpc core CHECK-fail and abort()
\* the whole process".  No config that was ever constructed, replaced or read
\* back, and no PEM in whatever type, brings it about.
NeverAborts == ~aborted

\* A TLS channel of a config verifies the server with the root certificate and
\* presents the identity (or none) that the caller gave, in whichever of str and
\* bytes, and however often the config was copied and serialized in between.
ChannelAsGiven ==
    channel.tls /\ channel.of # NoConfig =>
        /\ channel.root = channel.of["grpc_cert"]
        /\ channel.root # Empty
        /\ channel.identity = [cert |-> channel.of["grpc_client_cert"],
                               key  |-> channel.of["grpc_client_key"]]

\* _get_grpc_channel(): a config meant to identify its client never gets a
\* plaintext channel that "would send it nowhere".
NoPlaintextWithIdentity ==
    ~channel.tls => /\ channel.of["grpc_client_cert"] = Empty
                    /\ channel.of["grpc_client_key"] = Empty

\* BaseClientConfig: `from_dict` / `from_json` of the whole document "give back
\* an equal config".  (It fails for b"": see the README.)
RoundTripEqual == [][RoundTrip(Fields) => config' = config]_vars

\* What is true of it: the config read back is equal but for empty PEMs, whose
\* type may change.
RoundTripKeeps ==
    [][RoundTrip(Fields) =>
         \A f \in Fields : Truthy(config'[f]) \/ Truthy(config[f]) => config'[f] = config[f]]_vars
=============================================================================

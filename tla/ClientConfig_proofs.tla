------------------------ MODULE ClientConfig_proofs ------------------------
(***************************************************************************)
(* Whatever PEMs there are and however a config was made, grpc core gets   *)
(* no half identity, a channel gets what the caller gave, and a round trip *)
(* of the whole document loses nothing.                                    *)
(***************************************************************************)
EXTENDS ClientConfig, TLAPS

\* The config in use is one the constructor accepted: it still holds the contents
\* the caller meant it to hold, and holds them as bytes.
HoldsWhatWasGiven ==
    config # NoConfig =>
        /\ config \in Holders
        /\ \A f \in Fields : config[f].text = given[f]
        /\ \A f \in Fields : Truthy(config[f]) => config[f] = Bytes(given[f])
        /\ ~HalfIdentity(config["grpc_client_cert"], config["grpc_client_key"])

\* The content of no value is lost by __post_init__, which makes it bytes ...
LEMMA EncodeKeeps ==
    ASSUME NEW v \in Values
    PROVE  /\ encode(v) \in Values /\ encode(v).text = v.text
           /\ Truthy(v) => encode(v) = Bytes(v.text)
<1>1. CASE v.type = "str" /\ Truthy(v)
    BY <1>1 DEF encode, Values, Str, Bytes, None, Truthy
<1>2. CASE ~(v.type = "str" /\ Truthy(v))
    <2>1. encode(v) = v
        BY <1>2 DEF encode
    <2>2. Truthy(v) => v = Bytes(v.text)
        BY <1>2 DEF Values, Str, Bytes, None, Truthy
    <2> QED BY <2>1, <2>2
<1> QED BY <1>1, <1>2

\* ... or by the field encoder, where the content is text.
LEMMA EncoderKeeps ==
    ASSUME NEW v \in Values, v.type = "bytes" => v.text \notin Undecodable
    PROVE  _encode_grpc_cert(v) \in Values /\ _encode_grpc_cert(v).text = v.text
BY DEF _encode_grpc_cert, Values, Str, Bytes, None

\* The constructor makes a config that holds what was given, if it gets that.
LEMMA CreateHolds ==
    ASSUME NEW values \in Holders, NEW wish \in Wishes,
           \A f \in Fields : values[f].text = wish[f],
           Create(values, wish)
    PROVE  HoldsWhatWasGiven'
<1>1. config' = [f \in Fields |-> encode(values[f])] /\ given' = wish
    BY DEF Create, __post_init__
<1>2. \A f \in Fields : values[f] \in Values
    BY DEF Holders
<1>3. \A f \in Fields : config'[f] \in Values /\ config'[f].text = wish[f]
    BY <1>1, <1>2, EncodeKeeps
<1>4. config' \in Holders
    BY <1>1, <1>3 DEF Holders
<1>5. ~HalfIdentity(config'["grpc_client_cert"], config'["grpc_client_key"])
    BY <1>3 DEF Create, HalfIdentity, Truthy, Fields
<1>6. \A f \in Fields : Truthy(config'[f]) => config'[f] = Bytes(given'[f])
    <2>1. SUFFICES ASSUME NEW f \in Fields, Truthy(config'[f])
                   PROVE  config'[f] = Bytes(given'[f])
        OBVIOUS
    <2>2. Truthy(values[f])
        BY <1>3, <2>1 DEF Truthy
    <2> QED BY <1>1, <1>2, <2>2, EncodeKeeps
<1> QED BY <1>1, <1>3, <1>4, <1>5, <1>6 DEF HoldsWhatWasGiven

\* get_secure_channel hands grpc core a whole identity or none, and the contents
\* it got.
LEMMA SecureIsWhole ==
    ASSUME NEW cert, NEW clientCert, NEW clientKey, NEW of,
           get_secure_channel(cert, clientCert, clientKey, of)
    PROVE  /\ aborted' = FALSE
           /\ channel' = [tls |-> TRUE, root |-> cert.text,
                          identity |-> [cert |-> clientCert.text, key |-> clientKey.text],
                          of |-> of]
           /\ UNCHANGED <<config, given>>
BY DEF get_secure_channel, ssl_channel_credentials, HalfIdentity, Truthy

\* The inductive invariant: the config holds what was given, and the channel got
\* it.
IInv ==
    /\ HoldsWhatWasGiven
    /\ given \in Wishes \cup {NoConfig}
    /\ config # NoConfig => given \in Wishes
    /\ aborted \in BOOLEAN
    /\ NeverAborts
    /\ channel \in Channels
    /\ ChannelAsGiven
    /\ NoPlaintextWithIdentity

\* Every step keeps it.
LEMMA IInvInductive == IInv /\ [Next]_vars => IInv'
<1> SUFFICES ASSUME IInv, [Next]_vars
             PROVE  IInv'
    OBVIOUS
<1> USE PemAssumption
<1>. DEFINE Made(values, wish) ==
               /\ values \in Holders /\ wish \in Wishes
               /\ \A f \in Fields : values[f].text = wish[f]
               /\ Create(values, wish)
<1>1. ASSUME NEW values, NEW wish, Made(values, wish)
      PROVE  IInv'
    <2>1. HoldsWhatWasGiven'
        BY <1>1, CreateHolds
    <2>2. given' \in Wishes /\ UNCHANGED <<channel, aborted>>
        BY <1>1 DEF Create
    <2> QED BY <2>1, <2>2 DEF IInv, NeverAborts, ChannelAsGiven, NoPlaintextWithIdentity
<1>2. ASSUME NEW values \in Holders, Construct(values)
      PROVE  IInv'
    <2>. DEFINE wish == [f \in Fields |-> values[f].text]
    <2>1. \A f \in Fields : values[f] \in Values /\ values[f].text \in Texts
        BY DEF Holders, Values, Str, Bytes, None
    <2>2. wish \in Wishes
        BY <2>1 DEF Wishes
    <2>3. Made(values, wish)
        BY <1>2, <2>2 DEF Construct
    <2> QED BY <2>3, <1>1
<1>3. ASSUME NEW names \in SUBSET Fields, NEW changes \in [names -> Values],
             Replace(names, changes)
      PROVE  IInv'
    <2>. DEFINE values == [f \in Fields |-> IF f \in names THEN changes[f] ELSE config[f]]
                wish   == [f \in Fields |-> IF f \in names THEN changes[f].text ELSE given[f]]
    <2>1. config \in Holders /\ given \in Wishes
          /\ \A f \in Fields : config[f].text = given[f]
        BY <1>3 DEF Replace, IInv, HoldsWhatWasGiven
    <2>2. \A f \in names : changes[f] \in Values /\ changes[f].text \in Texts
        BY DEF Values, Str, Bytes, None
    <2>3. values \in Holders
        BY <2>1, <2>2 DEF Holders
    <2>4. wish \in Wishes
        BY <2>1, <2>2 DEF Wishes
    <2>5. \A f \in Fields : values[f].text = wish[f]
        BY <2>1
    <2>6. Made(values, wish)
        BY <1>3, <2>3, <2>4, <2>5 DEF Replace
    <2> QED BY <2>6, <1>1
<1>4. ASSUME NEW names \in SUBSET Fields, RoundTrip(names)
      PROVE  IInv'
    <2>. DEFINE values == [f \in Fields |-> IF f \in names THEN _encode_grpc_cert(config[f])
                                            ELSE None]
                wish   == [f \in Fields |-> IF f \in names THEN given[f] ELSE Empty]
    <2>1. config \in Holders /\ given \in Wishes
          /\ \A f \in Fields : config[f].text = given[f]
        BY <1>4 DEF RoundTrip, IInv, HoldsWhatWasGiven
    <2>2. \A f \in Fields : /\ _encode_grpc_cert(config[f]) \in Values
                            /\ _encode_grpc_cert(config[f]).text = config[f].text
        BY <1>4, <2>1, EncoderKeeps DEF RoundTrip, Holders
    <2>3. values \in Holders
        BY <2>2 DEF Holders, Values
    <2>4. wish \in Wishes
        BY <2>1 DEF Wishes
    <2>5. \A f \in Fields : values[f].text = wish[f]
        BY <2>1, <2>2 DEF None
    <2>6. Made(values, wish)
        BY <1>4, <2>3, <2>4, <2>5 DEF RoundTrip
    <2> QED BY <2>6, <1>1
<1>5. CASE OpenInsecure
    <2>1. config # NoConfig /\ ~Truthy(config["grpc_client_cert"])
        BY <1>5 DEF OpenInsecure
    <2>2. /\ given \in Wishes
          /\ \A f \in Fields : config[f].text = given[f]
          /\ ~HalfIdentity(config["grpc_client_cert"], config["grpc_client_key"])
        BY <2>1 DEF IInv, HoldsWhatWasGiven
    <2>3. given["grpc_client_cert"] = Empty /\ given["grpc_client_key"] = Empty
        BY <2>1, <2>2 DEF HalfIdentity, Truthy, Fields
    <2>4. /\ channel' = [tls |-> FALSE, root |-> Empty,
                         identity |-> [cert |-> Empty, key |-> Empty], of |-> given]
          /\ UNCHANGED <<config, given, aborted>>
        BY <1>5 DEF OpenInsecure
    <2>5. channel' \in Channels /\ ~channel'.tls /\ channel'.of = given
        BY <2>2, <2>4 DEF Channels
    <2> QED BY <2>3, <2>4, <2>5
            DEF IInv, HoldsWhatWasGiven, NeverAborts, ChannelAsGiven, NoPlaintextWithIdentity
<1>6. CASE OpenSecure
    <2>1. config # NoConfig /\ Truthy(config["grpc_cert"])
          /\ get_secure_channel(config["grpc_cert"], config["grpc_client_cert"],
                                config["grpc_client_key"], given)
        BY <1>6 DEF OpenSecure
    <2>2. \A f \in Fields : config[f].text = given[f]
        BY <2>1 DEF IInv, HoldsWhatWasGiven
    <2>3. /\ aborted' = FALSE
          /\ channel' = [tls |-> TRUE, root |-> config["grpc_cert"].text,
                         identity |-> [cert |-> config["grpc_client_cert"].text,
                                       key |-> config["grpc_client_key"].text],
                         of |-> given]
          /\ UNCHANGED <<config, given>>
        BY <2>1, SecureIsWhole
    <2>4. ChannelAsGiven'
        BY <2>1, <2>2, <2>3 DEF ChannelAsGiven, Truthy, Fields
    <2>5. /\ given \in Wishes
          /\ \A f \in Fields : config[f].text \in Texts
        BY <2>1, <2>2 DEF IInv, Wishes
    <2>6. channel' \in Channels /\ channel'.tls
        BY <2>3, <2>5 DEF Channels, Fields
    <2> QED BY <2>3, <2>4, <2>6 DEF IInv, HoldsWhatWasGiven, NeverAborts, NoPlaintextWithIdentity
<1>7. ASSUME NEW cert \in Values, NEW clientCert \in Values, NEW clientKey \in Values,
             OpenDirect(cert, clientCert, clientKey)
      PROVE  IInv'
    <2>1. get_secure_channel(cert, clientCert, clientKey, NoConfig)
        BY <1>7 DEF OpenDirect
    <2>2. /\ aborted' = FALSE
          /\ channel' = [tls |-> TRUE, root |-> cert.text,
                         identity |-> [cert |-> clientCert.text, key |-> clientKey.text],
                         of |-> NoConfig]
          /\ UNCHANGED <<config, given>>
        BY <2>1, SecureIsWhole
    <2>3. channel'.of = NoConfig /\ channel'.tls
        BY <2>2
    <2>4. cert.text \in Texts /\ clientCert.text \in Texts /\ clientKey.text \in Texts
        BY DEF Values, Str, Bytes, None
    <2>5. channel' \in Channels
        BY <2>2, <2>4 DEF Channels
    <2> QED BY <2>2, <2>3, <2>5
            DEF IInv, HoldsWhatWasGiven, NeverAborts, ChannelAsGiven, NoPlaintextWithIdentity
<1>8. CASE UNCHANGED vars
    BY <1>8 DEF vars, IInv, HoldsWhatWasGiven, NeverAborts, ChannelAsGiven, NoPlaintextWithIdentity
<1> QED BY <1>2, <1>3, <1>4, <1>5, <1>6, <1>7, <1>8 DEF Next

\* At first there is no config and no channel.
LEMMA IInvInit == Init => IInv
<1> SUFFICES ASSUME Init
             PROVE  IInv
    OBVIOUS
<1>1. aborted \in BOOLEAN /\ NeverAborts
    BY DEF Init, NeverAborts
<1>2. channel \in Channels /\ channel.tls /\ channel.of = NoConfig
    BY PemAssumption DEF Init, Unopened, Channels
<1> QED BY <1>1, <1>2
        DEF Init, IInv, HoldsWhatWasGiven, ChannelAsGiven, NoPlaintextWithIdentity

\* get_secure_channel() and __post_init__(): no PEM of any type, and no config
\* however it came about, makes grpc core abort the process.
THEOREM NeverAbortsHolds == Spec => []NeverAborts
<1>1. IInv => NeverAborts BY DEF IInv
<1> QED BY <1>1, IInvInit, IInvInductive, PTL DEF Spec

\* A TLS channel gets the root certificate and the identity the caller gave the
\* config, through every chain of copies and round trips.
THEOREM ChannelAsGivenHolds == Spec => []ChannelAsGiven
<1>1. IInv => ChannelAsGiven BY DEF IInv
<1> QED BY <1>1, IInvInit, IInvInductive, PTL DEF Spec

\* _get_grpc_channel(): no config that is meant to identify its client, in however
\* many copies and round trips it got there, opens a plaintext channel.
THEOREM NoPlaintextWithIdentityHolds == Spec => []NoPlaintextWithIdentity
<1>1. IInv => NoPlaintextWithIdentity BY DEF IInv
<1> QED BY <1>1, IInvInit, IInvInductive, PTL DEF Spec

\* Every variable keeps its type, a config the fields and value types of one.
THEOREM TypeCorrect == Spec => []TypeOK
<1>1. IInv => TypeOK BY DEF IInv, HoldsWhatWasGiven, NeverAborts, TypeOK
<1> QED BY <1>1, IInvInit, IInvInductive, PTL DEF Spec

\* to_dict() and from_dict() of the whole document: every PEM that is not empty
\* comes back as the same bytes, although it was a str in between.
LEMMA RoundTripStep == IInv /\ RoundTrip(Fields) => \A f \in Fields :
                         Truthy(config'[f]) \/ Truthy(config[f]) => config'[f] = config[f]
<1> SUFFICES ASSUME IInv, RoundTrip(Fields), NEW f \in Fields,
                    Truthy(config'[f]) \/ Truthy(config[f])
             PROVE  config'[f] = config[f]
    OBVIOUS
<1>1. /\ config \in Holders /\ \A g \in Fields : config[g].text = given[g]
      /\ Truthy(config[f]) => config[f] = Bytes(given[f])
    BY DEF RoundTrip, IInv, HoldsWhatWasGiven
<1>2. /\ _encode_grpc_cert(config[f]) \in Values
      /\ _encode_grpc_cert(config[f]).text = config[f].text
    BY <1>1, EncoderKeeps DEF RoundTrip, Holders
<1>3. config'[f] = encode(_encode_grpc_cert(config[f]))
    BY DEF RoundTrip, Create, __post_init__
<1>4. /\ config'[f].text = config[f].text
      /\ Truthy(_encode_grpc_cert(config[f])) => config'[f] = Bytes(config[f].text)
    BY <1>2, <1>3, EncodeKeeps
<1> QED BY <1>1, <1>2, <1>4 DEF Truthy

\* A whole document that is read back gives an equal config, but for the type of
\* empty PEMs.
THEOREM RoundTripKeepsHolds == Spec => RoundTripKeeps
<1>1. IInv /\ [Next]_vars =>
        [RoundTrip(Fields) => \A f \in Fields :
            Truthy(config'[f]) \/ Truthy(config[f]) => config'[f] = config[f]]_vars
    BY RoundTripStep
<1> QED BY <1>1, IInvInit, IInvInductive, PTL DEF Spec, RoundTripKeeps
=============================================================================

------------------------- MODULE RetryPolicy_proofs -------------------------
(***************************************************************************)
(* Facts about the retry policy, for any set of audited methods.           *)
(***************************************************************************)
EXTENDS RetryPolicy, DataLemmas

\* build_service_config_json(): whatever services it is given, and however often,
\* the config it builds retries idempotent methods only.
LEMMA BuiltRetriesIdempotent ==
    ASSUME NEW services
    PROVE  \A m \in Retried(build_service_config_json(services)) : is_idempotent_method(m)
<1> SUFFICES ASSUME NEW m \in Methods, build_service_config_json(services)[m] > 0,
                    ~is_idempotent_method(m)
             PROVE  FALSE
  BY DEF Retried
<1>1. build_service_config_json(services)[m] = 0
  BY DEF build_service_config_json
<1>2. QED
  BY <1>1

\* is_idempotent_method(): on audited methods it never takes one that acts.
LEMMA IdempotentIsHarmless ==
    ASSUME NEW m \in Methods, is_idempotent_method(m)
    PROVE  ~m.acts
BY MethodsAssumption DEF is_idempotent_method, Audited, MethodType

\* No config built from any list of services retries a method that acts.
LEMMA BuiltRetriesNoAction ==
    ASSUME NEW services
    PROVE  \A m \in Retried(build_service_config_json(services)) : m \in Methods /\ ~m.acts
BY BuiltRetriesIdempotent, IdempotentIsHarmless DEF Retried

\* The positions of a service that the first mentions keep: none, or one.
Mentions(services, name) == {i \in FirstMentions(services) : services[i] = name}

LEMMA MentionedOnce ==
    ASSUME NEW S, NEW services \in Seq(S), NEW name
    PROVE  \/ Mentions(services, name) = {} /\ name \notin Range(services)
           \/ (\E i : Mentions(services, name) = {i}) /\ name \in Range(services)
<1> DEFINE Named == {i \in DOMAIN services : services[i] = name}
<1>1. Len(services) \in Nat /\ DOMAIN services = 1..Len(services)
  BY LenProperties
<1>2. CASE Named = {}
  BY <1>2 DEF Mentions, FirstMentions, Range
<1>3. CASE Named # {}
  <2>1. Named \subseteq Nat
    BY <1>1
  <2>2. PICK i \in Named : \A j \in Named : i <= j
    BY <1>3, <2>1, LeastNatural
  <2>3. i \in FirstMentions(services)
    BY <1>1, <2>2 DEF FirstMentions
  <2>4. ASSUME NEW j \in FirstMentions(services), services[j] = name
        PROVE  j = i
    <3>1. j \in Named /\ i <= j /\ i \in Nat /\ j \in Nat
      BY <1>1, <2>2, <2>4 DEF FirstMentions
    <3>2. ~(i \in 1..(j - 1))
      BY <2>2, <2>4 DEF FirstMentions
    <3>3. QED
      BY <1>1, <2>2, <3>1, <3>2
  <2>5. QED
    BY <2>2, <2>3, <2>4 DEF Mentions, Range
<1>4. QED
  BY <1>2, <1>3

\* build_service_config_json(): the config is whole, names no path twice, and
\* retries exactly the idempotent methods of the services listed, in whatever
\* order and however often they are.
LEMMA BuiltConfig ==
    ASSUME NEW S, NEW services \in Seq(S)
    PROVE  /\ build_service_config_json(services) \in Configs
           /\ Accepted(build_service_config_json(services))
           /\ Retried(build_service_config_json(services)) =
                 {m \in Methods : is_idempotent_method(m) /\ m.service \in Range(services)}
<1> DEFINE config == build_service_config_json(services)
<1>1. ASSUME NEW m \in Methods
      PROVE  \/ Cardinality(Mentions(services, m.service)) = 0 /\ m.service \notin Range(services)
             \/ Cardinality(Mentions(services, m.service)) = 1 /\ m.service \in Range(services)
  <2>1. \/ Mentions(services, m.service) = {} /\ m.service \notin Range(services)
        \/ (\E i : Mentions(services, m.service) = {i}) /\ m.service \in Range(services)
    BY MentionedOnce, Zenon
  <2>2. Cardinality({}) = 0 /\ \A i : Cardinality({i}) = 1
    BY FS_EmptySet, FS_Singleton
  <2>3. QED
    BY <2>1, <2>2
<1>2. /\ DOMAIN config = Methods
      /\ config = [m \in Methods |-> config[m]]
      /\ \A m \in Methods : config[m] = IF is_idempotent_method(m) THEN Cardinality(Mentions(services, m.service)) ELSE 0
  BY DEF build_service_config_json, Mentions
<1> HIDE DEF config
<1>3. \A m \in Methods : /\ config[m] \in 0..1
                         /\ config[m] = 1 <=> is_idempotent_method(m) /\ m.service \in Range(services)
  BY <1>1, <1>2
<1>4. config \in Configs
  BY <1>2, <1>3 DEF Configs
<1>5. Accepted(config)
  BY <1>3 DEF Accepted
<1>6. Retried(config) = {m \in Methods : is_idempotent_method(m) /\ m.service \in Range(services)}
  BY <1>3 DEF Retried
<1>7. QED
  BY <1>4, <1>5, <1>6 DEF config
=============================================================================

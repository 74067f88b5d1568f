----------------------------- MODULE RetryPolicy -----------------------------
(***************************************************************************)
(* ondewo.utils.grpc_retry_policy: which methods of which services get a   *)
(* retry policy in the service config of a channel.  Names are abstracted  *)
(* to what the pattern tells apart: the leading verb, and whether a word   *)
(* ends after it.                                                          *)
(***************************************************************************)
EXTENDS Integers, Sequences, FiniteSets

CONSTANT Methods     \* the method descriptors of every service there is

Verbs  == {"BatchGet", "Get", "List", "Check", "Validate", "Ping", "other"}
Levels == {"IDEMPOTENCY_UNKNOWN", "NO_SIDE_EFFECTS", "IDEMPOTENT"}

\* `acts` is what no descriptor says: executing the method twice has an effect
\* that executing it once has not.  `listed`: in NON_IDEMPOTENT_DESPITE_NAME.
MethodType(M) ==
    \A m \in M : /\ m.verb \in Verbs
                 /\ m.wordEnds \in BOOLEAN
                 /\ m.level \in Levels
                 /\ m.listed \in BOOLEAN
                 /\ m.acts \in BOOLEAN

READ_ONLY_METHOD_NAME_PATTERN(m) == m.verb # "other" /\ m.wordEnds

\* What the authors audited: a proto declares only what is harmless to repeat,
\* and the methods that act although they are named like a read are listed.
Audited(M) ==
    \A m \in M : m.acts => /\ m.level = "IDEMPOTENCY_UNKNOWN"
                           /\ READ_ONLY_METHOD_NAME_PATTERN(m) => m.listed

ASSUME MethodsAssumption == IsFiniteSet(Methods) /\ MethodType(Methods) /\ Audited(Methods)

Services == {m.service : m \in Methods}

\* A mutant: the denylist is not consulted.
is_idempotent_method_ByName(m) ==
    m.level \in {"NO_SIDE_EFFECTS", "IDEMPOTENT"} \/ READ_ONLY_METHOD_NAME_PATTERN(m)

is_idempotent_method(m) ==
    \/ m.level \in {"NO_SIDE_EFFECTS", "IDEMPOTENT"}
    \/ ~m.listed /\ READ_ONLY_METHOD_NAME_PATTERN(m)

-----------------------------------------------------------------------------
(***************************************************************************)
(* A service config: how often each method path is named in the entry that *)
(* carries IDEMPOTENT_RETRY_POLICY.  The entry {} that matches every other *)
(* method carries none.                                                    *)
(***************************************************************************)
Configs == [Methods -> Nat]

\* A mutant: a service is written as often as it is listed.
FirstMentions_All(services) == DOMAIN services

\* The positions `unique_services.setdefault` keeps.
FirstMentions(services) ==
    {i \in DOMAIN services : \A j \in 1..(i - 1) : services[j] # services[i]}

build_service_config_json(services) ==
    [m \in Methods |->
        IF is_idempotent_method(m)
        THEN Cardinality({i \in FirstMentions(services) : services[i] = m.service})
        ELSE 0]

\* grpc-core rejects a config that names a path twice; every RPC then fails.
Accepted(config) == \A m \in Methods : config[m] <= 1

\* grpc-core's lookup of the policy of a method.
Retried(config) == {m \in Methods : config[m] > 0}
=============================================================================

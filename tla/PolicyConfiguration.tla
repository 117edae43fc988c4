------------------------- MODULE PolicyConfiguration -------------------------
(***************************************************************************)
(* The restricted-category map: the copy in the store and the copy the     *)
(* running engine reads (api/policy.py update_config, app.py lifespan).    *)
(* update_config awaits the save and only then rebinds the engine.  Saves  *)
(* run on the store's one worker thread and their completions are queued   *)
(* to the event loop in the same order, so the rebinds are a FIFO.         *)
(***************************************************************************)
EXTENDS ZoneGateStore

CONSTANTS
    Configs,        \* category maps a console may put
    DefaultConfig,  \* DEFAULT_RESTRICTED_CATEGORIES
    MaxRebinding    \* bound: update_config calls past their save at once

Configurations == [Categories -> Authorities \cup {None}]

ASSUME ConfigAssumption ==
    /\ Configs \subseteq Configurations
    /\ DefaultConfig \in Configurations
    /\ None \notin Configurations

VARIABLES
    storedConfig,  \* KEY_POLICY_CONFIG, None until one is saved
    engineConfig,  \* policy_engine.config
    rebinding      \* configs saved and not yet assigned to the engine

configVars == <<storedConfig, engineConfig, rebinding>>

ConfigTypeOK ==
    /\ storedConfig \in Configurations \cup {None}
    /\ engineConfig \in Configurations
    /\ rebinding \in Seq(Configurations)

\* What a starting process gives its engine: config or PolicyConfig().
LoadedConfig == IF storedConfig = None THEN DefaultConfig ELSE storedConfig

ConfigInit ==
    /\ storedConfig = None
    /\ engineConfig = DefaultConfig
    /\ rebinding = << >>

\* PolicyConfig.authority_for on the running engine.
AuthorityFor(category) == engineConfig[category]

-----------------------------------------------------------------------------
\* await store.save_policy_config(data): one put, no transaction needed.
SaveConfig(config) ==
    /\ Len(rebinding) < MaxRebinding
    /\ storedConfig' = config
    /\ rebinding' = Append(rebinding, config)
    /\ UNCHANGED engineConfig

\* Fault: the latest save is assigned first.
RebindLatestFirst ==
    /\ rebinding # << >>
    /\ engineConfig' = rebinding[Len(rebinding)]
    /\ rebinding' = SubSeq(rebinding, 1, Len(rebinding) - 1)
    /\ UNCHANGED storedConfig

\* auth_service.policy_engine.config = data
RebindEngine ==
    /\ rebinding # << >>
    /\ engineConfig' = Head(rebinding)
    /\ rebinding' = Tail(rebinding)
    /\ UNCHANGED storedConfig

ConfigStep == RebindEngine \/ \E config \in Configs : SaveConfig(config)

\* A new process builds its engine from the stored map.
ReloadConfig ==
    /\ engineConfig' = LoadedConfig
    /\ rebinding' = << >>
    /\ UNCHANGED storedConfig
=============================================================================

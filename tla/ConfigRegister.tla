--------------------------- MODULE ConfigRegister ---------------------------
(***************************************************************************)
(* What the configuration store promises: the configuration is one value,  *)
(* which an accepted update replaces in one step by what it asks for,      *)
(* given the value it replaces.                                            *)
(***************************************************************************)
EXTENDS ConfigRules

CONSTANT Updates   \* the bodies clients may PUT

VARIABLE config

Init == config = defaultConfig

Put(u) ==
  /\ validateConfig(candidate(config, u))
  /\ config' = candidate(config, u)

Next == \E u \in Updates : Put(u)

Spec == Init /\ [][Next]_config
=============================================================================

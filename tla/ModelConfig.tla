---------------------------- MODULE ModelConfig ----------------------------
(***************************************************************************)
(* The model configuration as a value (internal/model/runtime.go): what    *)
(* normalising, the environment and the settings form make of it, when it  *)
(* is usable, and the request it gives rise to.  Deepseek, siliconflow and *)
(* openai differ only in their default address and model, so Hosted stands *)
(* for them.  Temperatures are in tenths.                                  *)
(***************************************************************************)
EXTENDS Integers

CONSTANTS
  Hosted,        \* providers with a default address and model
  DefaultBase,   \* the default address of each hosted provider
  DefaultModel,  \* the default model of each hosted provider
  NoValue        \* a field of the form that was left blank

Profile == {"conversation", "routing", "skills"}
Compatible == "openai-compatible"
Providers == Hosted \cup {Compatible}

TokenDefault == [conversation |-> 1600, routing |-> 220, skills |-> 1200]
TokenLimit == 8192
TempDefault == [conversation |-> 2, routing |-> 0, skills |-> 2]
TempLimit == 20

ASSUME ConfigAssumption == Hosted \cap {"", "none", Compatible} = {}

firstNonEmpty(a, b) == IF a # "" THEN a ELSE b

None == [provider |-> "none", key |-> "", base |-> "",
         model |-> [p \in Profile |-> ""], tokens |-> [p \in Profile |-> 0],
         temp |-> [p \in Profile |-> 0]]

-----------------------------------------------------------------------------
(***************************************************************************)
(* Normal form and validity                                                *)
(***************************************************************************)

normalizeMaxTokens(v, fallback) ==
  IF v <= 0 THEN fallback ELSE IF v > TokenLimit THEN TokenLimit ELSE v

normalizeTemperature(v, fallback) ==
  IF v <= 0 THEN fallback ELSE IF v > TempLimit THEN TempLimit ELSE v

\* Without a provider only the key is left; an unknown provider is taken for
\* a compatible one, which has no defaults.
normalizeConfig(c) ==
  IF c.provider \in {"", "none"} THEN [None EXCEPT !.key = c.key]
  ELSE LET hosted == c.provider \in Hosted
           conv == firstNonEmpty(c.model["conversation"],
                                 IF hosted THEN DefaultModel[c.provider] ELSE "")
       IN  [provider |-> IF hosted THEN c.provider ELSE Compatible,
            key |-> c.key,
            base |-> firstNonEmpty(c.base, IF hosted THEN DefaultBase[c.provider] ELSE ""),
            model |-> [p \in Profile |-> firstNonEmpty(c.model[p], conv)],
            tokens |-> [p \in Profile |-> normalizeMaxTokens(c.tokens[p], TokenDefault[p])],
            temp |-> [p \in Profile |->
                        IF p = "routing" THEN 0
                        ELSE normalizeTemperature(c.temp[p], TempDefault[p])]]

validateConfig(c) ==
  LET n == normalizeConfig(c)
  IN  n.provider # "none" /\ n.key # "" /\ n.base # "" /\ \A p \in Profile : n.model[p] # ""

-----------------------------------------------------------------------------
(***************************************************************************)
(* The environment: MNEMOSYNE_MODEL_PROVIDER, MNEMOSYNE_MODEL_NAME, and a  *)
(* key and an address for each provider                                    *)
(***************************************************************************)

\* An environment that says nothing about models.
Silent(e) == /\ e.provider \notin Providers /\ e.name = ""
             /\ \A p \in Providers : e.key[p] = "" /\ e.base[p] = ""

configFromEnv(e) ==
  LET p == e.provider
      name == firstNonEmpty(e.name, IF p \in Hosted THEN DefaultModel[p] ELSE "")
  IN  IF p \notin Providers THEN None
      ELSE normalizeConfig(
             [provider |-> p, key |-> e.key[p],
              base |-> firstNonEmpty(e.base[p], IF p \in Hosted THEN DefaultBase[p] ELSE ""),
              model |-> [q \in Profile |-> name], tokens |-> TokenDefault,
              temp |-> TempDefault])

\* The limits of the overlay win whenever it has any: a provider named in the
\* environment also takes back the limits that were saved.
mergeProfileConfig(c, over) ==
  [c EXCEPT !.model = [p \in Profile |-> firstNonEmpty(over.model[p], c.model[p])],
            !.tokens = [p \in Profile |->
                          IF over.tokens[p] > 0 THEN over.tokens[p] ELSE c.tokens[p]],
            !.temp = [p \in Profile |-> IF over.temp[p] > 0 THEN over.temp[p] ELSE c.temp[p]]]

\* A provider named in the environment,
overlayProvider(c, over) ==
  IF over.provider = "none" THEN c
  ELSE [mergeProfileConfig(c, over) EXCEPT !.provider = over.provider,
                                           !.base = firstNonEmpty(over.base, c.base),
                                           !.key = firstNonEmpty(over.key, c.key)]

\* an address and a key for the provider in force,
overlayAddress(c, e) ==
  IF c.provider \notin Providers THEN c
  ELSE [c EXCEPT !.base = firstNonEmpty(e.base[c.provider], @),
                 !.key = firstNonEmpty(e.key[c.provider], @)]

\* and a model name for all profiles.
overlayName(c, e) == IF e.name = "" THEN c ELSE [c EXCEPT !.model = [p \in Profile |-> e.name]]

applyModelEnvOverlay(c, e) ==
  normalizeConfig(
    overlayName(overlayAddress(overlayProvider(normalizeConfig(c), configFromEnv(e)), e), e))

-----------------------------------------------------------------------------
(***************************************************************************)
(* The settings form                                                       *)
(***************************************************************************)

defaultModelConfig(c) ==
  [c EXCEPT !.tokens = [p \in Profile |-> IF @[p] <= 0 THEN TokenDefault[p] ELSE @[p]],
            !.temp = [p \in Profile |-> IF @[p] = 0 THEN TempDefault[p] ELSE @[p]]]

\* parseModelIntField and parseModelFloatField: what was typed, or the value
\* in force.
Typed(field, p, old) == IF field[p] = NoValue THEN old[p] ELSE field[p]

\* The key is not shown in the form: blank keeps the one in force.
modelConfigFromForm(form, current) ==
  IF form.provider \in {"", "none"} THEN None
  ELSE LET d == defaultModelConfig(current)
       IN  [provider |-> form.provider,
            base |-> form.base,
            key |-> firstNonEmpty(form.key, current.key),
            model |-> form.model,
            tokens |-> [p \in Profile |-> Typed(form.tokens, p, d.tokens)],
            temp |-> [p \in Profile |->
                        IF p = "routing" THEN d.temp[p] ELSE Typed(form.temp, p, d.temp)]]

-----------------------------------------------------------------------------
(***************************************************************************)
(* The request                                                             *)
(***************************************************************************)

\* Names other than routing and skills mean the conversation profile.
profileOf(name) == IF name \in {"routing", "skills"} THEN name ELSE "conversation"

applyTemperature(requested, configured) ==
  IF requested = 0 THEN 0 ELSE IF configured > 0 THEN configured ELSE requested

\* Mutant: only a request without a limit gets the profile's.
resolveRequestUnbounded(cfg, req) ==
  LET c == normalizeConfig(cfg)
      p == profileOf(req.profile)
  IN  [model |-> c.model[p], base |-> c.base, key |-> c.key, limit |-> c.tokens[p],
       tokens |-> IF req.tokens <= 0 THEN c.tokens[p] ELSE req.tokens,
       temp |-> applyTemperature(req.temp, c.temp[p])]

\* What goes to the provider for a valid configuration (resolveRequest and
\* the payload of generateWithProfile and streamWithProfile).  limit is the
\* profile's max_tokens.
resolveRequest(cfg, req) ==
  LET c == normalizeConfig(cfg)
      p == profileOf(req.profile)
      limited == c.tokens[p] > 0 /\ (req.tokens <= 0 \/ req.tokens > c.tokens[p])
  IN  [model |-> c.model[p], base |-> c.base, key |-> c.key, limit |-> c.tokens[p],
       tokens |-> IF limited THEN c.tokens[p] ELSE req.tokens,
       temp |-> applyTemperature(req.temp, c.temp[p])]
=============================================================================

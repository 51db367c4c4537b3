--------------------------- MODULE SettingsRules ---------------------------
(***************************************************************************)
(* The keys of the settings page and what each may hold: what the page     *)
(* saves (validateAndBuildEnvUpdates of internal/server/system_handlers.go)*)
(* and what a process boots with (Load of internal/config/config.go and    *)
(* what it calls).  The two are written apart in the code, and so here.    *)
(*                                                                         *)
(* Values are integers: rates in percent, ratios and multiples in tenths,  *)
(* words and credentials by number, booleans as 0 and 1.                   *)
(***************************************************************************)
EXTENDS Integers

Blank  == -1         \* present, empty
Absent == -2

Empty == {Blank, Absent}

\* A proxy address with a host, and one that is a scheme alone.
WithHost == 1
Hostless == 2

ExitKeys == {"EARLY_EXIT_ENABLED", "EARLY_EXIT_MIN_HOLD_MIN", "EARLY_EXIT_MAX_PER_DAY",
             "EARLY_EXIT_COOLDOWN_MIN", "EARLY_EXIT_CONF_FLOOR"}

OverrideKeys == {"DEFAULT_LEVERAGE", "MIN_RISK_TO_REWARD_RATIO", "MAX_RISK_PER_TRADE_PCT",
                 "SL_ATR_MULT", "TP_ATR_MULT", "CLUSTER_DECAY_MODE", "CONFLUENCE_MIN"}

TimeframeKeys == {"TIMEFRAME_SET_ALPHA", "TIMEFRAME_SET_CORE"}

TelegramKeys == {"TELEGRAM_BOT_TOKEN", "TELEGRAM_CHAT_ID"}

ModelKeys == {"AI_BASE_URL", "AI_MODEL_ID", "AI_TEMPERATURE", "AI_REASONING_EFFORT",
              "AI_TIMEOUT_SECONDS"}

\* Left empty, a key of these is the decision core's to manage.
ManagedKeys == ExitKeys \cup OverrideKeys \cup TimeframeKeys

RequiredKeys ==
    ModelKeys \cup TelegramKeys
    \cup {"ROUTING_CONFIDENCE_THRESHOLD", "MAX_CONCURRENT_SIGNALS", "TYPESAFE_API_KEY",
          "MAX_DRAWDOWN_LIMIT_PCT", "CALENDAR_HALT_MINUTES", "SCREENER_MIN_24H_VOLUME"}

\* allowedConfigKeys
Keys == ManagedKeys \cup RequiredKeys \cup {"UPSTREAM_PROXY_URL"}

---------------------------------------------------------------------------
(* The page *)

\* The core, the model and the risk limits.
PageCore(k) ==
    CASE k \in {"ROUTING_CONFIDENCE_THRESHOLD", "MAX_DRAWDOWN_LIMIT_PCT"} -> 1..100
      [] k = "AI_TEMPERATURE" -> 0..200
      [] k = "AI_REASONING_EFFORT" -> 1..3
      [] k = "AI_TIMEOUT_SECONDS" -> 1..300
      [] k = "MAX_CONCURRENT_SIGNALS" -> 1..100
      [] k = "CALENDAR_HALT_MINUTES" -> 0..1440
      [] k = "AI_MODEL_ID" -> Nat

\* Credentials, addresses and the screener.  A chat id is a number with its sign.
PageServices(k) ==
    CASE k \in TelegramKeys -> Nat \cup {Blank}
      [] k \in {"TYPESAFE_API_KEY", "AI_BASE_URL"} -> Nat
      [] k = "UPSTREAM_PROXY_URL" -> {Blank, WithHost, Hostless}
      [] k = "SCREENER_MIN_24H_VOLUME" -> Nat

\* The keys the core manages when they are empty.
PageManaged(k) ==
    {Blank} \cup
    CASE k = "DEFAULT_LEVERAGE" -> 1..125
      [] k = "MIN_RISK_TO_REWARD_RATIO" -> 5..200
      [] k = "MAX_RISK_PER_TRADE_PCT" -> 1..100
      [] k \in {"SL_ATR_MULT", "TP_ATR_MULT"} -> 1..200
      [] k = "CLUSTER_DECAY_MODE" -> 1..2
      [] k \in {"CONFLUENCE_MIN", "EARLY_EXIT_CONF_FLOOR"} -> 0..100
      [] k = "EARLY_EXIT_ENABLED" -> 0..1
      [] k \in {"EARLY_EXIT_MIN_HOLD_MIN", "EARLY_EXIT_COOLDOWN_MIN"} -> Nat
      [] k = "EARLY_EXIT_MAX_PER_DAY" -> Nat \ {0}
      [] k \in TimeframeKeys -> Nat

\* A value that does not parse as its kind is in no range; an empty one, or one
\* that a masked key hides, is Blank.
PageRange(k) ==
    CASE k \in ManagedKeys -> PageManaged(k)
      [] k \in TelegramKeys \cup {"TYPESAFE_API_KEY", "UPSTREAM_PROXY_URL",
                                  "SCREENER_MIN_24H_VOLUME", "AI_BASE_URL"} -> PageServices(k)
      [] OTHER -> PageCore(k)

---------------------------------------------------------------------------
(* The boot *)

\* validateRequiredEnv: the key is there, and parses if it is typed.
BootPresent(k) ==
    CASE k \in TelegramKeys \cup {"TYPESAFE_API_KEY", "AI_BASE_URL", "AI_MODEL_ID",
                                  "AI_REASONING_EFFORT"} -> Int \ {Absent}
      [] OTHER -> Int \ Empty

\* validateRequiredSemantics and RoutingThreshold: the values that must be usable.
BootUsable(k) ==
    CASE k \in {"SCREENER_MIN_24H_VOLUME", "MAX_CONCURRENT_SIGNALS", "AI_TIMEOUT_SECONDS",
                "CALENDAR_HALT_MINUTES"} -> Nat \ {0}
      [] k = "ROUTING_CONFIDENCE_THRESHOLD" -> 1..100
      [] OTHER -> Int

\* Load: the overrides are checked when they are there.
BootOverride(k) ==
    CASE k = "DEFAULT_LEVERAGE" -> 1..125
      [] k = "MIN_RISK_TO_REWARD_RATIO" -> 5..200
      [] k = "MAX_RISK_PER_TRADE_PCT" -> 1..100
      [] k \in {"SL_ATR_MULT", "TP_ATR_MULT"} -> 1..200
      [] k = "CLUSTER_DECAY_MODE" -> 1..2
      [] k = "CONFLUENCE_MIN" -> 0..100

\* LoadEarlyExitConfig.
BootExit(k) ==
    CASE k = "EARLY_EXIT_ENABLED" -> 0..1
      [] k \in {"EARLY_EXIT_MIN_HOLD_MIN", "EARLY_EXIT_COOLDOWN_MIN"} -> Nat
      [] k = "EARLY_EXIT_MAX_PER_DAY" -> Nat \ {0}
      [] k = "EARLY_EXIT_CONF_FLOOR" -> 0..100

BootRange(k) ==
    CASE k \in RequiredKeys -> BootPresent(k) \cap BootUsable(k)
      [] k \in OverrideKeys -> Empty \cup BootOverride(k)
      [] k \in ExitKeys -> Empty \cup BootExit(k)
      [] k \in TimeframeKeys -> Empty \cup Nat
      [] k = "UPSTREAM_PROXY_URL" -> Empty \cup {WithHost}

BootAccepts(f) == \A k \in Keys : f[k] \in BootRange(k)

\* The value a managed key works with while it is empty: three have a default
\* of their own, the others are marked as managed.
CoreValue(k) ==
    CASE k = "DEFAULT_LEVERAGE" -> 8
      [] k = "MIN_RISK_TO_REWARD_RATIO" -> 25
      [] k = "MAX_RISK_PER_TRADE_PCT" -> 2
      [] OTHER -> Blank

\* Load makes a configuration of a file.
Load(f) == [k \in Keys |-> IF k \notin RequiredKeys /\ f[k] \in Empty
                           THEN CoreValue(k) ELSE f[k]]

\* UpsertEnv keeps every line it has read and replaces or appends its own.
Upsert(f, edit) == [k \in Keys |-> IF k \in DOMAIN edit THEN edit[k] ELSE f[k]]
=============================================================================

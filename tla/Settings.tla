------------------------------ MODULE Settings ------------------------------
(***************************************************************************)
(* Settings: the .env file (internal/config/envfile.go), the configuration *)
(* a process loads from it (internal/config/config.go) and the two         *)
(* handlers that change both, PUT /system/config                           *)
(* (internal/server/system_handlers.go) and POST /telegram/config          *)
(* (internal/server/telegram_handlers.go).  Each handler reads the file,   *)
(* replaces it and changes the live configuration in separate steps, under *)
(* no common lock; the file is replaced in two steps when it is mounted    *)
(* into a container.                                                       *)
(***************************************************************************)
EXTENDS SettingsRules, FiniteSets, Functions

CONSTANTS
    Saves,           \* requests to the two handlers, each used once
    Payloads,        \* what a request may carry: a function from keys to values
    FirstFile,       \* the file the first process boots from
    Mounted,         \* rename fails (EBUSY): the file is written in place
    MaxFileFaults,   \* bound: writes that fail
    MaxReboots       \* bound: crashes and restarts

ASSUME SettingsAssumption ==
    /\ FirstFile \in [Keys -> Int]
    /\ \A p \in Payloads : DOMAIN p \subseteq Keys /\ \A k \in DOMAIN p : p[k] \in Int
    /\ Mounted \in BOOLEAN
    /\ MaxFileFaults \in Nat
    /\ MaxReboots \in Nat

VARIABLES
    file,            \* .env: the value of each key
    up,              \* whether a process runs
    cfg,             \* the live configuration: s.cfg and the environment
    bot,             \* the live bot's credentials and switch
    copied,          \* what other parts of the process copied at boot
    save,            \* the handler of each request
    quiet,           \* history: no save overlapped, failed or was cut off
    settingsBudget   \* faults and reboots used up

settingsVars == <<file, up, cfg, bot, copied, save, quiet, settingsBudget>>

NoSave == [kind |-> "none", edit |-> <<>>, enabled |-> TRUE, read |-> <<>>, pc |-> "idle"]

Finished == {"idle", "done", "refused", "failed", "cut"}

Active == {r \in Saves : save[r].pc \notin Finished}

\* The circuit breaker, the calendar, the screener and the decision core's
\* transport take their settings once, when the process builds them.
CopiedKeys == {"MAX_DRAWDOWN_LIMIT_PCT", "CALENDAR_HALT_MINUTES",
               "SCREENER_MIN_24H_VOLUME", "UPSTREAM_PROXY_URL"}

\* The bot of a new process, and of one whose settings page was saved.
BotFrom(c) ==
    [token |-> c["TELEGRAM_BOT_TOKEN"], chat |-> c["TELEGRAM_CHAT_ID"],
     enabled |-> c["TELEGRAM_BOT_TOKEN"] # Blank /\ c["TELEGRAM_CHAT_ID"] # Blank]

Emptied == [k \in Keys |-> Absent]

---------------------------------------------------------------------------
(* A save *)

Pc(r, pc) == save' = [save EXCEPT ![r].pc = pc]

\* A request that arrives while another is at work ends the quiet.
Arrive == quiet' = (quiet /\ Active = {})

\* validateAndBuildEnvUpdates: a masked or empty TypeSafe key is left out, a
\* new one is tried on the service first; one bad value refuses the request.
PutConfig(r, edit, probed) ==
    LET saved == {k \in DOMAIN edit : k # "TYPESAFE_API_KEY" \/ edit[k] # Blank}
        valid == /\ \A k \in saved : edit[k] \in PageRange(k)
                 /\ "TYPESAFE_API_KEY" \in saved => probed
    IN  /\ up /\ save[r].pc = "idle"
        /\ save' = [save EXCEPT ![r] = [kind |-> "put", edit |-> Restrict(edit, saved),
                                        enabled |-> TRUE, read |-> <<>>,
                                        pc |-> CASE ~valid -> "refused"
                                                 [] valid /\ saved = {} -> "apply"
                                                 [] OTHER -> "read"]]
        /\ Arrive
        /\ UNCHANGED <<file, up, cfg, bot, copied, settingsBudget>>

\* POST /telegram/config: an empty credential means the current one, and the
\* live bot is changed before anything is saved.
PostTelegram(r, edit, enabled) ==
    LET full == [k \in TelegramKeys |->
                    IF k \in DOMAIN edit /\ edit[k] # Blank THEN edit[k]
                    ELSE IF k = "TELEGRAM_BOT_TOKEN" THEN bot.token ELSE bot.chat]
    IN  /\ up /\ save[r].pc = "idle"
        /\ bot' = [BotFrom(full) EXCEPT !.enabled = enabled]
        /\ save' = [save EXCEPT ![r] = [kind |-> "telegram", edit |-> full,
                                        enabled |-> enabled, read |-> <<>>, pc |-> "read"]]
        /\ Arrive
        /\ UNCHANGED <<file, up, cfg, copied, settingsBudget>>

ReadFile(r) ==
    /\ save[r].pc = "read"
    /\ save' = [save EXCEPT ![r].read = file, ![r].pc = "write"]
    /\ UNCHANGED <<file, up, cfg, bot, copied, quiet, settingsBudget>>

\* The temporary file takes the place of .env, or .env is cut to nothing and
\* written again.
ReplaceFile(r) ==
    /\ save[r].pc = "write"
    /\ IF Mounted
       THEN file' = Emptied /\ Pc(r, "rewrite")
       ELSE file' = Upsert(save[r].read, save[r].edit) /\ Pc(r, "apply")
    /\ UNCHANGED <<up, cfg, bot, copied, quiet, settingsBudget>>

RewriteFile(r) ==
    /\ save[r].pc = "rewrite"
    /\ file' = Upsert(save[r].read, save[r].edit)
    /\ Pc(r, "apply")
    /\ UNCHANGED <<up, cfg, bot, copied, quiet, settingsBudget>>

\* The file could not be written, or not again after it was cut; a bot changed
\* before the save stays changed.
WriteFails(r) ==
    /\ save[r].pc \in {"write", "rewrite"}
    /\ settingsBudget.faults < MaxFileFaults
    /\ settingsBudget' = [settingsBudget EXCEPT !.faults = @ + 1]
    /\ Pc(r, "failed")
    /\ quiet' = FALSE
    /\ UNCHANGED <<file, up, cfg, bot, copied>>

\* Mutant of ApplyLive: a key left to the core keeps its last value.
ApplyLiveKeepsOverride(r) ==
    LET live == [k \in Keys |-> IF k \in DOMAIN save[r].edit /\ save[r].edit[k] # Blank
                                THEN save[r].edit[k] ELSE cfg[k]]
    IN  /\ save[r].pc = "apply"
        /\ cfg' = live
        /\ bot' = IF save[r].kind = "put" /\ DOMAIN save[r].edit \cap TelegramKeys # {}
                  THEN BotFrom(live) ELSE bot
        /\ Pc(r, "done")
        /\ UNCHANGED <<file, up, copied, quiet, settingsBudget>>

\* applyLiveConfigUpdates: the configuration takes the keys of the request.
\* The settings page restarts the bot from it when a credential is named, on
\* or off by the credentials alone; what was copied at boot stays.
ApplyLive(r) ==
    LET live == Load(Upsert(cfg, save[r].edit))
    IN  /\ save[r].pc = "apply"
        /\ cfg' = live
        /\ bot' = IF save[r].kind = "put" /\ DOMAIN save[r].edit \cap TelegramKeys # {}
                  THEN BotFrom(live) ELSE bot
        /\ Pc(r, "done")
        /\ UNCHANGED <<file, up, copied, quiet, settingsBudget>>

\* The process ends and a new one loads the file, or refuses to boot.
Reboot ==
    /\ up
    /\ settingsBudget.reboots < MaxReboots
    /\ settingsBudget' = [settingsBudget EXCEPT !.reboots = @ + 1]
    /\ up' = BootAccepts(file)
    /\ IF up' THEN cfg' = Load(file) /\ bot' = BotFrom(cfg')
                      /\ copied' = Restrict(cfg', CopiedKeys)
              ELSE UNCHANGED <<cfg, bot, copied>>
    /\ save' = [r \in Saves |-> IF r \in Active THEN [save[r] EXCEPT !.pc = "cut"] ELSE save[r]]
    /\ quiet' = (Active = {})
    /\ UNCHANGED file

SettingsInit ==
    /\ file = FirstFile
    /\ up = TRUE
    /\ cfg = Load(FirstFile)
    /\ bot = BotFrom(cfg)
    /\ copied = Restrict(cfg, CopiedKeys)
    /\ save = [r \in Saves |-> NoSave]
    /\ quiet = TRUE
    /\ settingsBudget = [faults |-> 0, reboots |-> 0]

SettingsNext ==
    \/ \E r \in Saves :
          \/ ReadFile(r) \/ ReplaceFile(r) \/ RewriteFile(r) \/ WriteFails(r) \/ ApplyLive(r)
          \/ \E edit \in Payloads, probed \in BOOLEAN : PutConfig(r, edit, probed)
          \/ \E edit \in Payloads, enabled \in BOOLEAN : PostTelegram(r, edit, enabled)
    \/ Reboot

SettingsSpec == SettingsInit /\ [][SettingsNext]_settingsVars

---------------------------------------------------------------------------
(* Properties *)

SettingsTypeOK ==
    /\ file \in [Keys -> Int]
    /\ cfg \in [Keys -> Int]
    /\ cfg["DEFAULT_LEVERAGE"] # Blank
    /\ bot \in [token : Int, chat : Int, enabled : BOOLEAN]
    /\ settingsBudget.faults \in 0..MaxFileFaults
    /\ settingsBudget.reboots \in 0..MaxReboots

\* What runs is what a restart would bring: as long as saves do not overlap,
\* fail or get cut off, the live configuration is what Load makes of the file,
\* key by key, also for keys handed back to the core; and the live bot has
\* the file's credentials.  (Its switch is not in the file.)
ReloadAgrees ==
    up /\ quiet /\ Active = {} =>
        /\ cfg = Load(file)
        /\ bot.token = file["TELEGRAM_BOT_TOKEN"]
        /\ bot.chat = file["TELEGRAM_CHAT_ID"]

\* A process boots from whatever the settings page has saved.  (Not from a
\* halt window of zero, which the page accepts; nor after a cut-off write.)
SavedSettingsBoot == up

\* Settings are persisted atomically: a write changes the keys of its own
\* request and no other.  (A save in between is undone.)
SavesDoNotInterfere ==
    [][\A r \in Saves :
          save[r].pc \in {"write", "rewrite"} /\ save'[r].pc = "apply" =>
              \A k \in Keys \ DOMAIN save[r].edit : file'[k] = file[k]]_settingsVars

\* Settings are applied live.  (Not in what copied them at boot.)
AppliedLive == up /\ Active = {} => copied = Restrict(cfg, CopiedKeys)

\* A bot that was switched off stays off until it is switched on again.  (Any
\* restart, and any save that names a credential, switches it on.)
DisabledStaysDisabled ==
    [][~bot.enabled /\ bot'.enabled =>
          \E r \in Saves : save[r].pc = "idle" /\ save'[r].kind = "telegram"
                           /\ save'[r].enabled]_settingsVars
=============================================================================

---------------------------- MODULE SettingRules ----------------------------
(***************************************************************************)
(* The rules a setting's value meets on its way: the schema of the             *)
(* configuration files its default comes from, the settings registry, the      *)
(* dashboard's form, the published contract, the schema the server checks a    *)
(* save with, and AppConfig, which a saved value is written to.                *)
(*                                                                          *)
(* Values stand for the kinds the rules tell apart.  Numbers are in tenths.    *)
(***************************************************************************)
EXTENDS Integers, Sequences, Functions, Subsequences

CONSTANTS
  Amounts,      \* numbers that values are
  Lengths,      \* lengths of texts
  Restarted,    \* modules whose plugins start again, by their places in BuiltIn
  MaxCalls      \* bound on the starts and stops looked at

\* Beyond every number and length.
NoLimit == 1000000

\* There is a number, and a length, that every rule takes: one, and eight.
ASSUME SettingAssumption ==
  /\ Amounts \subseteq -NoLimit .. NoLimit /\ 10 \in Amounts
  /\ Lengths \subseteq 0 .. NoLimit /\ 8 \in Lengths
  /\ Restarted \subseteq 1 .. 7 /\ MaxCalls \in Nat

Value(kind) == [kind |-> kind, n |-> 0, length |-> 0, trimmed |-> 0, is |-> "other"]

Flag == Value("boolean")
NumberOf(n) == [Value("number") EXCEPT !.n = n]
Text(length, trimmed, is) ==
  [Value("text") EXCEPT !.length = length, !.trimmed = trimmed, !.is = is]
Numeral(n) == [Text(2, 2, "numeral") EXCEPT !.n = n]
List == Value("list")

Languages == {"en", "id"}
PresenceTypes == {"PLAYING", "LISTENING", "WATCHING", "COMPETING"}

Numerals == {Numeral(n) : n \in Amounts}
EmptyText == Text(0, 0, "other")
Blanks == {Text(n, 0, "other") : n \in Lengths}
Texts ==
  {EmptyText} \cup Blanks \cup Numerals
    \cup {Text(n, n, is) : n \in Lengths \ {0},
                           is \in Languages \cup PresenceTypes \cup {"url", "array", "other"}}
Values == {Flag, List} \cup {NumberOf(n) : n \in Amounts} \cup Texts

Whole(x) == x.n % 10 = 0
IsBlank(x) == x.kind = "text" /\ x.trimmed = 0

-----------------------------------------------------------------------------
(* Zod schemas: low and high bound a number, or the length of a text. *)

Zod(kind) ==
  [kind |-> kind, whole |-> FALSE, low |-> -NoLimit, high |-> NoLimit, trim |-> FALSE,
   url |-> FALSE, options |-> {}]

ZBoolean == Zod("boolean")
ZString == Zod("text")
ZLength(low, high) == [ZString EXCEPT !.low = low, !.high = high]
ZUrl == [ZString EXCEPT !.url = TRUE]
ZName == [ZString EXCEPT !.trim = TRUE, !.low = 1]
ZEnum(options) == [ZString EXCEPT !.options = options]
ZStrings == Zod("list")
ZNumber(low, high) == [Zod("number") EXCEPT !.low = low, !.high = high]
ZWhole(low) == [ZNumber(low, NoLimit) EXCEPT !.whole = TRUE]
ZPositive == ZWhole(1)

Measure(schema, x) ==
  IF x.kind = "number" THEN x.n ELSE IF schema.trim THEN x.trimmed ELSE x.length

\* safeParse succeeds.
Parses(schema, x) ==
  /\ x.kind = schema.kind
  /\ schema.whole => Whole(x)
  /\ x.kind \in {"number", "text"} => Measure(schema, x) \in schema.low .. schema.high
  /\ schema.url => x.is = "url"
  /\ schema.options # {} => x.is \in schema.options

-----------------------------------------------------------------------------
(* appConfigSchema, without the parts no setting comes from. *)

presenceSchema == [type |-> ZString, text |-> ZString]
cooldownsSchema == [global |-> ZPositive, perUser |-> ZPositive]

voiceSchema ==
  [standbyChannelId |-> ZString, joinDelayMs |-> ZWhole(0), cooldownMs |-> ZPositive,
   reconnectDelayMs |-> ZPositive, maxReconnectRetries |-> ZPositive, defaultSound |-> ZString,
   volume |-> ZNumber(0, 20)]

Channel == [enabled |-> ZBoolean, channelId |-> ZString]
loggingSchema ==
  [enabled |-> ZBoolean, voice |-> Channel, moderation |-> Channel,
   member |-> [enabled |-> ZBoolean, channelId |-> ZString, roles |-> ZBoolean],
   message |-> [enabled |-> ZBoolean, channelId |-> ZString, archiveAttachments |-> ZBoolean,
                maxAttachmentSizeMb |-> ZPositive]]
welcomeSchema ==
  [enabled |-> ZBoolean, channelId |-> ZString, backgroundUrl |-> ZString,
   message |-> [title |-> ZString, body |-> ZStrings],
   image |-> [title |-> ZString, subtitle |-> ZString]]
goodbyeSchema ==
  [enabled |-> ZBoolean, channelId |-> ZString,
   image |-> [backgroundUrl |-> ZString, title |-> ZString, subtitle |-> ZString]]
shrineSchema ==
  [enabled |-> ZBoolean, guildId |-> ZString, channelId |-> ZString, nightLightBaseUrl |-> ZUrl,
   imageCdnUrl |-> ZUrl, portraitFolder |-> ZName, perkFolder |-> ZName,
   iridescentShardIcon |-> ZName,
   polling |-> [pollIntervalMs |-> ZPositive, preResetWindowMs |-> ZPositive,
                delayedUpdateWindowMs |-> ZPositive, fallbackRetryMs |-> ZPositive],
   dev |-> [forceAnnouncementOnStartup |-> ZBoolean]]
botSchema ==
  [prefix |-> ZString, defaultLanguage |-> ZString, presence |-> presenceSchema,
   cooldowns |-> cooldownsSchema, voice |-> voiceSchema, logging |-> loggingSchema,
   welcome |-> welcomeSchema, goodbye |-> goodbyeSchema, shrine |-> shrineSchema]
permissionsSchema ==
  [roles |-> [administrator |-> ZStrings, moderator |-> ZStrings, trusted |-> ZStrings]]
appConfigSchema == [bot |-> botSchema, permissions |-> permissionsSchema]

\* The schema of what is at a path of AppConfig.
SchemaAt(path) ==
  LET node[i \in 0 .. Len(path)] == IF i = 0 THEN appConfigSchema ELSE node[i - 1][path[i]]
  IN  node[Len(path)]

-----------------------------------------------------------------------------
(* The settings of the built-in modules: key, type of the control, place of the default in *)
(* AppConfig, schema, and the bounds the metadata states (0 is no step, no least length).   *)

Setting(key, type, default, validation) ==
  [key |-> key, type |-> type, default |-> default, validation |-> validation,
   min |-> -NoLimit, max |-> NoLimit, step |-> 0, minLength |-> 0, maxLength |-> NoLimit,
   options |-> {}]

InBot(key, type, validation) == Setting(key, type, <<"bot">> \o key, validation)
Bounded(setting, min, max, step) ==
  [setting EXCEPT !.min = min, !.max = max, !.step = step]
OfLength(setting, least, most) == [setting EXCEPT !.minLength = least, !.maxLength = most]

createGeneralSettings ==
  LET General(rest, type, validation) ==
        Setting(<<"general">> \o rest, type, <<"bot">> \o rest, validation)
      Choice(rest, options) ==
        [General(rest, "select", ZEnum(options)) EXCEPT !.options = options]
  IN  <<OfLength(General(<<"prefix">>, "string", ZLength(1, 20)), 1, 20),
        Choice(<<"defaultLanguage">>, Languages),
        Choice(<<"presence", "type">>, PresenceTypes),
        OfLength(General(<<"presence", "text">>, "string", ZLength(1, 128)), 1, 128),
        Bounded(General(<<"cooldowns", "global">>, "number", ZPositive), 10, NoLimit, 1000),
        Bounded(General(<<"cooldowns", "perUser">>, "number", ZPositive), 10, NoLimit, 1000)>>

createVoiceSettings ==
  <<InBot(<<"voice", "standbyChannelId">>, "channel", ZString),
    Bounded(InBot(<<"voice", "maxReconnectRetries">>, "number", ZPositive), 10, NoLimit, 10),
    OfLength(InBot(<<"voice", "defaultSound">>, "audio", ZLength(1, NoLimit)), 1, NoLimit),
    Bounded(InBot(<<"voice", "volume">>, "number", ZNumber(0, 20)), 0, 20, 1),
    Bounded(InBot(<<"voice", "joinDelayMs">>, "number", ZWhole(0)), 0, NoLimit, 1000),
    Bounded(InBot(<<"voice", "cooldownMs">>, "number", ZPositive), 10, NoLimit, 1000),
    Bounded(InBot(<<"voice", "reconnectDelayMs">>, "number", ZPositive), 10, NoLimit, 1000)>>

createModerationSettings ==
  LET Roles(who) == Setting(<<"moderation", "roles", who>>, "role",
                            <<"permissions", "roles", who>>, ZStrings)
  IN  <<Roles("administrator"), Roles("moderator"), Roles("trusted")>>

createLoggingSettings ==
  LET Enabled(rest) == InBot(<<"logging">> \o rest, "boolean", ZBoolean)
      ChannelId(kind) == InBot(<<"logging", kind, "channelId">>, "channel", ZString)
  IN  <<Enabled(<<"enabled">>),
        Enabled(<<"voice", "enabled">>), ChannelId("voice"),
        Enabled(<<"member", "enabled">>), ChannelId("member"), Enabled(<<"member", "roles">>),
        Enabled(<<"message", "enabled">>), ChannelId("message"),
        Enabled(<<"message", "archiveAttachments">>),
        Bounded(InBot(<<"logging", "message", "maxAttachmentSizeMb">>, "number", ZPositive),
                10, NoLimit, 10),
        Enabled(<<"moderation", "enabled">>), ChannelId("moderation")>>

createWelcomeSettings ==
  <<InBot(<<"welcome", "enabled">>, "boolean", ZBoolean),
    InBot(<<"welcome", "channelId">>, "channel", ZString),
    InBot(<<"welcome", "backgroundUrl">>, "image", ZString),
    InBot(<<"welcome", "message", "title">>, "template", ZString),
    InBot(<<"welcome", "message", "body">>, "json", ZStrings),
    InBot(<<"welcome", "image", "title">>, "template", ZString),
    InBot(<<"welcome", "image", "subtitle">>, "template", ZString)>>

createGoodbyeSettings ==
  <<InBot(<<"goodbye", "enabled">>, "boolean", ZBoolean),
    InBot(<<"goodbye", "channelId">>, "channel", ZString),
    InBot(<<"goodbye", "image", "backgroundUrl">>, "image", ZString),
    InBot(<<"goodbye", "image", "title">>, "template", ZString),
    InBot(<<"goodbye", "image", "subtitle">>, "template", ZString)>>

createShrineSettings ==
  LET Shrine(field, type, validation) == InBot(<<"shrine", field>>, type, validation)
      Polling(field) == InBot(<<"shrine", "polling", field>>, "number", ZPositive)
  IN  <<Shrine("enabled", "boolean", ZBoolean),
        Shrine("guildId", "text", ZString), Shrine("channelId", "channel", ZString),
        Shrine("nightLightBaseUrl", "text", ZUrl), Shrine("imageCdnUrl", "text", ZUrl),
        Shrine("portraitFolder", "text", ZName), Shrine("perkFolder", "text", ZName),
        Shrine("iridescentShardIcon", "text", ZName),
        Polling("pollIntervalMs"), Polling("preResetWindowMs"),
        Polling("delayedUpdateWindowMs"), Polling("fallbackRetryMs"),
        InBot(<<"shrine", "dev", "forceAnnouncementOnStartup">>, "boolean", ZBoolean)>>

\* registerBuiltInSettings, in its order.
BuiltIn ==
  <<createGeneralSettings, createVoiceSettings, createModerationSettings, createLoggingSettings,
    createWelcomeSettings, createGoodbyeSettings, createShrineSettings>>
Modules == <<"general", "voice", "moderation", "logging", "welcome", "goodbye", "shrine">>
Settings == UNION {Range(BuiltIn[i]) : i \in DOMAIN BuiltIn}

\* The values the configuration files may give a setting.
Configured(s) == {x \in Values : Parses(SchemaAt(s.default), x)}

-----------------------------------------------------------------------------
(* SettingsRegistry: per module its settings with their defaults, and how often they were *)
(* registered.  A call that throws leaves the registry as it is and marks it.              *)

NothingRegistered == [modules |-> <<>>, threw |-> FALSE]

KeysOf(settings) == {settings[i].key : i \in DOMAIN settings}
RegisteredKeys(reg) == UNION {KeysOf(reg.modules[i].settings) : i \in DOMAIN reg.modules}
Places(reg, module) == {i \in DOMAIN reg.modules : reg.modules[i].module = module}

\* The first schema, namespace or duplicate that fails throws.
Acceptable(reg, module, settings, defaults) ==
  /\ \A i \in DOMAIN settings : /\ settings[i].key[1] = module
                               /\ Parses(settings[i].validation, defaults[i])
  /\ \A i, j \in DOMAIN settings : settings[i].key = settings[j].key => i = j
  /\ KeysOf(settings) \cap RegisteredKeys(reg) = {}

Entry(module, settings, defaults) ==
  [module |-> module, settings |-> settings, defaults |-> defaults, count |-> 1]

\* sameSettings: the keys and defaults of the module are those it is registered with.
Same(reg, module, settings, defaults) ==
  \E i \in Places(reg, module) :
    [reg.modules[i] EXCEPT !.count = 1] = Entry(module, settings, defaults)

Counted(reg, module, difference) ==
  [i \in DOMAIN reg.modules |->
     IF reg.modules[i].module = module THEN [reg.modules[i] EXCEPT !.count = @ + difference]
                                       ELSE reg.modules[i]]

register(reg, module, settings, defaults) ==
  CASE Places(reg, module) = {} /\ Acceptable(reg, module, settings, defaults) ->
         [reg EXCEPT !.modules = Append(@, Entry(module, settings, defaults))]
    [] Places(reg, module) # {} /\ Same(reg, module, settings, defaults) ->
         [reg EXCEPT !.modules = Counted(reg, module, 1)]
    [] OTHER -> [reg EXCEPT !.threw = TRUE]

\* Only the last of several registrations takes the settings away.
unregister(reg, module) ==
  LET modules == Counted(reg, module, -1)
  IN  [reg EXCEPT !.modules = Chosen(modules, {i \in DOMAIN modules : modules[i].count > 0})]

\* In the order of BuiltIn; the first registration that throws ends it.
RegisterNext(reg, m, defaults) ==
  IF reg.threw THEN reg ELSE register(reg, Modules[m], BuiltIn[m], defaults[m])
registerBuiltInSettings(defaults) ==
  LET reg[m \in 0 .. Len(BuiltIn)] ==
        IF m = 0 THEN NothingRegistered ELSE RegisterNext(reg[m - 1], m, defaults)
  IN  reg[Len(BuiltIn)]

Default(s) == CHOOSE x \in Configured(s) : Parses(s.validation, x)
Defaults == [m \in DOMAIN BuiltIn |-> [i \in DOMAIN BuiltIn[m] |-> Default(BuiltIn[m][i])]]

\* A plugin registers its settings again when it starts and unregisters them when it stops.
\* A start that throws is none: no stop follows, though the settings may be registered.
\* plugins: the registry, and the plugins that are started.
StartAgain(plugins, m, defaults, throws) ==
  LET reg == register(plugins.reg, Modules[m], BuiltIn[m], defaults)
  IN  IF m \in plugins.started THEN plugins
      ELSE [reg     |-> [reg EXCEPT !.threw = FALSE],
            started |-> IF reg.threw \/ throws THEN plugins.started ELSE plugins.started \cup {m}]
StopAgain(plugins, m) ==
  IF m \in plugins.started THEN [reg     |-> unregister(plugins.reg, Modules[m]),
                                 started |-> plugins.started \ {m}]
  ELSE plugins

-----------------------------------------------------------------------------
(* The form of a module's page. *)

\* What a control hands to updateValue.
ModuleSettingControl(s) ==
  CASE s.type = "boolean" -> {Flag}
    [] s.type = "select"  -> {x \in Texts : x.is \in s.options}
    [] s.type = "number"  -> {EmptyText} \cup Numerals
    [] OTHER              -> Texts

requiresValue(s, default) ==
  \/ default.kind = "text" /\ ~IsBlank(default)
  \/ default.kind = "number"
  \/ s.minLength > 0

\* Mutant: the bounds are not looked at.
AnyNumber(s, default, x) == x = EmptyText => ~requiresValue(s, default)
\* Mutant: the least value is refused.
StrictNumberSetting(s, default, x) ==
  IF x = EmptyText THEN ~requiresValue(s, default)
  ELSE /\ s.step = 10 => Whole(x)
       /\ s.min < x.n /\ x.n <= s.max
validateNumberSetting(s, default, x) ==
  IF x = EmptyText THEN ~requiresValue(s, default)
  ELSE /\ s.step = 10 => Whole(x)
       /\ s.min <= x.n /\ x.n <= s.max

\* No setting has a pattern.
validateTextSetting(s, default, x) ==
  /\ IsBlank(x) => ~requiresValue(s, default)
  /\ s.minLength <= x.length /\ x.length <= s.maxLength
  /\ s.type = "select" /\ x # EmptyText => x.is \in s.options

\* validateSetting has no complaint.
validateSetting(s, default, x) ==
  CASE s.type = "boolean" -> x.kind = "boolean"
    [] s.type = "number"  -> validateNumberSetting(s, default, x)
    [] s.type = "json"    -> /\ validateTextSetting(s, default, x)
                             /\ IsBlank(x) \/ x.is \in {"numeral", "array"}
    [] OTHER              -> validateTextSetting(s, default, x)

\* normalizedDirtySettings.
Normalized(s, x) == IF s.type = "number" /\ x # EmptyText THEN NumberOf(x.n) ELSE x

-----------------------------------------------------------------------------
(* The server *)

\* The schema published with the metadata.
toValidationSchema(s) ==
  CASE s.type = "number"  -> ZNumber(s.min, s.max)
    [] s.type = "boolean" -> ZBoolean
    [] OTHER -> [ZLength(s.minLength, s.maxLength) EXCEPT !.options = s.options]

\* applyRuntimeValue writes a value that was saved to this place.
\* Mutant: roles are kept under bot as the rest is.
UnderBot(key) == IF key[1] = "general" THEN <<"bot">> \o Tail(key) ELSE <<"bot">> \o key
toRuntimePath(key) ==
  CASE key[1] = "general" -> <<"bot">> \o Tail(key)
    [] key[1] = "moderation" /\ key[2] = "roles" -> <<"permissions">> \o Tail(key)
    [] OTHER -> <<"bot">> \o key

-----------------------------------------------------------------------------
(* Properties *)

\* A release starts with whatever its configuration files were checked for: a default
\* that appConfigSchema takes and the registry refuses, so that the startup throws, is one
\* of the five texts that appConfigSchema takes with any length or name (schema.ts,
\* registerBuiltInSettings).
LooselyConfigured ==
  {<<"general", "prefix">>, <<"general", "defaultLanguage">>, <<"general", "presence", "type">>,
   <<"general", "presence", "text">>, <<"voice", "defaultSound">>}
DefaultsRegister ==
  \A m \in DOMAIN BuiltIn : \A i \in DOMAIN BuiltIn[m] : \A d \in Configured(BuiltIn[m][i]) :
    registerBuiltInSettings([Defaults EXCEPT ![m][i] = d]).threw
      => BuiltIn[m][i].key \in LooselyConfigured

\* Plugins that start, fail to start and stop, in whatever order and though a saved value
\* has changed a default meanwhile, leave the built-in registration of their settings and of
\* all others in place (register, unregister).
Calls == [do : {"start", "changed", "throws", "stop"}, m : Restarted]
Called(plugins, call) ==
  LET changed == [Defaults[call.m] EXCEPT ![1] = Text(8, 8, "url")]
  IN  CASE call.do = "start"   -> StartAgain(plugins, call.m, Defaults[call.m], FALSE)
        [] call.do = "changed" -> StartAgain(plugins, call.m, changed, FALSE)
        [] call.do = "throws"  -> StartAgain(plugins, call.m, Defaults[call.m], TRUE)
        [] call.do = "stop"    -> StopAgain(plugins, call.m)
AfterAll(calls) ==
  LET plugins[n \in 0 .. Len(calls)] ==
        IF n = 0 THEN [reg |-> registerBuiltInSettings(Defaults), started |-> {}]
        ELSE Called(plugins[n - 1], calls[n])
  IN  plugins[Len(calls)]
BuiltInStay ==
  \A n \in 0 .. MaxCalls : \A calls \in [1 .. n -> Calls] :
    {s.key : s \in Settings} \subseteq RegisteredKeys(AfterAll(calls).reg)

\* What the form lets through and the server's schema refuses breaks a rule that the metadata
\* has no word for: a list, a URL, a whole number (but where the step is one), or a bound that
\* is not stated (validateSetting, normalizedDirtySettings, patchGuildSettings).
RuleNotStated(s, x) ==
  \/ s.validation.kind = "list"
  \/ s.validation.url
  \/ s.validation.whole /\ s.step # 10 /\ ~Whole(x)
  \/ s.type = "number" /\ s.min < s.validation.low /\ x.n < s.validation.low
FormIsEnough ==
  \A s \in Settings : \A d \in Configured(s), x \in ModuleSettingControl(s) :
    /\ Parses(s.validation, d)
    /\ validateSetting(s, d, x)
    /\ ~Parses(s.validation, Normalized(s, x))
    => RuleNotStated(s, Normalized(s, x))

\* Neither the form nor the published contract refuses what the server takes, but for a blank
\* text where one is required, and for lists, which the contract publishes as texts
\* (validateSetting, toValidationSchema).
NothingValidRefused ==
  \A s \in Settings :
    /\ \A d \in Configured(s), x \in ModuleSettingControl(s) :
         /\ Parses(s.validation, d)
         /\ Parses(s.validation, Normalized(s, x))
         /\ ~validateSetting(s, d, x)
         => IsBlank(x)
    /\ \A x \in Values :
         Parses(s.validation, x) => s.validation.kind = "list" \/ Parses(toValidationSchema(s), x)

\* A saved value goes back to where its default came from, and is one the configuration
\* files could have given it (toRuntimePath, appConfigSchema).
RuntimeStaysValid ==
  \A s \in Settings :
    /\ toRuntimePath(s.key) = s.default
    /\ \A x \in Values : Parses(s.validation, x) => x \in Configured(s)
=============================================================================

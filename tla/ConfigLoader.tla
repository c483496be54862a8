---------------------------- MODULE ConfigLoader ----------------------------
(***************************************************************************)
(* The loader of the external URL configuration: config_p::unserialize,    *)
(* external_url_config::extract_host and the vcs-room split               *)
(* (src/core/configuration/external_config.cpp).  Pure operators.          *)
(*                                                                         *)
(* A JSON value is a record tagged "str", "bool" or "obj"; a string is a   *)
(* sequence of one-character strings; an object is a function from member *)
(* names to JSON values.  The result of Unserialize is a record: whether   *)
(* it succeeded, the host cache (a function from host_url_type to host),   *)
(* the vcs rooms, the feature overrides and the value overrides.           *)
(***************************************************************************)
EXTENDS Naturals, Sequences, SequencesExt, TLC

CONSTANTS
    UpdateFromBackend, \* ::features::is_update_from_backend_enabled()
    PlatformKey        \* platform_key_name(), e.g. "linux_x64"

JStr(s)  == [t |-> "str", str |-> s]
JBool(b) == [t |-> "bool", bool |-> b]
JObj(f)  == [t |-> "obj", obj |-> f]

(* common::json::get_value<T> and FindMember(...)->value.IsObject(): the  *)
(* member exists and has the requested type.                              *)
HasStr(node, name)  == name \in DOMAIN node /\ node[name].t = "str"
HasBool(node, name) == name \in DOMAIN node /\ node[name].t = "bool"
HasObj(node, name)  == name \in DOMAIN node /\ node[name].t = "obj"

-----------------------------------------------------------------------------
(* tools::trim_left_copy / trim_right_copy with " \n\r\t".                *)
Blank == {" ", "\n", "\r", "\t"}

TrimBlank(s) ==
    LET first == SelectInSeq(s, LAMBDA c : c \notin Blank)
        last  == SelectLastInSeq(s, LAMBDA c : c \notin Blank)
    IN  IF first = 0 THEN <<>> ELSE SubSeq(s, first, last)

(* Index of the first "://" in s, 0 when there is none.                   *)
SchemeEnd(s) ==
    LET at == {i \in 1..Len(s) : i + 2 <= Len(s) /\ SubSeq(s, i, i + 2) = <<":", "/", "/">>}
    IN  IF at = {} THEN 0 ELSE Min(at)

(* Mutant: only the left end is trimmed.                                 *)
ExtractHost_LeftTrimOnly(host) ==
    IF host = <<>> THEN <<>>
    ELSE LET h1 == IF Last(host) = "/" THEN Front(host) ELSE host
             k  == SchemeEnd(h1)
             h2 == IF k > 0 THEN SubSeq(h1, k + 3, Len(h1)) ELSE h1
             first == SelectInSeq(h2, LAMBDA c : c \notin Blank)
         IN  IF first = 0 THEN <<>> ELSE SubSeq(h2, first, Len(h2))

(* external_url_config::extract_host: drop one trailing '/', then         *)
(* everything up to and including the first "://", then blanks at both    *)
(* ends.                                                                  *)
ExtractHost(host) ==
    IF host = <<>> THEN <<>>
    ELSE LET h1 == IF Last(host) = "/" THEN Front(host) ELSE host
             k  == SchemeEnd(h1)
             h2 == IF k > 0 THEN SubSeq(h1, k + 3, Len(h1)) ELSE h1
         IN  TrimBlank(h2)

(* Mutant: empty tokens are dropped (a split that skips empty fields).  *)
RECURSIVE SplitRooms_SkipEmpty(_)
SplitRooms_SkipEmpty(s) ==
    IF s = <<>> THEN <<>>
    ELSE LET k == SelectInSeq(s, LAMBDA c : c = ";")
         IN  IF k = 0 THEN <<s>>
             ELSE (IF k = 1 THEN <<>> ELSE <<SubSeq(s, 1, k - 1)>>)
                  \o SplitRooms_SkipEmpty(SubSeq(s, k + 1, Len(s)))

(* std::getline(iss, url, ';') repeated until the stream ends: a trailing *)
(* ';' yields no empty last token, an empty string yields no token.       *)
RECURSIVE SplitRooms(_)
SplitRooms(s) ==
    IF s = <<>> THEN <<>>
    ELSE LET k == SelectInSeq(s, LAMBDA c : c = ";")
         IN  IF k = 0 THEN <<s>>
             ELSE <<SubSeq(s, 1, k - 1)>> \o SplitRooms(SubSeq(s, k + 1, Len(s)))

-----------------------------------------------------------------------------
(* Where each host_url_type is read from: section, member, and whether   *)
(* its absence fails the whole parse.  "mail" entries are required only  *)
(* when "mail-interop" is an object.                                      *)
HostTable == {
    [type |-> "base",              sec |-> "api-urls",       name |-> "main-api",              need |-> "yes"],
    [type |-> "base_binary",       sec |-> "api-urls",       name |-> "main-binary-api",       need |-> "yes"],
    [type |-> "files_parse",       sec |-> "templates-urls", name |-> "files-parsing",         need |-> "yes"],
    [type |-> "stickerpack_share", sec |-> "templates-urls", name |-> "stickerpack-sharing",   need |-> "yes"],
    [type |-> "profile",           sec |-> "templates-urls", name |-> "profile",               need |-> "yes"],
    [type |-> "di",                sec |-> "templates-urls", name |-> "di",                    need |-> "no"],
    [type |-> "di_dark",           sec |-> "templates-urls", name |-> "di-dark",               need |-> "no"],
    [type |-> "tasks",             sec |-> "templates-urls", name |-> "tasks",                 need |-> "no"],
    [type |-> "calendar",          sec |-> "templates-urls", name |-> "calendar",              need |-> "no"],
    [type |-> "mail_auth",         sec |-> "mail-interop",   name |-> "mail-auth",             need |-> "mail"],
    [type |-> "mail_redirect",     sec |-> "mail-interop",   name |-> "desktop-mail-redirect", need |-> "mail"],
    [type |-> "mail_win",          sec |-> "mail-interop",   name |-> "desktop-mail",          need |-> "mail"],
    [type |-> "mail_read",         sec |-> "mail-interop",   name |-> "desktop-single-mail",   need |-> "mail"]}

MailTypes     == {e.type : e \in {x \in HostTable : x.need = "mail"}}

(* Top-level boolean members and the feature each overrides, in the      *)
(* order of the unserialize_feature calls; then those of "mini-apps".     *)
FeatureTable == <<
    <<"avatar_change_allowed", "allow-self-avatar-change">>,
    <<"changeable_name", "allow-self-name-change">>,
    <<"info_change_allowed", "allow-self-info-change">>,
    <<"snippet_in_chat", "snippets-enabled">>,
    <<"vcs_call_by_link_enabled", "allow-vcs-call-creation">>,
    <<"vcs_webinar_enabled", "allow-vcs-webinar-creation">>,
    <<"phone_allowed", "attach-phone-enabled">>,
    <<"silent_message_delete", "silent-message-delete">>,
    <<"support_shared_federation_stickerpacks", "support-shared-federation-stickerpacks">>,
    <<"smartreply_suggests_stickers", "smart-reply-stickers-enabled">>,
    <<"smartreply_suggests_text", "smart-reply-text-enabled">>,
    <<"restricted_files_enabled", "restricted-files-enabled">>,
    <<"antivirus_check_enabled", "antivirus-check-enabled">>,
    <<"threads_enabled", "threads-enabled">> >>

MiniAppsTable == <<
    <<"tasks_enabled", "tasks-enabled">>,
    <<"task_creation_in_chat_enabled", "task-creation-in-chat-enabled">>,
    <<"organization_structure_enabled", "organization-structure-enabled">>,
    <<"calendar_enabled", "calendar-enabled">> >>

(* unserialize_feature_from_node over a table: one <<feature, value>>     *)
(* entry per boolean member present, in table order.                      *)
FeaturesFrom(node, table) ==
    LET present == SelectSeq(table, LAMBDA e : HasBool(node, e[2]))
    IN  [i \in 1..Len(present) |-> <<present[i][1], node[present[i][2]].bool>>]

-----------------------------------------------------------------------------
(* The host a HostTable entry resolves to in doc, <<>> when absent.      *)
UrlOf(doc, e) ==
    IF HasObj(doc, e.sec) /\ HasStr(doc[e.sec].obj, e.name)
       THEN ExtractHost(doc[e.sec].obj[e.name].str) ELSE <<>>

(* The early returns of config_p::unserialize: api-urls and              *)
(* templates-urls must be objects holding the required hosts, and a      *)
(* mail-interop object must hold all four mail hosts.                     *)
Accepts(doc) ==
    /\ HasObj(doc, "api-urls")
    /\ HasObj(doc, "templates-urls")
    /\ \A e \in HostTable :
          (e.need = "yes" \/ (e.need = "mail" /\ HasObj(doc, "mail-interop")))
              => UrlOf(doc, e) # <<>>

(* cache_: every get_url that found a non-empty host, plus the platform   *)
(* update url when updates from the backend are enabled.                  *)
Hosts(doc) ==
    LET got      == {e \in HostTable : UrlOf(doc, e) # <<>>}
        apps     == doc["apps"].obj
        platform == IF /\ UpdateFromBackend /\ HasObj(doc, "apps")
                       /\ HasObj(apps, PlatformKey) /\ HasStr(apps[PlatformKey].obj, "url")
                       THEN ExtractHost(apps[PlatformKey].obj["url"].str) ELSE <<>>
    IN  [t \in {e.type : e \in got} |-> UrlOf(doc, CHOOSE e \in got : e.type = t)]
        @@ (IF platform # <<>> THEN "app_update" :> platform ELSE <<>>)

(* vcs_rooms_ from templates-urls.vcs-room.                               *)
VcsRooms(doc) ==
    LET templ == doc["templates-urls"].obj
    IN  IF HasStr(templ, "vcs-room") THEN SplitRooms(templ["vcs-room"].str) ELSE <<>>

(* Mutant: the quotes override is derived when either input is on.     *)
Features_QuotesOnEither(doc) ==
    LET feats == FeaturesFrom(doc, FeatureTable)
                 \o (IF HasObj(doc, "mini-apps")
                       THEN FeaturesFrom(doc["mini-apps"].obj, MiniAppsTable) ELSE <<>>)
        on(f) == <<f, TRUE>> \in Range(feats)
    IN  IF on("smartreply_suggests_stickers") \/ on("smartreply_suggests_text")
           THEN Append(feats, <<"smartreply_suggests_for_quotes", TRUE>>)
           ELSE feats

(* override_features_: the top-level table, then the mini-apps table,     *)
(* then smartreply_suggests_for_quotes when both smart-reply overrides    *)
(* are present and true.                                                  *)
Features(doc) ==
    LET feats == FeaturesFrom(doc, FeatureTable)
                 \o (IF HasObj(doc, "mini-apps")
                       THEN FeaturesFrom(doc["mini-apps"].obj, MiniAppsTable) ELSE <<>>)
        on(f) == <<f, TRUE>> \in Range(feats)
    IN  IF on("smartreply_suggests_stickers") /\ on("smartreply_suggests_text")
           THEN Append(feats, <<"smartreply_suggests_for_quotes", TRUE>>)
           ELSE feats

(* override_values_.                                                      *)
Values(doc) ==
    IF HasStr(doc, "status-banner-emoji")
       THEN << <<"status_banner_emoji_csv", doc["status-banner-emoji"].str>> >>
       ELSE <<>>

(* config_p::unserialize: the whole result, or failure.                  *)
Unserialize(doc) ==
    IF Accepts(doc)
       THEN [ok |-> TRUE, hosts |-> Hosts(doc), vcs |-> VcsRooms(doc),
             features |-> Features(doc), values |-> Values(doc)]
       ELSE [ok |-> FALSE]

-----------------------------------------------------------------------------
(* The URL builders.  json_name() is "myteam-config.json"; the preset host *)
(* is config value external_config_preset_url and is used only when the    *)
(* feature external_config_use_preset_url is on.                           *)
JsonName == <<"m", "y", "t", "e", "a", "m", "-", "c", "o", "n", "f", "i", "g", ".",
              "j", "s", "o", "n">>

Https == <<"h", "t", "t", "p", "s", ":", "/", "/">>

(* external_url_config::make_url.                                         *)
MakeUrl(domain, query) ==
    IF query # <<>> THEN Https \o domain \o <<"/">> \o JsonName \o <<"?">> \o query
                    ELSE Https \o domain \o <<"/">> \o JsonName

DomainQuery(login) == <<"d", "o", "m", "a", "i", "n", "=">> \o login

(* external_url_config::make_url_preset: empty unless a preset is set and  *)
(* enabled.                                                               *)
MakeUrlPreset(login, preset, usePreset) ==
    IF preset # <<>> /\ usePreset THEN MakeUrl(preset, DomainQuery(login)) ELSE <<>>

(* Mutant: the caller's host is tried before the preset.                 *)
MakeUrlAutoPreset_HostFirst(login, host, preset, usePreset) ==
    IF host # <<>> THEN MakeUrl(host, DomainQuery(login))
    ELSE IF MakeUrlPreset(login, preset, usePreset) # <<>> THEN MakeUrlPreset(login, preset, usePreset)
    ELSE MakeUrl(login, DomainQuery(login))

(* external_url_config::make_url_auto_preset: the preset url, else the     *)
(* caller's host, else the login domain itself.                           *)
MakeUrlAutoPreset(login, host, preset, usePreset) ==
    LET urlPreset == MakeUrlPreset(login, preset, usePreset)
    IN  IF urlPreset # <<>> THEN urlPreset
        ELSE IF host # <<>> THEN MakeUrl(host, DomainQuery(login))
        ELSE MakeUrl(login, DomainQuery(login))

=============================================================================

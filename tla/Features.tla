------------------------------ MODULE Features ------------------------------
(***************************************************************************)
(* The feature queries of the GUI (src/gui/utils/features.cpp, namespace   *)
(* Features).  Each query is a pure function of:                           *)
(*   - config::get().is_on(f): the build's feature flags, with the         *)
(*     overrides of the external URL configuration applied;                *)
(*   - config::is_overridden(f): whether such an override is in effect;    *)
(*   - Omicron::_o(key, default): the Omicron overlay, which answers its   *)
(*     own value for a key it holds and the default otherwise;             *)
(*   - a few build, platform and settings facts.                           *)
(* These are gathered in a context record c.  Every query is written in a  *)
(* small term language (one constructor per shape of query body that the   *)
(* source uses) and evaluated by the recursive operator Eval; the tables   *)
(* below give the term of each query, in source order.                     *)
(***************************************************************************)
EXTENDS Naturals, Sequences, TLC

(* Omicron::_o(key, def).                                                 *)
Omicron(c, key, def) == IF key \in DOMAIN c.omi THEN c.omi[key] ELSE def

(* config::get().number<int64_t>(v).value_or(def).                        *)
NumberOr(c, v, def) == IF v \in DOMAIN c.num THEN c.num[v] ELSE def

(* u"https://" % link % u'/' over a host given as a character sequence.    *)
HttpsLink(u) == <<"h", "t", "t", "p", "s", ":", "/", "/">> \o u \o <<"/">>

-----------------------------------------------------------------------------
(* Term constructors: one per shape of query body.                         *)
OC(key, flag) == [k |-> "oc", key |-> key, flag |-> flag] \* _o(key, is_on(flag))
CO(flag)      == [k |-> "co", flag |-> flag]              \* is_on(flag)
OD(key, def)  == [k |-> "od", key |-> key, def |-> def]   \* _o(key, constant), not boolean
MY(flag, key) == [k |-> "my", flag |-> flag, key |-> key] \* myteamConfigOrOmicron
ON(key, v, def) == [k |-> "on", key |-> key, v |-> v, def |-> def] \* _o(key, number(v).value_or(def))
Q(name)       == [k |-> "q", q |-> name]                  \* a call of another query
B(fact)       == [k |-> "b", b |-> fact]                  \* build, platform or settings fact
Not(t)        == [k |-> "not", t |-> t]
AllOf(ts)       == [k |-> "all", ts |-> ts]                 \* &&, left to right
AnyOf(ts)       == [k |-> "any", ts |-> ts]                 \* ||
Ite(t, a, e)  == [k |-> "ite", t |-> t, a |-> a, e |-> e]
OT(key, t)    == [k |-> "ot", key |-> key, t |-> t]       \* _o(key, value of term t)
Lit(v)        == [k |-> "lit", v |-> v]
Link(u)       == [k |-> "link", u |-> u]                  \* "https://" % url(u) % '/'
Url(u)        == [k |-> "url", u |-> u]                   \* config::get().url(u)
Str(v)        == [k |-> "str", v |-> v]                   \* config::get().string(v)
OvV(v)        == [k |-> "ovv", v |-> v]                   \* config::is_overridden(v)
UrlProfile    == [k |-> "urlprofile"]                     \* Ui::getUrlConfig().getUrlProfile()

-----------------------------------------------------------------------------
(* Mutant: Omicron alone decides, as for the other queries.               *)
MyteamConfigOrOmicron_OmicronOnly(c, flag, key) == Omicron(c, key, c.on[flag])

(* myteamConfigOrOmicronFeatureEnabled: an overridden flag that is on      *)
(* wins; otherwise Omicron decides, with the flag as its default.          *)
MyteamConfigOrOmicron(c, flag, key) ==
    LET config_value  == c.on[flag]
        omicron_value == Omicron(c, key, config_value)
    IN  IF flag \in c.over THEN config_value \/ omicron_value ELSE omicron_value

(* isNicksEnabled .. showNotificationsText.                               *)
QueriesProfileAndPhone ==
    [isNicksEnabled |-> OT("profile_nickname_allowed", B("default_profile_nickname_allowed")),
     getProfileDomain |-> OT("profile_domain", Ite(CO("external_url_config"), UrlProfile, Url("profile"))),
     getProfileDomainAgent |-> OT("profile_domain_agent", Ite(CO("external_url_config"), UrlProfile, Url("profile_agent"))),
     maximumUndoStackSize |-> OD("maximum_undo_size", 20),
     useAppleEmoji |-> OT("use_apple_emoji", B("default_use_apple_emoji")),
     opensOnClick |-> OT("open_file_on_click", B("default_open_file_on_click")),
     phoneAllowed |-> Ite(CO("store_version"),
                          AllOf(<<CO("phone_allowed"), OC("phone_allowed", "phone_allowed")>>),
                          OC("phone_allowed", "phone_allowed")),
     externalPhoneAttachment |-> OC("external_phone_attachment", "external_phone_attachment"),
     showNotificationsTextSettings |-> OC("show_notification_text", "show_notification_text"),
     showNotificationsText |-> Ite(Q("showNotificationsTextSettings"),
                                   Not(B("settings_hide_message_notification")), Lit(FALSE))]

(* dataVisibilityLink .. titleAttachPhoneNumberPopup.  The function-local *)
(* statics are computed from the build's urls and the language, which do  *)
(* not change while the process runs, so caching them changes nothing.    *)
QueriesLinksAndLogin ==
    [dataVisibilityLink |-> OT("data_visibility_link", Link("data_visibility")),
     passwordRecoveryLink |-> OT("password_recovery_link", Link("password_recovery")),
     securityCallLink |-> OD("security_call_link", "default_security_call_link"),
     attachPhoneUrl |-> OT("attach_phone_url", Link("attach_phone")),
     updateAppUrl |-> OD("update_app_url", <<>>),
     loginMethod |-> Ite(CO("otp_login"), Lit("OTPViaEmail"), Lit("Basic")),
     isOAuth2LoginAllowed |-> AllOf(<<Q("hasWebEngine"),
                                    OC("login_by_oauth2_allowed", "login_by_oauth2_allowed")>>),
     getSMSResultTime |-> OD("sms_result_waiting_time", 60),
     showAttachPhoneNumberPopup |-> OC("show_attach_phone_number_popup", "show_attach_phone_number_popup"),
     closeBtnAttachPhoneNumberPopup |->
        OT("attach_phone_number_popup_close_btn",
           Not(AllOf(<<CO("attach_phone_number_popup_modal"), B("lang_ru")>>))),
     showTimeoutAttachPhoneNumberPopup |->
        OT("attach_phone_number_popup_show_timeout",
           Ite(AllOf(<<CO("attach_phone_number_popup_modal"), B("lang_ru")>>),
               Lit(0), Lit("default_show_timeout_attach_phone_number_popup"))),
     textAttachPhoneNumberPopup |-> OD("attach_phone_number_popup_text", "text"),
     titleAttachPhoneNumberPopup |-> OD("attach_phone_number_popup_title", "title")]

(* isSmartreplyEnabled .. spellCheckMaxSuggestCount.                       *)
QueriesSmartreplyToSpellcheck ==
    [isSmartreplyEnabled |->
        AllOf(<<CO("smartreplies"),
              OC("smartreply_suggests_feature_enabled", "smartreply_suggests_feature_enabled")>>),
     isSmartreplyForQuoteEnabled |->
        AllOf(<<Q("isSmartreplyEnabled"),
              OC("smartreply_suggests_for_quotes", "smartreply_suggests_for_quotes")>>),
     smartreplyHideTime |-> ON("smartreply_suggests_click_hide_timeout", "smartreply_suggests_click_hide_timeout",
                               "default_smartreply_suggests_click_hide_timeout"),
     smartreplyMsgidCacheSize |-> ON("smartreply_suggests_msgid_cache_size", "smartreply_suggests_msgid_cache_size",
                                     "default_smartreply_suggests_msgid_cache_size"),
     isSuggestsEnabled |-> CO("sticker_suggests"),
     getSuggestTimerInterval |-> OD("server_suggests_graceful_time", "default_stickers_suggest_time_interval"),
     isServerSuggestsEnabled |->
        AllOf(<<Q("isSuggestsEnabled"), CO("sticker_suggests_server"),
              OT("server_suggests_enabled", B("default_stickers_server_suggest_enabled"))>>),
     maxAllowedSuggestChars |-> OD("server_suggests_max_allowed_chars", "default_stickers_server_suggests_max_allowed_chars"),
     maxAllowedSuggestWords |-> OD("server_suggests_max_allowed_words", "default_stickers_server_suggests_max_allowed_words"),
     maxAllowedLocalSuggestChars |-> OD("suggests_max_allowed_chars", "default_stickers_local_suggests_max_allowed_chars"),
     maxAllowedLocalSuggestWords |-> OD("suggests_max_allowed_words", "default_stickers_local_suggests_max_allowed_words"),
     betaUpdateAllowed |-> AllOf(<<Not(B("is_alpha")), Q("updateAllowed"), OC("beta_update", "beta_update")>>),
     updateAllowed |-> AllOf(<<Not(B("is_store")), Not(B("is_pkg_msi"))>>),
     avatarChangeAllowed |-> MY("avatar_change_allowed", "avatar_change_allowed"),
     clRemoveContactsAllowed |-> OC("cl_remove_contacts_allowed", "remove_contact"),
     changeNameAllowed |-> MY("changeable_name", "changeable_name"),
     changeInfoAllowed |-> CO("info_change_allowed"),
     pollsEnabled |-> OT("polls_enabled", B("default_polls_enabled")),
     getFsIDLength |-> OD("fs_id_length", "default_fs_id_length"),
     isSpellCheckEnabled |-> AllOf(<<B("spellchecker_available"), OC("spell_check_enabled", "spell_check")>>),
     spellCheckMaxSuggestCount |-> OD("spell_check_max_suggest_count", 3)]

(* favoritesImageIdEnglish .. isGroupInvitesBlacklistEnabled.  The voip    *)
(* limits keep a static copy of a build value, which never changes.       *)
QueriesMediaToInvites ==
    [favoritesImageIdEnglish |-> OD("favorites_image_id_english", "default_favorites_image_id_english"),
     favoritesImageIdRussian |-> OD("favorites_image_id_russian", "default_favorites_image_id_russian"),
     getAsyncResponseTimeout |-> OD("async_response_timeout", "default_async_response_timeout"),
     getVoipCallUserLimit |-> ON("voip_call_user_limit", "voip_call_user_limit", "default_voip_call_user_limit"),
     getVoipVideoUserLimit |-> ON("voip_video_user_limit", "voip_video_user_limit", "default_voip_video_user_limit"),
     getVoipBigConferenceBoundary |-> ON("voip_big_conference_boundary", "voip_big_conference_boundary",
                                         "default_voip_big_conference_boundary"),
     isVcsCallByLinkEnabled |-> MY("vcs_call_by_link_enabled", "vcs_call_by_link_enabled"),
     isVcsWebinarEnabled |-> MY("vcs_webinar_enabled", "vcs_webinar_enabled"),
     getVcsRoomList |-> OT("vcs_room", Url("vcs_room")),
     getReactionsJson |-> OD("reactions_initial_set", <<>>),
     reactionsEnabled |-> OC("show_reactions", "show_reactions"),
     getStatusJson |-> OD("statuses_json", <<>>),
     isStatusEnabled |-> OC("statuses_enabled", "statuses_enabled"),
     isCustomStatusEnabled |-> OC("custom_statuses_enabled", "custom_statuses_enabled"),
     isGlobalContactSearchAllowed |-> CO("global_contact_search_allowed"),
     forceCheckMacUpdates |-> OC("force_update_check_allowed", "force_update_check_allowed"),
     callRoomInfoEnabled |-> OC("call_room_info_enabled", "call_room_info_enabled"),
     areYourInvitesButtonVisible |-> OC("show_your_invites_to_group_enabled", "show_your_invites_to_group_enabled"),
     isGroupInvitesBlacklistEnabled |-> OC("group_invite_blacklist_enabled", "group_invite_blacklist_enabled")]

(* IvrLoginEnabled .. isBlockFormattingInInputEnabled.                     *)
QueriesIvrToFormatting ==
    [IvrLoginEnabled |-> OT("ivr_login_enabled", Lit(FALSE)),
     IvrResendCountToShow |-> OD("ivr_resend_count_to_show", 2),
     isContactUsViaBackend |-> CO("contact_us_via_backend"),
     isUpdateFromBackendEnabled |-> CO("update_from_backend"),
     isWebpScreenshotEnabled |-> OT("webp_screenshot_enabled", Lit(FALSE)),
     maxFileSizeForWebpConvert |-> OD("webp_max_file_size_to_convert", 1572864),
     isInviteBySmsEnabled |-> OC("invite_by_sms", "invite_by_sms"),
     shouldShowSmsNotifySetting |-> OC("show_sms_notify_setting", "show_sms_notify_setting"),
     isAnimatedStickersInPickerAllowed |-> Not(OT("animated_stickers_in_picker_disabled", Lit(FALSE))),
     isAnimatedStickersInChatAllowed |-> Not(OT("animated_stickers_in_chat_disabled", Lit(FALSE))),
     isContactListSmoothScrollingEnabled |-> OT("contact_list_smooth_scrolling_enabled", Lit(TRUE)),
     isBackgroundPttPlayEnabled |-> OT("background_ptt_play_enabled", Lit(TRUE)),
     removeDeletedFromNotifications |-> OC("remove_deleted_from_notifications", "remove_deleted_from_notifications"),
     longPathTooltipsAllowed |-> OC("long_path_tooltip_enabled", "long_path_tooltip_enabled"),
     isFormattingInBubblesEnabled |-> OC("formatting_in_bubbles", "formatting_in_bubbles"),
     isFormattingInInputEnabled |-> OC("formatting_in_input", "formatting_in_input"),
     isBlockFormattingInInputEnabled |-> Q("isFormattingInInputEnabled")]

(* statusBannerEmojis .. isExpandedGalleryEnabled.  statusBannerEmojis     *)
(* lets an overridden value win over Omicron; threadResubscribeTimeout     *)
(* only asserts that threads are on (a no-op in release builds).           *)
QueriesBannerToGallery ==
    [statusBannerEmojis |-> Ite(OvV("status_banner_emoji_csv"), Str("status_banner_emoji_csv"),
                                OT("status_banner_emoji_csv", Str("status_banner_emoji_csv"))),
     isAppsNavigationBarVisible |-> CO("apps_bar_enabled"),
     isMessengerTabBarVisible |-> Not(Q("isAppsNavigationBarVisible")),
     isStatusInAppsNavigationBar |-> AllOf(<<Q("isAppsNavigationBarVisible"), CO("status_in_apps_bar")>>),
     isOrganizationStructureEnabled |-> MY("organization_structure_enabled", "organization_structure_enabled"),
     isTasksEnabled |-> MY("tasks_enabled", "tasks_enabled"),
     isCalendarEnabled |-> MY("calendar_enabled", "calendar_enabled"),
     isRecentsPinnedItemsEnabled |->
        AnyOf(<<Q("isThreadsEnabled"), Q("isScheduledMessagesEnabled"), Q("isRemindersEnabled")>>),
     isScheduledMessagesEnabled |-> CO("scheduled_messages_enabled"),
     isThreadsEnabled |-> MY("threads_enabled", "threads_enabled"),
     isRemindersEnabled |-> CO("reminders_enabled"),
     isSharedFederationStickerpacksSupported |-> CO("support_shared_federation_stickerpacks"),
     threadResubscribeTimeout |-> OD("subscr_renew_interval_thread", 60),
     isDraftEnabled |-> OC("draft_enabled", "draft_enabled"),
     draftTimeout |-> ON("draft_timeout", "draft_timeout_sec", "default_draft_timeout_sec"),
     draftMaximumLength |-> ON("draft_max_len", "draft_max_len", "default_draft_max_len"),
     isMessageCornerMenuEnabled |-> CO("message_corner_menu"),
     isTaskCreationInChatEnabled |-> MY("task_creation_in_chat_enabled", "task_creation_in_chat_enabled"),
     isRestrictedFilesEnabled |-> MY("restricted_files_enabled", "restricted_files_enabled"),
     trustedStatusDefault |-> Not(Q("isRestrictedFilesEnabled")),
     isAntivirusCheckEnabled |-> MY("antivirus_check_enabled", "antivirus_check_enabled"),
     isAntivirusCheckProgressVisible |-> CO("antivirus_check_progress_visible"),
     isExpandedGalleryEnabled |-> OC("expanded_gallery_enabled", "expanded_gallery")]

(* hasWebEngine and webPageReloadInterval.                                 *)
QueriesWebEngine ==
    [hasWebEngine |-> AllOf(<<B("has_webengine"),
                            Not(AllOf(<<B("build_for_store"), B("macos_high_sierra_or_older")>>))>>),
     webPageReloadInterval |-> ON("base_retry_interval_sec", "base_retry_interval_sec",
                                  "default_base_retry_interval_sec")]

Queries ==
    QueriesProfileAndPhone @@ QueriesLinksAndLogin @@ QueriesSmartreplyToSpellcheck
    @@ QueriesMediaToInvites @@ QueriesIvrToFormatting @@ QueriesBannerToGallery @@ QueriesWebEngine

(* The value of a term in context c.                                       *)
RECURSIVE Eval(_, _)
Eval(c, t) ==
    CASE t.k = "oc"  -> Omicron(c, t.key, c.on[t.flag])
      [] t.k = "co"  -> c.on[t.flag]
      [] t.k = "od"  -> Omicron(c, t.key, t.def)
      [] t.k = "my"  -> MyteamConfigOrOmicron(c, t.flag, t.key)
      [] t.k = "on"  -> Omicron(c, t.key, NumberOr(c, t.v, t.def))
      [] t.k = "q"   -> Eval(c, Queries[t.q])
      [] t.k = "b"   -> c.facts[t.b]
      [] t.k = "not" -> ~Eval(c, t.t)
      [] t.k = "all" -> \A i \in 1..Len(t.ts) : Eval(c, t.ts[i])
      [] t.k = "any" -> \E i \in 1..Len(t.ts) : Eval(c, t.ts[i])
      [] t.k = "ite" -> IF Eval(c, t.t) THEN Eval(c, t.a) ELSE Eval(c, t.e)
      [] t.k = "ot"  -> IF t.key \in DOMAIN c.omi THEN c.omi[t.key] ELSE Eval(c, t.t)
      [] t.k = "lit" -> t.v
      [] t.k = "link" -> HttpsLink(c.url[t.u])
      [] t.k = "url" -> c.url[t.u]
      [] t.k = "str" -> c.str[t.v]
      [] t.k = "ovv" -> t.v \in c.over
      [] t.k = "urlprofile" -> c.urlProfile

(* Features::<name>() in context c.                                        *)
Query(c, name) == Eval(c, Queries[name])

-----------------------------------------------------------------------------
(* What a term reads: <<"flag", f>> for a feature flag, <<"key", k>> for  *)
(* an Omicron key whose value is a boolean, <<"fact", b>> for a build or   *)
(* settings fact, <<"url", u>> for a build url, <<"value", v>> for a      *)
(* config value, <<"query", q>> for a call of another query.               *)
RECURSIVE Reads(_)
Reads(t) ==
    CASE t.k \in {"oc", "my"} -> {<<"flag", t.flag>>, <<"key", t.key>>}
      [] t.k = "co" -> {<<"flag", t.flag>>}
      [] t.k = "b" -> {<<"fact", t.b>>}
      [] t.k \in {"url", "link"} -> {<<"url", t.u>>}
      [] t.k \in {"str", "ovv"} -> {<<"value", t.v>>}
      [] t.k = "q" -> {<<"query", t.q>>}
      [] t.k \in {"not", "ot"} -> Reads(t.t)
      [] t.k \in {"all", "any"} -> UNION {Reads(t.ts[i]) : i \in 1..Len(t.ts)}
      [] t.k = "ite" -> Reads(t.t) \cup Reads(t.a) \cup Reads(t.e)
      [] OTHER -> {}

QueryReads == UNION {Reads(Queries[q]) : q \in DOMAIN Queries}
ReadsOf(kind) == {p[2] : p \in {x \in QueryReads : x[1] = kind}}
Flags    == ReadsOf("flag")
BoolKeys == ReadsOf("key")
Facts    == ReadsOf("fact")
Urls     == ReadsOf("url")

(* Everything query q reads, through the queries it calls.                 *)
ReadsOfQuery(q) ==
    LET calls == {p[2] : p \in {x \in Reads(Queries[q]) : x[1] = "query"}}
    IN  Reads(Queries[q]) \cup UNION {Reads(Queries[p]) : p \in calls}

(* config::get() as the GUI sees it once the core has pushed the external  *)
(* configuration's overrides (config::set_external): an overridden flag or *)
(* value reads as the first override for it, anything else as the build's *)
(* default; is_overridden holds for exactly the overridden ids.           *)
ConfigContext(feats, vals, build, facts, omi, urls, urlProfile) ==
    LET fi(f) == {i \in 1..Len(feats) : feats[i][1] = f}
        vi(v) == {i \in 1..Len(vals) : vals[i][1] = v}
        first(S) == CHOOSE i \in S : \A j \in S : i <= j
    IN  [on   |-> [f \in Flags |-> IF fi(f) # {} THEN feats[first(fi(f))][2] ELSE build[f]],
         over |-> {feats[i][1] : i \in 1..Len(feats)} \cup {vals[i][1] : i \in 1..Len(vals)},
         str  |-> [v \in {"status_banner_emoji_csv"} |->
                     IF vi(v) # {} THEN vals[first(vi(v))][2] ELSE <<>>],
         num  |-> <<>>,
         omi  |-> omi,
         facts |-> facts,
         url  |-> urls,
         urlProfile |-> urlProfile]

=============================================================================

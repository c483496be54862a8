--------------------------- MODULE MC_ConfigLoader ---------------------------
(***************************************************************************)
(* Checks the loader over bounded inputs.  The state is one input: a JSON  *)
(* document, a host string for extract_host, a vcs-room string for the    *)
(* split, or the input of another pure component; Next moves to any other input, so every input is a reachable     *)
(* state and the invariants below are checked on each of them.            *)
(*                                                                         *)
(* Documents vary one section at a time around a minimal valid document,  *)
(* since config_p::unserialize reads its sections independently.           *)
(***************************************************************************)
EXTENDS ConfigLoader, FiniteSets

CONSTANTS MaxHostLen, MaxRoomsLen, MaxArgs

VARIABLE input

H == <<"h">>

(* Strings over an alphabet holding every character extract_host tests.  *)
HostStrings == BoundedSeq({"h", ":", "/", " "}, MaxHostLen)
RoomStrings == BoundedSeq({"h", ";"}, MaxRoomsLen)

(* A member that may be absent: either no entry or one of the values.    *)
Opt(name, vals) == {<<>>} \cup {name :> v : v \in vals}

HostVals == {JStr(s) : s \in {H, <<":", "/", "/">>, <<" ">>, <<"h", "/", " ">>}}

Obj2(n1, V1, n2, V2) == {JObj(a @@ b) : a \in Opt(n1, V1), b \in Opt(n2, V2)}

ValidApi   == JObj("main-api" :> JStr(H) @@ "main-binary-api" :> JStr(H))
ValidTempl == JObj("files-parsing" :> JStr(H) @@ "stickerpack-sharing" :> JStr(H)
                   @@ "profile" :> JStr(H))
Base == "api-urls" :> ValidApi @@ "templates-urls" :> ValidTempl

ApiDocs ==
    {[m \in {"templates-urls"} |-> ValidTempl] @@ a :
        a \in Opt("api-urls", {JStr(H)} \cup Obj2("main-api", HostVals, "main-binary-api", HostVals))}

TemplDocs ==
    {("api-urls" :> ValidApi) @@ t :
        t \in Opt("templates-urls",
                  {JStr(H)} \cup
                  {JObj(f @@ s @@ p @@ d @@ r) :
                     f \in Opt("files-parsing", HostVals),
                     s \in Opt("stickerpack-sharing", {JStr(H)}),
                     p \in Opt("profile", {JStr(H), JStr(<<" ">>)}),
                     d \in Opt("di", {JStr(H)}),
                     r \in Opt("vcs-room", {JStr(<<"h", ";", "h">>), JBool(TRUE)})})}

MailNames == {"mail-auth", "desktop-mail-redirect", "desktop-mail", "desktop-single-mail"}

MailDocs ==
    {Base @@ m :
        m \in Opt("mail-interop",
                  {JBool(TRUE)} \cup
                  {JObj([n \in S |-> JStr(H)]) : S \in SUBSET MailNames})}

AppsDocs ==
    {Base @@ a :
        a \in Opt("apps", {JStr(H)} \cup
                          {JObj(k :> JObj("url" :> JStr(<<"h", "/">>))) : k \in {PlatformKey, "other"}})}

FeatureDocs ==
    {Base @@ s @@ t @@ m @@ e @@ x :
        s \in Opt("smart-reply-stickers-enabled", {JBool(TRUE), JBool(FALSE), JStr(H)}),
        t \in Opt("smart-reply-text-enabled", {JBool(TRUE), JBool(FALSE)}),
        m \in Opt("mini-apps", {JBool(TRUE),
                                JObj("tasks-enabled" :> JBool(TRUE)
                                     @@ "smart-reply-text-enabled" :> JBool(TRUE))}),
        e \in Opt("status-banner-emoji", {JStr(H)}),
        x \in Opt("threads-enabled", {JBool(FALSE)})}

Docs == ApiDocs \cup TemplDocs \cup MailDocs \cup AppsDocs \cup FeatureDocs

(* Login domains, caller hosts and preset hosts for the URL builders.    *)
UrlStrings == BoundedSeq({"a", "."}, 2)

T == INSTANCE Thread
P == INSTANCE ContactListPopup
L == INSTANCE Launch

(* The commands that ask the user before they act (a confirmation dialog, *)
(* ignoreContactWithConfirm or ReportContact), and the calls that remove  *)
(* or hide data on the server.                                            *)
AskFirst ==
    {"contacts/ignore", "recents/ignore", "recents/remove", "contacts/spam", "contacts/remove",
     "recents/mark_unimportant", "recents/clear_history", "recents/report", "calls/remove"}
DestructiveCalls == {"ignoreContact", "removeContactFromCL", "mark_unimportant", "eraseHistory", "deleteMessages"}

(* The commands of showContactListPopup, and one it does not know.       *)
PopupCommands ==
    AskFirst \cup
    {"recents/mark_read", "recents/mute", "recents/unmute", "recents/close", "recents/mark_unread",
     "contacts/call", "contacts/Profile", "recents/favorite", "recents/unfavorite",
     "recents/remove_from_unimportant", "other"}

(* What the handler asks the models: attention mark, selected contact,    *)
(* VoIP built in, number of messages of the call.                         *)
PopupContexts == [attention: BOOLEAN, selected: BOOLEAN, voip: BOOLEAN, callMessages: {0, 2}]

(* Argument vectors: the program, then up to MaxArgs arguments.          *)
ArgVectors == {<<"exe">> \o s : s \in BoundedSeq({"-urlcommand", "--version", "x", "/startup"}, MaxArgs)}

(* Parent topics: messages and tasks with empty and non-empty fields.     *)
Topics == [type: {"message"}, chat: {"", "c"}, msgId: {0, 7}] \cup [type: {"task"}, taskId: {"", "t"}]

(* Thread update collections from the core: the counters, then a parent   *)
(* topic as its serialize writes it, a parentTopic without a type, or     *)
(* none; each with the topic it was written from (T!NoTopic if none).     *)
UpdateFields == [id |-> "th", repliesCount |-> 2, unreadMsg |-> 1, subscriber |-> TRUE]
ThreadColls ==
    {<<t, UpdateFields @@ T!Serialize(t)>> : t \in Topics}
    \cup {<<T!NoTopic, UpdateFields>>, <<T!NoTopic, UpdateFields @@ ("parentTopic" :> [chat |-> "c"])>>}

Inputs ==
    {[kind |-> "doc", doc |-> d] : d \in Docs}
    \cup {[kind |-> "argv", argv |-> a, windows |-> w] : a \in ArgVectors, w \in BOOLEAN}
    \cup {[kind |-> "url", login |-> l, host |-> h, preset |-> p, usePreset |-> u] :
            l \in UrlStrings, h \in UrlStrings, p \in UrlStrings, u \in BOOLEAN}
    \cup {[kind |-> "host", str |-> s] : s \in HostStrings}
    \cup {[kind |-> "rooms", str |-> s] : s \in RoomStrings}
    \cup {[kind |-> "popup", cmd |-> c, ctx |-> x, confirmed |-> b] :
            c \in PopupCommands, x \in PopupContexts, b \in BOOLEAN}
    \cup {[kind |-> "thread", topic |-> t, coll |-> c] : <<t, c>> \in ThreadColls}
    \cup {[kind |-> "gl", fail |-> k, shader |-> b] : k \in 0..Len(L!GlSteps), b \in BOOLEAN}

TypeOK == input \in Inputs

-----------------------------------------------------------------------------
(* The vcs-room string joined back from its tokens.                      *)
JoinRooms(ts) ==
    IF ts = <<>> THEN <<>>
    ELSE FlattenSeq([i \in 1..Len(ts) |-> IF i = 1 THEN ts[1] ELSE <<";">> \o ts[i]])

SemicolonCount(s) == Len(SelectSeq(s, LAMBDA c : c = ";"))

(* The overrides the spec's table yields for doc: one per boolean member  *)
(* present at top level or in the mini-apps object, plus the derived     *)
(* smart-reply-for-quotes override when both smart-reply members are true.*)
ExpectedOverrides(doc) ==
    LET top   == {<<e[1], doc[e[2]].bool>> : e \in {x \in Range(FeatureTable) : HasBool(doc, x[2])}}
        mini  == IF HasObj(doc, "mini-apps")
                    THEN LET m == doc["mini-apps"].obj
                         IN  {<<e[1], m[e[2]].bool>> : e \in {x \in Range(MiniAppsTable) : HasBool(m, x[2])}}
                    ELSE {}
        both  == \A n \in {"smart-reply-stickers-enabled", "smart-reply-text-enabled"} :
                    n \in DOMAIN doc /\ doc[n] = JBool(TRUE)
    IN  top \cup mini \cup (IF both THEN {<<"smartreply_suggests_for_quotes", TRUE>>} ELSE {})

-----------------------------------------------------------------------------
(***************************************************************************)
(* The GUI's feature queries over the configuration an accepted document   *)
(* installs (Features, composed with the loader).  A query is asked under  *)
(* either build default for every flag and fact, and under three Omicron   *)
(* overlays: none, every boolean key off, every boolean key on together    *)
(* with string values for the profile domain and the banner emojis.        *)
(***************************************************************************)
F == INSTANCE Features

NoOmicron == <<>>
OmicronOverlays ==
    {NoOmicron, [k \in F!BoolKeys |-> FALSE],
     [k \in F!BoolKeys |-> TRUE] @@ ("profile_domain" :> <<"o">>) @@ ("status_banner_emoji_csv" :> <<"o">>)}

(* The context the GUI queries once the document's overrides are pushed.  *)
FeatureContext(r, b, om) ==
    F!ConfigContext(r.features, r.values, [f \in F!Flags |-> b], [x \in F!Facts |-> b], om,
                    [u \in F!Urls |-> <<"u">>], r.hosts["profile"])

(* The loader's result r with its overrides left out.                    *)
NoOverrides(r) == [r EXCEPT !.features = <<>>, !.values = <<>>]

(* The queries whose body reads one flag through a given shape.           *)
QueriesOfShape(k) == {q \in DOMAIN F!Queries : F!Queries[q].k = k}

-----------------------------------------------------------------------------
(***************************************************************************)
(* Properties                                                              *)
(***************************************************************************)

(* The feature overrides of an accepted document are exactly those of   *)
(* the spec's override table, each once, with the derived quotes         *)
(* override present iff both smart-reply members are true at top level.  *)
OverridesMatchDocument ==
    input.kind = "doc" /\ Accepts(input.doc) =>
        LET fs == Unserialize(input.doc).features
        IN  /\ Range(fs) = ExpectedOverrides(input.doc)
            /\ Len(fs) = Cardinality(Range(fs))

(* A host value is normalized as spec 4.1 says (the field resolution      *)
(* helper): strip everything up to and including the first "://", then    *)
(* one trailing slash, then ASCII blanks at both ends.                    *)
SpecNormalizedHost(s) ==
    LET k  == SchemeEnd(s)
        h1 == IF k > 0 THEN SubSeq(s, k + 3, Len(s)) ELSE s
        h2 == IF h1 # <<>> /\ Last(h1) = "/" THEN Front(h1) ELSE h1
    IN  TrimBlank(h2)

(* s ends with the scheme separator "://".                               *)
EndsWithScheme(s) == Len(s) >= 3 /\ SubSeq(s, Len(s) - 2, Len(s)) = <<":", "/", "/">>

(* external_url_config::extract_host gives the host spec 4.1 describes    *)
(* for every string of the alphabet up to the bound (scheme only, slash   *)
(* only, blanks before and after a slash, several separators), except a  *)
(* string ending in "://": the code drops the trailing slash before it    *)
(* looks for the scheme, so "x://" yields "x:/" where the spec yields "". *)
HostNormalizedPerSpec ==
    input.kind = "host" /\ ~EndsWithScheme(input.str) =>
        ExtractHost(input.str) = SpecNormalizedHost(input.str)

(* The vcs-room split keeps every token, empty ones included, between    *)
(* semicolons: joining the rooms back gives the string (without its final *)
(* semicolon, if any), and there is one room per semicolon-terminated    *)
(* token plus one for a non-empty remainder.                              *)
VcsRoomsRoundTrip ==
    input.kind = "rooms" =>
        LET s  == input.str
            ts == SplitRooms(s)
        IN  /\ \A i \in 1..Len(ts) : ";" \notin Range(ts[i])
            /\ JoinRooms(ts) = IF s # <<>> /\ Last(s) = ";" THEN Front(s) ELSE s
            /\ Len(ts) = SemicolonCount(s) + (IF s # <<>> /\ Last(s) # ";" THEN 1 ELSE 0)

(* A present "mail-interop" member makes its four hosts mandatory (spec  *)
(* 4.1 and 7): an accepted document with that member has all four.       *)
MailSectionPerSpec ==
    input.kind = "doc" /\ Accepts(input.doc) /\ "mail-interop" \in DOMAIN input.doc =>
        MailTypes \subseteq DOMAIN Unserialize(input.doc).hosts

(* What an accepted document says about a feature reaches the GUI's       *)
(* queries (the override sink of external_url_config::unserialize, read   *)
(* by the Features queries):                                             *)
(*  - a feature the document turns on and that a query reads through       *)
(*    myteamConfigOrOmicronFeatureEnabled is on whatever Omicron holds;   *)
(*  - a flag the document sets and a query reads from config alone answers *)
(*    the document's value whatever Omicron holds;                         *)
(*  - without Omicron keys, every query reading a document-set flag        *)
(*    directly answers the document's value;                               *)
(*  - the document's status-banner emojis win over Omicron;                *)
(*  - with the external URL config feature on and no Omicron key, the      *)
(*    profile domain is the document's profile host;                       *)
(*  - and a query that reads nothing the document overrides answers as it  *)
(*    would with no document at all.                                       *)
ServerOverridesHonoured ==
    input.kind = "doc" /\ Accepts(input.doc) =>
        LET r == Unserialize(input.doc)
            set(f) == {p[2] : p \in {x \in Range(r.features) : x[1] = f}}
        IN  \A b \in BOOLEAN, om \in OmicronOverlays :
              LET c == FeatureContext(r, b, om)
              IN  /\ \A q \in QueriesOfShape("my") :
                        set(F!Queries[q].flag) = {TRUE} => F!Query(c, q) = TRUE
                  /\ \A q \in QueriesOfShape("co") :
                        \A v \in set(F!Queries[q].flag) : F!Query(c, q) = v
                  /\ om = NoOmicron =>
                        \A q \in QueriesOfShape("my") \cup QueriesOfShape("oc") \cup QueriesOfShape("co") :
                            \A v \in set(F!Queries[q].flag) : F!Query(c, q) = v
                  /\ r.values # <<>> => F!Query(c, "statusBannerEmojis") = r.values[1][2]
                  /\ om = NoOmicron /\ c.on["external_url_config"] =>
                        F!Query(c, "getProfileDomain") = r.hosts["profile"]
                  /\ \A q \in DOMAIN F!Queries :
                        F!ReadsOfQuery(q) \cap ({<<"flag", p[1]>> : p \in Range(r.features)}
                                               \cup {<<"value", p[1]>> : p \in Range(r.values)}) = {}
                            => F!Query(c, q) = F!Query(FeatureContext(NoOverrides(r), b, om), q)

(* The fetch url is the one spec section 5 gives,                          *)
(* https://{domain}/myteam-config.json?domain={login-domain}, where the    *)
(* domain is the preset host when one is configured and enabled, else the  *)
(* caller's host when it is not empty, else the login domain itself       *)
(* (external_url_config::make_url_auto_preset).                            *)
FetchUrlPerSpec ==
    input.kind = "url" =>
        LET i == input
            effective == IF i.preset # <<>> /\ i.usePreset THEN i.preset
                         ELSE IF i.host # <<>> THEN i.host ELSE i.login
        IN  MakeUrlAutoPreset(i.login, i.host, i.preset, i.usePreset)
                = Https \o effective \o <<"/">> \o JsonName \o <<"?", "d", "o", "m", "a", "i", "n", "=">> \o i.login

(* The command line is read as its arguments say: --version as the first  *)
(* argument (not on Windows) is a version request; otherwise every        *)
(* "-urlcommand" that is not itself the value of the one before it makes a *)
(* url command, whose value is the argument after the last such flag that *)
(* has one (launch::CommandLineParser).  launch::main answers a version   *)
(* request before it looks for a running instance, and a restart after    *)
(* the event loop starts the program again with the same url command on    *)
(* Linux (execv of argv) and with none elsewhere.                          *)
CommandLinePerArgs ==
    input.kind = "argv" =>
        LET a   == input.argv
            cmd == L!CommandLineParser(a, input.windows)
            run(p) == CHOOSE j \in 0..(p - 2) :
                         /\ \A m \in (p - j)..(p - 1) : a[m] = "-urlcommand"
                         /\ (p - j - 1 < 2 \/ a[p - j - 1] # "-urlcommand")
            flags   == {p \in 2..Len(a) : a[p] = "-urlcommand" /\ run(p) % 2 = 0}
            valued  == {p \in flags : p + 1 <= Len(a)}
            version == ~input.windows /\ Len(a) >= 2 /\ a[2] = "--version"
        IN  /\ cmd.isVersionCommand = version
            /\ cmd.isUrlCommand = (~version /\ flags # {})
            /\ cmd.urlCommand = IF ~version /\ valued # {} THEN a[Max(valued) + 1] ELSE ""
            /\ \A e \in [launched: {FALSE}, mainInstance: BOOLEAN, updating: BOOLEAN, initOk: BOOLEAN,
                         windows: {input.windows}, testing: BOOLEAN, customArgs: {<<>>}] :
                  LET out == L!LaunchMain(a, e)
                  IN  /\ version => out.exit = "zero"
                      /\ out.exit = "exec" =>
                            \A linux \in BOOLEAN :
                                L!CommandLineParser(L!AfterExec(a, linux, TRUE, 0).relaunch, input.windows).urlCommand
                                    = IF linux THEN cmd.urlCommand ELSE ""

(* A thread update read back by ThreadUpdate::unserialize carries the     *)
(* parent topic that MessageParentTopic or TaskParentTopic::serialize     *)
(* wrote into it, field for field, and getChat answers the chat exactly   *)
(* for message topics; an update whose parentTopic has no type, or that   *)
(* has none, leaves the parent as it was (null here).                    *)
ThreadRoundTrip ==
    input.kind = "thread" =>
        LET u == T!ThreadUpdateUnserialize(input.coll, T!NoTopic)
        IN  /\ u.parent = input.topic
            /\ T!GetChat(u.parent) = IF input.topic.type = "message" THEN input.topic.chat ELSE ""
            /\ <<u.threadId, u.repliesCount, u.unreadMessages, u.isSubscriber>>
                 = <<UpdateFields.id, UpdateFields.repliesCount, UpdateFields.unreadMsg, UpdateFields.subscriber>>

(* The context menu destroys nothing the user has not confirmed: a call    *)
(* that removes, ignores, erases or deletes is made only by a command that *)
(* asks first and only on a yes, and a no makes no call at all; a confirmed *)
(* calls/remove deletes every message of the call; mark_unread on the      *)
(* open chat leaves and closes it before it marks it unread.              *)
DestroysOnlyOnConfirm ==
    input.kind = "popup" =>
        LET calls == P!PopupCalls(input.cmd, input.ctx, input.confirmed)
            made  == {calls[i].f : i \in 1..Len(calls)}
            asks  == input.cmd \in AskFirst
        IN  /\ made \cap DestructiveCalls # {} => asks /\ input.confirmed
            /\ asks /\ ~input.confirmed => calls = <<>>
            /\ input.cmd = "calls/remove" /\ input.confirmed =>
                  calls = [i \in 1..input.ctx.callMessages |-> P!Call("deleteMessages")]
            /\ input.cmd = "recents/mark_unread" =>
                  /\ calls[Len(calls)] = P!CallB("setAttention", TRUE)
                  /\ ("closeDialog" \in made <=> input.ctx.selected)

(* checkDesktopGl cleans up after a failure at any step: the context,     *)
(* the DC and the window are released exactly when they were obtained,    *)
(* each once, the current context is unbound before it is deleted and the *)
(* DC is released before its window is destroyed; desktop GL is reported  *)
(* only when no step failed.  (The registered class and the library are   *)
(* not freed on every path: see the hazards.)                              *)
GlCleanupMatchesAcquired ==
    input.kind = "gl" =>
        LET out == L!CheckDesktopGl(input.fail, input.shader)
            c   == out.cleanup
            at(x) == CHOOSE i \in 1..Len(c) : c[i] = x
        IN  /\ ("DeleteContext" \in Range(c)) = ("context" \in out.held)
            /\ ("ReleaseDC" \in Range(c)) = ("dc" \in out.held)
            /\ ("DestroyWindow" \in Range(c)) = ("wnd" \in out.held)
            /\ Len(c) = Cardinality(Range(c))
            /\ "current" \in out.held => at("MakeCurrentNull") < at("DeleteContext")
            /\ "dc" \in out.held => at("ReleaseDC") < at("DestroyWindow")
            /\ out.result => input.fail = 0

-----------------------------------------------------------------------------
Init == input \in Inputs
Next == \E i \in Inputs : input' = i
Spec == Init /\ [][Next]_input

=============================================================================

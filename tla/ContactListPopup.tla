--------------------------- MODULE ContactListPopup ---------------------------
(***************************************************************************)
(* The contact-list context menu (Logic::showContactListPopup,             *)
(* src/gui/main_window/contact_list/ContactListUtils.cpp).  The handler    *)
(* reads the command and contact from the triggered action, asks the      *)
(* models a few questions (ctx) and, for the commands that ask the user   *)
(* first, the answer of the confirmation (yes); its effect is the sequence *)
(* of calls it makes on the models, the dispatcher and InterConnector.     *)
(* Statistics posts are left out: no property is about them.  The branches *)
(* are two tables from command to calls, in source order.                  *)
(***************************************************************************)
EXTENDS Naturals, Sequences, TLC

(* A call made by the handler: the callee and its flag argument, if any. *)
Call(f)     == [f |-> f, b |-> FALSE]
CallB(f, b) == [f |-> f, b |-> b]

(* The calls of a branch that asks first: made only on a yes.             *)
IfYes(yes, calls) == IF yes THEN calls ELSE <<>>

(* mark_read clears the attention mark if the chat has one, else sends    *)
(* the last read; ignoreContactWithConfirm asks and ignores the contact   *)
(* on a yes; recents/remove asks, then hides the chat and removes the     *)
(* contact; mark_unread leaves and closes the dialog first when it is the *)
(* selected contact, then sets the attention mark; contacts/call starts a *)
(* call unless VoIP is stripped; contacts/spam removes the contact once   *)
(* ReportContact was confirmed.                                           *)
PopupBranchesA(ctx, yes) ==
       ("recents/mark_read" :> IF ctx.attention THEN <<CallB("setAttention", FALSE)>>
                                ELSE <<Call("sendLastRead")>>)
    @@ ("recents/mute" :> <<CallB("muteChat", TRUE)>>)
    @@ ("recents/unmute" :> <<CallB("muteChat", FALSE)>>)
    @@ ("contacts/ignore" :> IfYes(yes, <<Call("ignoreContact")>>))
    @@ ("recents/ignore" :> IfYes(yes, <<Call("ignoreContact")>>))
    @@ ("recents/close" :> <<Call("hideChat")>>)
    @@ ("recents/remove" :> IfYes(yes, <<Call("hideChat"), Call("removeContactFromCL")>>))
    @@ ("recents/mark_unread" :> (IF ctx.selected THEN <<Call("leave_dialog"), Call("closeDialog")>>
                                  ELSE <<>>) \o <<CallB("setAttention", TRUE)>>)
    @@ ("contacts/call" :> IF ctx.voip THEN <<Call("setStartCall")>> ELSE <<>>)
    @@ ("contacts/Profile" :> <<Call("profileSettingsShow")>>)
    @@ ("contacts/spam" :> IfYes(yes, <<Call("removeContactFromCL")>>))

(* Mutant: calls/remove deletes the call's messages whatever the answer.  *)
PopupBranchesB_DeleteUnasked(ctx, yes) ==
       ("contacts/remove" :> IfYes(yes, <<Call("removeContactFromCL")>>))
    @@ ("recents/favorite" :> <<CallB("pinContact", TRUE)>>)
    @@ ("recents/unfavorite" :> <<CallB("pinContact", FALSE)>>)
    @@ ("recents/mark_unimportant" :> IfYes(yes, <<Call("mark_unimportant")>>))
    @@ ("recents/remove_from_unimportant" :> <<Call("remove_from_unimportant")>>)
    @@ ("recents/clear_history" :> IfYes(yes, <<Call("eraseHistory")>>))
    @@ ("recents/report" :> IfYes(yes, <<CallB("ignoreContact", TRUE)>>))
    @@ ("calls/remove" :> [i \in 1..ctx.callMessages |-> Call("deleteMessages")])

(* contacts/remove asks, then removes the contact (or leaves the chat);   *)
(* favorite and unfavorite pin; mark_unimportant asks, then posts to the  *)
(* core; remove_from_unimportant posts at once; clear_history asks, then  *)
(* erases the history; recents/report ignores the contact once            *)
(* ReportContact was confirmed; calls/remove asks, then deletes each      *)
(* message of the call.                                                   *)
PopupBranchesB(ctx, yes) ==
       ("contacts/remove" :> IfYes(yes, <<Call("removeContactFromCL")>>))
    @@ ("recents/favorite" :> <<CallB("pinContact", TRUE)>>)
    @@ ("recents/unfavorite" :> <<CallB("pinContact", FALSE)>>)
    @@ ("recents/mark_unimportant" :> IfYes(yes, <<Call("mark_unimportant")>>))
    @@ ("recents/remove_from_unimportant" :> <<Call("remove_from_unimportant")>>)
    @@ ("recents/clear_history" :> IfYes(yes, <<Call("eraseHistory")>>))
    @@ ("recents/report" :> IfYes(yes, <<CallB("ignoreContact", TRUE)>>))
    @@ ("calls/remove" :> IfYes(yes, [i \in 1..ctx.callMessages |-> Call("deleteMessages")]))

(* showContactListPopup: the branch of the command; an unknown command    *)
(* does nothing.                                                          *)
PopupCalls(cmd, ctx, yes) ==
    LET branches == PopupBranchesA(ctx, yes) @@ PopupBranchesB(ctx, yes)
    IN  IF cmd \in DOMAIN branches THEN branches[cmd] ELSE <<>>

=============================================================================

-------------------------- MODULE MC_GeneralDialog --------------------------
(***************************************************************************)
(* Two dialogs, each able to be shown inside the other's exec:            *)
(*   d1  a confirmation: rejectable, with an animated semitransparent     *)
(*       window, a next button disabled on click, Escape ignored, and it  *)
(*       ignores close requests of kind i2;                               *)
(*   d2  a MultipleOptionsWidget chooser: not rejectable, no semiwindow   *)
(*       of its own (setStep(0) and show()), Enter ignored.               *)
(***************************************************************************)
EXTENDS GeneralDialog

CONSTANTS d1, d2, i1, i2

(* d1 has a confirm/cancel pair, d2 a cancel button (addCancelButton).  *)
MCButtons == (d1 :> "pair") @@ (d2 :> "cancel")
(* Another layout: d1 with addAcceptButton, d2 a pair that only reports *)
(* the click (neither acceptable nor rejectable).                      *)
MCButtonsAlt == (d1 :> "accept") @@ (d2 :> "pair")

MCDialogs == {d1, d2}
MCInfos == {i1, i2}
MCIgnoredInfos == (d1 :> {i2}) @@ (d2 :> {})
MCIgnoredKeys == (d1 :> {"Escape"}) @@ (d2 :> {"Enter"})

-----------------------------------------------------------------------------
(***************************************************************************)
(* The contact-list context menu composed with the dialogs: a command that *)
(* asks first shows its confirmation, d1, from the main loop               *)
(* (Utils::GetConfirmationWithTwoButtons: showInCenter on a new dialog)    *)
(* and the rest of the handler runs when that exec returns, acting on its  *)
(* return value.  Any dialog may also be shown by another owner, from the  *)
(* main loop or inside a running exec.  made: the calls the handler has   *)
(* made.                                                                   *)
(***************************************************************************)
VARIABLES pending, made

popupVars == <<pending, made>>

P == INSTANCE ContactListPopup

(* A chat that is not open, with a call of two messages.                  *)
PopupCtx == [attention |-> FALSE, selected |-> FALSE, voip |-> TRUE, callMessages |-> 2]
PopupCommandsMC == {"recents/remove", "recents/clear_history"}
(* The calls that remove or hide data on the server.                      *)
DestructiveCalls == {"ignoreContact", "removeContactFromCL", "mark_unimportant", "eraseHistory", "deleteMessages"}

PopupInit == Init /\ pending = "none" /\ made = <<>>

(* showContactListPopup up to the confirmation's exec.                   *)
PopupCommand(cmd) ==
    /\ loops = <<>> /\ pending = "none"
    /\ ShowInCenter(d1)
    /\ pending' = cmd
    /\ UNCHANGED made

(* An exec returns; if it is the confirmation's, showInCenter's result    *)
(* (false once the dialog was deleted) is the answer the handler acts on. *)
ExecReturnsPopup ==
    /\ ExecReturns
    /\ IF Top = d1 /\ pending # "none"
          THEN /\ made' = made \o P!PopupCalls(pending, PopupCtx,
                                    phase[d1] # "destroyed" /\ ReturnValue(d1) # "false")
               /\ pending' = "none"
          ELSE UNCHANGED popupVars

PopupNext ==
    \/ \E c \in PopupCommandsMC : PopupCommand(c)
    \/ ExecReturnsPopup
    \/ /\ \/ \E d \in Dialogs : ShowInCenter(d)
          \/ \E d \in Dialogs : Destroy(d)
          \/ KeyEscape \/ KeyEnter \/ ClickOutside \/ NextClick \/ LeftClick \/ OptionClicked
          \/ \E d \in Dialogs, b \in BOOLEAN : SetButtonActive(d, b)
          \/ \E i \in Infos : CloseAnyPopup(i)
          \/ ApplicationLocked
       /\ UNCHANGED popupVars

PopupSpec == PopupInit /\ [][PopupNext]_<<vars, popupVars>>

(* The context menu removes a contact, erases a history or deletes a call *)
(* only when the user said yes in that command's own confirmation: a       *)
(* destructive call is made only after the confirmation returned true      *)
(* through input to the confirmation itself.                               *)
DestructionConfirmedByUser ==
    (\E i \in 1..Len(made) : made[i].f \in DestructiveCalls) => returned[d1] = "self"

-----------------------------------------------------------------------------
(***************************************************************************)
(* The spell checking of a message text block (TextBlock), another GUI    *)
(* component that shares nothing with the dialogs.  The run explores      *)
(* either the dialogs or the text block (part), so that the two state     *)
(* graphs add up instead of multiplying.                                   *)
(*                                                                         *)
(* A mention whose friendly name is one word or two, so that a new name    *)
(* shifts the misspelled word to another (block, word) index; two units,  *)
(* three blockId_ values and two checks are enough for a check to be      *)
(* overtaken by a setText, a reinit and the block's deletion.             *)
(***************************************************************************)
VARIABLES block, textUnit, need, mention, units, nextUnit, counter, spellPending, checks,
          relayouts, errored, laidOut, part

textVars == <<block, textUnit, need, mention, units, nextUnit, counter, spellPending, checks, relayouts,
             errored, laidOut>>

MCParsed == ("Al" :> <<<<"Al", "teh">>>>) @@ ("Bo Bo" :> <<<<"Bo", "Bo">>, <<"teh">>>>)
MCMaxUnits == 2
MCMaxIds == 3
MCMaxChecks == 2

TB == INSTANCE TextBlock WITH pending <- spellPending, Friendlies <- DOMAIN MCParsed,
        Parsed <- MCParsed, Misspelled <- {"teh"}, MaxUnits <- MCMaxUnits, MaxIds <- MCMaxIds,
        MaxChecks <- MCMaxChecks, Correction <- "the"

(***************************************************************************)
(* The search headers of the contact list (SearchHeader), a third part:   *)
(* two categories, ContactsAndGroups fully visible at scroll values 0..1  *)
(* and Messages at 1..2, a scroll step of one unit, wheel deltas around   *)
(* the truncation edges of delta / 8 / 15, and two filter buttons, so     *)
(* that setChatNameFilter replaces one and the other is removed by its    *)
(* own button.                                                             *)
(***************************************************************************)
VARIABLES shown, hiddenCats, selected, signal, value, anim, filters, layout, dropped, nextBtn

searchVars == <<shown, hiddenCats, selected, signal, value, anim, filters, layout, dropped, nextBtn>>

MCCategories == {"ContactsAndGroups", "Messages"}
MCInView == ("ContactsAndGroups" :> 0..1) @@ ("Messages" :> 1..2)

SH == INSTANCE SearchHeader WITH Categories <- MCCategories, FirstCat <- "ContactsAndGroups",
        InView <- MCInView, MaxScroll <- 2, Step <- 1, Deltas <- {-240, -120, -119, 119, 120},
        MaxFilters <- 2

GuiInit == part \in {"dialogs", "text", "search"} /\ PopupInit /\ TB!Init /\ SH!Init

GuiNext ==
    \/ part = "dialogs" /\ PopupNext /\ UNCHANGED <<textVars, searchVars, part>>
    \/ part = "text" /\ TB!Next /\ UNCHANGED <<vars, popupVars, searchVars, part>>
    \/ part = "search" /\ SH!Next /\ UNCHANGED <<vars, popupVars, textVars, part>>

(* Only the text block's spellchecker answers and posted relayouts are    *)
(* fair (TextBlock!TextFairness); neither is ever enabled in another part. *)
GuiSpec == GuiInit /\ [][GuiNext]_<<vars, popupVars, textVars, searchVars, part>> /\ TB!TextFairness

(* Spell errors are shown only on misspelled words of the text a unit     *)
(* shows now, however stale hasMisspelling callbacks interleave with      *)
(* updateFriendly and reinit (TextBlock!SpellMarksCurrent).               *)
SpellMarksCurrent == TB!SpellMarksCurrent

(* setSpellErrorsVisible(false) leaves no marked word in the block's unit *)
(* (TextBlock!NoMarksWhenHidden).                                          *)
NoMarksWhenHidden == TB!NoMarksWhenHidden

(* A check that marked a word gets its relayout run unless the block is   *)
(* deleted first (TextBlock!MarkedCheckLaidOut).                           *)
MarkedCheckLaidOut == TB!MarkedCheckLaidOut

(* addFilter and removeFilter keep exactly the held "dialog" button laid  *)
(* out and every replaced or removed one deleted                           *)
(* (SearchHeader!FilterButtonsAccounted).                                  *)
FilterButtonsAccounted == SH!FilterButtonsAccounted
====

---------------------------- MODULE GeneralDialog ----------------------------
(***************************************************************************)
(* Ui::GeneralDialog (src/gui/controls/GeneralDialog.cpp): a modal dialog  *)
(* over a semitransparent window, run by showInCenter() in a nested event  *)
(* loop (QDialog::exec).  Several dialogs can be in exec at once, one      *)
(* inside the other: event loops unwind last-in first-out, and user input *)
(* reaches only the innermost dialog.                                      *)
(*                                                                         *)
(* Every dialog listens to three process-wide InterConnector signals:      *)
(* acceptGeneralDialog (emitted by MultipleOptionsWidget when an option is *)
(* clicked), closeAnySemitransparentWindow / closeAnyPopupWindow (only     *)
(* rejectable dialogs connect them) and applicationLocked.  The flag       *)
(* isActive() reports is a static member shared by all dialogs.            *)
(*                                                                         *)
(* QDialog's own behaviour: done(r) records the result, hides the dialog   *)
(* and exits its event loop; close() on a visible dialog rejects it;       *)
(* deleting a dialog in exec hides it, which ends its loop.                *)
(***************************************************************************)
EXTENDS Naturals, Sequences, SequencesExt

CONSTANTS
    Dialogs,         \* dialog objects
    Rejectable,      \* options_.rejectable_
    WithSemiwindow,  \* options_.withSemiwindow_
    IgnoreKeyPress,  \* options_.ignoreKeyPressEvents_
    Buttons,         \* Buttons[d]: how nextButton_ was made: "none", "accept"
                     \* (addAcceptButton), "cancel" (addCancelButton), "pair"
                     \* (addButtonsPair)
    AcceptOnRight,   \* addButtonsPair's _acceptable
    RejectOnLeft,    \* addButtonsPair's _rejectable
    DisableOnClick,  \* rightButtonDisableOnClicked_
    OptionDialogs,   \* dialogs whose main widget is a MultipleOptionsWidget
    Infos,           \* CloseWindowInfo values sent with close requests
    IgnoredInfos,    \* IgnoredInfos[d]: options_.ignoredInfos_
    IgnoredKeys,     \* IgnoredKeys[d] \subseteq {"Escape", "Enter"}: ignoredKeys_
    Destroyable      \* dialogs whose owner may delete them while they are in exec

VARIABLES
    phase,     \* "created", "exec" (loop running), "exiting" (done() called, loop
               \* not yet unwound), "returned", "destroyed"
    result,    \* QDialog::result(): "none", "accepted", "rejected"
    semi,      \* its semitransparent window is shown
    nextOn,    \* nextButton_ is enabled (FALSE when there is none)
    loops,     \* dialogs whose exec() is running, outermost first
    inExec,    \* GeneralDialog::inExec_
    returned,  \* what showInCenter() returned: "none", "false", or for true who
               \* had accepted the dialog at that moment ("self" or "other")
    acceptedBy \* since the result last became Accepted: "self" if input to this
               \* dialog accepted it, else "other"; "none" when not accepted

vars == <<phase, result, semi, nextOn, loops, inExec, returned, acceptedBy>>

Phases == {"created", "exec", "exiting", "returned", "destroyed"}

TypeOK ==
    /\ phase \in [Dialogs -> Phases]
    /\ result \in [Dialogs -> {"none", "accepted", "rejected"}]
    /\ semi \in [Dialogs -> BOOLEAN]
    /\ nextOn \in [Dialogs -> BOOLEAN]
    /\ loops \in Seq(Dialogs) /\ IsInjective(loops)
    /\ inExec \in BOOLEAN
    /\ returned \in [Dialogs -> {"none", "false", "self", "other"}]
    /\ acceptedBy \in [Dialogs -> {"none", "self", "other"}]

Alive(d) == phase[d] # "destroyed"
Top == loops[Len(loops)]
(* The dialog is a child of its semitransparent window, shown from        *)
(* showInCenter until done() or deletion hides it: isVisible().           *)
Shown(d) == phase[d] = "exec"
(* The modal dialog receiving input: the innermost one still shown.      *)
HasFocus == \E i \in DOMAIN loops : Shown(loops[i])
Focus == loops[CHOOSE i \in DOMAIN loops : Shown(loops[i]) /\ \A j \in i + 1..Len(loops) : ~Shown(loops[j])]
InLoop(d) == d \in Range(loops)

-----------------------------------------------------------------------------
(* QDialog::done(r) for each dialog of D (GeneralDialog::done first moves *)
(* the focus): record r, hide, exit the dialog's loop if it runs one.     *)
(* hideSemi: the dialogs of D whose semitransparent window is hidden by   *)
(* the same call.                                                         *)
DoneAll(D, r, hideSemi, by) ==
    /\ result' = [d \in Dialogs |-> IF d \in D THEN r ELSE result[d]]
    /\ phase' = [d \in Dialogs |-> IF d \in D /\ phase[d] = "exec" THEN "exiting" ELSE phase[d]]
    /\ semi' = [d \in Dialogs |-> IF d \in hideSemi THEN FALSE ELSE semi[d]]
    /\ acceptedBy' = [d \in Dialogs |-> IF d \notin D THEN acceptedBy[d]
                                         ELSE IF r # "accepted" THEN "none"
                                         ELSE IF acceptedBy[d] = "self" THEN "self" ELSE by[d]]

(* close() on the dialogs of D: QDialog::closeEvent rejects those shown. *)
CloseAll(D, by) == DoneAll({d \in D : Shown(d)}, "rejected", {}, by)

NoOne == [d \in Dialogs |-> "none"]
Self(t) == [d \in Dialogs |-> IF d = t THEN "self" ELSE "other"]

Init ==
    /\ phase = [d \in Dialogs |-> "created"]
    /\ result = [d \in Dialogs |-> "none"]
    /\ semi = [d \in Dialogs |-> FALSE]
    /\ nextOn = [d \in Dialogs |-> Buttons[d] # "none"]
    /\ loops = <<>>
    /\ inExec = FALSE
    /\ returned = [d \in Dialogs |-> "none"]
    /\ acceptedBy = [d \in Dialogs |-> "none"]

(* Mutant: showInCenter on a dialog that is already in exec.             *)
ShowInCenter_Reentered(d) ==
    /\ phase[d] \in {"created", "exec"}
    /\ phase' = [phase EXCEPT ![d] = "exec"]
    /\ semi' = [semi EXCEPT ![d] = TRUE]
    /\ inExec' = TRUE
    /\ loops' = Append(loops, d)
    /\ result' = [result EXCEPT ![d] = "none"]
    /\ acceptedBy' = [acceptedBy EXCEPT ![d] = "none"]
    /\ UNCHANGED <<nextOn, returned>>

(* showInCenter() up to exec(): show the semitransparent window (animated *)
(* or at once), show the dialog, set inExec_ and enter the loop, which    *)
(* clears the result.  It is called from the main loop or from inside     *)
(* the innermost running exec.                                            *)
ShowInCenter(d) ==
    /\ phase[d] = "created"
    /\ phase' = [phase EXCEPT ![d] = "exec"]
    /\ semi' = [semi EXCEPT ![d] = TRUE]
    /\ inExec' = TRUE
    /\ loops' = Append(loops, d)
    /\ result' = [result EXCEPT ![d] = "none"]
    /\ acceptedBy' = [acceptedBy EXCEPT ![d] = "none"]
    /\ UNCHANGED <<nextOn, returned>>

(* exec() == QDialog::Accepted, with who accepted.                        *)
ReturnValue(d) == IF result[d] = "accepted" THEN acceptedBy[d] ELSE "false"

(* Mutant: the semitransparent window is left as it is when exec returns. *)
ExecReturns_KeepSemi ==
    /\ loops # <<>> /\ phase[Top] \in {"exiting", "destroyed"}
    /\ loops' = Front(loops)
    /\ IF phase[Top] = "destroyed"
          THEN UNCHANGED <<phase, semi, inExec, returned>>
          ELSE /\ inExec' = FALSE
               /\ phase' = [phase EXCEPT ![Top] = "returned"]
               /\ returned' = [returned EXCEPT ![Top] = ReturnValue(Top)]
               /\ UNCHANGED semi
    /\ UNCHANGED <<result, nextOn, acceptedBy>>

(* The innermost loop has been told to exit: exec() returns, and the rest *)
(* of showInCenter runs: return false at once if the dialog was deleted   *)
(* (QPointer guard); otherwise clear inExec_, close() (already hidden),   *)
(* hide the semitransparent window, return result == Accepted.            *)
ExecReturns ==
    /\ loops # <<>> /\ phase[Top] \in {"exiting", "destroyed"}
    /\ loops' = Front(loops)
    /\ IF phase[Top] = "destroyed"
          THEN UNCHANGED <<phase, semi, inExec, returned>>
          ELSE /\ inExec' = FALSE
               /\ phase' = [phase EXCEPT ![Top] = "returned"]
               /\ semi' = [semi EXCEPT ![Top] = FALSE]
               /\ returned' = [returned EXCEPT ![Top] = ReturnValue(Top)]
    /\ UNCHANGED <<result, nextOn, acceptedBy>>

(* keyPressEvent on the dialog with focus: an ignored key does nothing;    *)
(* Escape closes; Enter accepts unless key presses are ignored or the     *)
(* next button is disabled.                                               *)
KeyEscape ==
    /\ HasFocus
    /\ "Escape" \notin IgnoredKeys[Focus]
    /\ CloseAll({Focus}, Self(Focus))
    /\ UNCHANGED <<nextOn, loops, inExec, returned>>

KeyEnter ==
    /\ HasFocus
    /\ "Enter" \notin IgnoredKeys[Focus]
    /\ Focus \notin IgnoreKeyPress /\ (Buttons[Focus] = "none" \/ nextOn[Focus])
    /\ DoneAll({Focus}, "accepted", {}, Self(Focus))
    /\ UNCHANGED <<nextOn, loops, inExec, returned>>

(* mousePressEvent outside mainHost_ of the focused dialog: a rejectable *)
(* dialog closes.                                                         *)
ClickOutside ==
    /\ HasFocus
    /\ Focus \in Rejectable
    /\ CloseAll({Focus}, Self(Focus))
    /\ UNCHANGED <<nextOn, loops, inExec, returned>>

(* A click on the enabled nextButton_ of the focused dialog; the queued   *)
(* slots run before the next input event.  addAcceptButton: accept();     *)
(* addCancelButton: reject(); addButtonsPair: rightButtonClick (disable    *)
(* the button if so configured, emit rightButtonClicked to the owner),     *)
(* then accept() if the pair is acceptable.                                *)
NextClick ==
    /\ HasFocus /\ nextOn[Focus]
    /\ CASE Buttons[Focus] = "accept" ->
              DoneAll({Focus}, "accepted", {}, Self(Focus)) /\ UNCHANGED nextOn
         [] Buttons[Focus] = "cancel" ->
              DoneAll({Focus}, "rejected", {}, NoOne) /\ UNCHANGED nextOn
         [] Buttons[Focus] = "pair" /\ Focus \in AcceptOnRight ->
              /\ nextOn' = [nextOn EXCEPT ![Focus] = Focus \notin DisableOnClick]
              /\ DoneAll({Focus}, "accepted", {}, Self(Focus))
         [] OTHER ->
              /\ nextOn' = [nextOn EXCEPT ![Focus] = Focus \notin DisableOnClick]
              /\ UNCHANGED <<phase, result, semi, acceptedBy>>
    /\ UNCHANGED <<loops, inExec, returned>>

(* The left button of a pair: leftButtonClick, then reject() if the pair  *)
(* is rejectable.                                                         *)
LeftClick ==
    /\ HasFocus /\ Buttons[Focus] = "pair" /\ Focus \in RejectOnLeft
    /\ DoneAll({Focus}, "rejected", {}, NoOne)
    /\ UNCHANGED <<nextOn, loops, inExec, returned>>

(* setButtonActive(b) by the owner, e.g. when the input becomes valid.    *)
SetButtonActive(d, b) ==
    /\ Alive(d) /\ Buttons[d] # "none" /\ nextOn[d] # b
    /\ nextOn' = [nextOn EXCEPT ![d] = b]
    /\ UNCHANGED <<phase, result, semi, loops, inExec, returned, acceptedBy>>

(* acceptDialog() on each dialog: hide its semitransparent window if it  *)
(* has one, QDialog::accept().                                            *)
AcceptDialogs(D, by) == DoneAll(D, "accepted", D \cap WithSemiwindow, by)

(* A click on an option of the focused dialog's MultipleOptionsWidget:  *)
(* selectedIndex_ is set and acceptGeneralDialog is emitted, which runs   *)
(* acceptDialog on every existing dialog.                                 *)
OptionClicked ==
    /\ HasFocus /\ Focus \in OptionDialogs
    /\ AcceptDialogs({d \in Dialogs : Alive(d)}, Self(Focus))
    /\ UNCHANGED <<nextOn, loops, inExec, returned>>

(* closeAnySemitransparentWindow / closeAnyPopupWindow(info): every        *)
(* rejectable dialog whose options do not ignore info runs                *)
(* rejectDialogInternal: hide the semitransparent window if any, reject.  *)
CloseAnyPopup(info) ==
    /\ LET D == {d \in Rejectable : Alive(d) /\ info \notin IgnoredInfos[d]}
       IN  DoneAll(D, "rejected", D \cap WithSemiwindow, NoOne)
    /\ UNCHANGED <<nextOn, loops, inExec, returned>>

(* applicationLocked: close() on every existing dialog.                   *)
ApplicationLocked ==
    /\ CloseAll({d \in Dialogs : Alive(d)}, NoOne)
    /\ UNCHANGED <<nextOn, loops, inExec, returned>>

(* The owner deletes a dialog while it is in exec: the destructor closes  *)
(* the semitransparent window; hiding the dialog ends its loop.           *)
Destroy(d) ==
    /\ d \in Destroyable /\ phase[d] \in {"exec", "exiting"}
    /\ phase' = [phase EXCEPT ![d] = "destroyed"]
    /\ semi' = [semi EXCEPT ![d] = FALSE]
    /\ UNCHANGED <<result, nextOn, loops, inExec, returned, acceptedBy>>

Next ==
    \/ \E d \in Dialogs : ShowInCenter(d) \/ Destroy(d)
    \/ ExecReturns
    \/ KeyEscape \/ KeyEnter \/ ClickOutside \/ NextClick \/ LeftClick \/ OptionClicked
    \/ \E d \in Dialogs, b \in BOOLEAN : SetButtonActive(d, b)
    \/ \E i \in Infos : CloseAnyPopup(i)
    \/ ApplicationLocked

Spec == Init /\ [][Next]_vars

-----------------------------------------------------------------------------
(***************************************************************************)
(* Properties                                                              *)
(***************************************************************************)

(* A semitransparent window is shown only while its dialog's exec() is    *)
(* running: every way out (accept, reject, close, deletion, and the tail  *)
(* of showInCenter) leaves no overlay behind once the loop has unwound.    *)
SemiWindowOnlyInExec == \A d \in Dialogs : semi[d] => InLoop(d)

(* isActive() (inExec_) is true exactly while some dialog is in exec().   *)
ActiveMeansInExec == inExec = (loops # <<>>)
====

----------------------------- MODULE SearchHeader -----------------------------
(***************************************************************************)
(* The search headers of the contact list                                  *)
(* (src/gui/main_window/contact_list/ContactListUtils.cpp):                *)
(*   - GlobalSearchViewHeader: one SearchCategoryButton per category in a  *)
(*     horizontal scroll area; a category is selected programmatically or  *)
(*     clicked (which only emits categorySelected), categories are hidden  *)
(*     and shown again by reset(), the wheel scrolls the bar by an         *)
(*     animation;                                                          *)
(*   - DialogSearchViewHeader: at most one "dialog" SearchFilterButton per *)
(*     name, replaced by setChatNameFilter and removed by its own button.  *)
(* All on the GUI thread.  The scroll bar value is abstracted to a few     *)
(* positions; a category's button is fully visible in an interval of them. *)
(***************************************************************************)
EXTENDS Integers, FiniteSets

CONSTANTS
    Categories,  \* SearchCategory values, in the order of buttons_
    FirstCat,    \* ContactsAndGroups, the first entry of buttons_
    InView,      \* InView[c]: scroll values at which c's button is fully visible
    MaxScroll,   \* the scroll bar's maximum (its minimum is 0)
    Step,        \* viewRect.width() / 20 in scroll units
    Deltas,      \* wheel angle deltas the mouse may report
    MaxFilters   \* bound: SearchFilterButtons created in one behaviour

ASSUME /\ FirstCat \in Categories
       /\ InView \in [Categories -> SUBSET (0..MaxScroll)]
       /\ Deltas \subseteq Int /\ MaxFilters \in Nat

VARIABLES
    shown,       \* the header is shown (isVisible of a child needs it)
    hiddenCats,  \* categories whose button got setVisible(false)
    selected,    \* categories whose button has selected_ set
    signal,      \* the last categorySelected emitted, or "none"
    value,       \* the horizontal scroll bar's value
    anim,        \* animScroll_: running, and its end value
    filters,     \* filters_["dialog"]: 0 (null) or the button
    layout,      \* filter buttons in the header's layout
    dropped,     \* filter buttons given to deleteLater
    nextBtn      \* the next SearchFilterButton to be created

shVars == <<shown, hiddenCats, selected, signal, value, anim, filters, layout, dropped, nextBtn>>

Btns == 1..MaxFilters

TypeOK ==
    /\ shown \in BOOLEAN
    /\ hiddenCats \subseteq Categories
    /\ selected \subseteq Categories
    /\ signal \in Categories \cup {"none"}
    /\ value \in 0..MaxScroll
    /\ anim \in [running: BOOLEAN, end: 0..MaxScroll]
    /\ filters \in {0} \cup Btns
    /\ layout \subseteq Btns /\ dropped \subseteq Btns
    /\ nextBtn \in 1..(MaxFilters + 1)

(* QWidget::isVisible of a category button.                              *)
IsVisible(c) == shown /\ c \notin hiddenCats

(* C++ integer division, truncating toward zero.                          *)
Quot(a, b) == IF a >= 0 THEN a \div b ELSE -((-a) \div b)

(* QScrollArea::ensureWidgetVisible: the bar moves to the nearest value   *)
(* at which the button is fully visible, if it is not already.           *)
EnsureVisible(v, c) ==
    IF v \in InView[c] THEN v
    ELSE CHOOSE w \in InView[c] : \A x \in InView[c] : (w - v) * (w - v) <= (x - v) * (x - v)

-----------------------------------------------------------------------------
(* GlobalSearchViewHeader::selectCategory: unless it is a click, every    *)
(* button is selected exactly when it is the category's; the category's   *)
(* button is scrolled into view; a click emits categorySelected.          *)
SelectCategory(c, type) ==
    /\ selected' = IF type = "click" THEN selected ELSE {c}
    /\ value' = EnsureVisible(value, c)
    /\ signal' = IF type = "click" THEN c ELSE signal

(* The search widget selects a category (SelectType other than Click).   *)
Select(c) ==
    /\ SelectCategory(c, "programmatic")
    /\ UNCHANGED <<shown, hiddenCats, anim, filters, layout, dropped, nextBtn>>

(* GlobalSearchViewHeader::onCategoryClicked: a visible button was        *)
(* clicked; its category is selected as a click.                          *)
CategoryClicked(c) ==
    /\ IsVisible(c)
    /\ SelectCategory(c, "click")
    /\ UNCHANGED <<shown, hiddenCats, anim, filters, layout, dropped, nextBtn>>

(* GlobalSearchViewHeader::setCategoryVisible.                            *)
SetCategoryVisible(c, v) ==
    /\ hiddenCats' = IF v THEN hiddenCats \ {c} ELSE hiddenCats \cup {c}
    /\ UNCHANGED <<shown, selected, signal, value, anim, filters, layout, dropped, nextBtn>>

(* GlobalSearchViewHeader::reset: every button visible again, then        *)
(* selectFirstVisible: the first button that isVisible() is selected; none *)
(* is while the header itself is not shown.                               *)
Reset ==
    /\ hiddenCats' = {}
    /\ IF shown THEN SelectCategory(FirstCat, "programmatic")
       ELSE UNCHANGED <<selected, value, signal>>
    /\ UNCHANGED <<shown, anim, filters, layout, dropped, nextBtn>>

(* The parent shows or hides the header.                                  *)
SetShown(b) ==
    /\ shown' = b
    /\ UNCHANGED <<hiddenCats, selected, signal, value, anim, filters, layout, dropped, nextBtn>>

(* GlobalSearchViewHeader::scrollStep: from the current value one step    *)
(* towards the end of the bar, clamped; the running animation is stopped   *)
(* and restarted from the current value.                                  *)
ScrollStep(dir) ==
    LET to == IF dir = "right" THEN IF value + Step < MaxScroll THEN value + Step ELSE MaxScroll
              ELSE IF value < Step THEN 0 ELSE value - Step
    IN  anim' = [running |-> TRUE, end |-> to]

(* GlobalSearchViewHeader::wheelEvent: delta / 8 degrees, / 15 steps      *)
(* (truncated); no step, no scroll; a positive step scrolls left.        *)
Wheel(delta) ==
    LET steps == Quot(Quot(delta, 8), 15)
    IN  /\ steps # 0
        /\ ScrollStep(IF steps > 0 THEN "left" ELSE "right")
        /\ UNCHANGED <<shown, hiddenCats, selected, signal, value, filters, layout, dropped, nextBtn>>

(* A tick of the animation sets the scroll bar value one unit closer to   *)
(* its end; it stops there.                                               *)
AnimTick ==
    /\ anim.running
    /\ value' = IF value < anim.end THEN value + 1 ELSE IF value > anim.end THEN value - 1 ELSE value
    /\ anim' = [anim EXCEPT !.running = value' # anim.end]
    /\ UNCHANGED <<shown, hiddenCats, selected, signal, filters, layout, dropped, nextBtn>>

-----------------------------------------------------------------------------
(* DialogSearchViewHeader::removeFilter("dialog"): a button held under the *)
(* name leaves the layout and is given to deleteLater; the entry becomes  *)
(* null.  The layout and the dropped buttons after it:                    *)
LayoutAfterRemove  == IF filters # 0 THEN layout \ {filters} ELSE layout
DroppedAfterRemove == IF filters # 0 THEN dropped \cup {filters} ELSE dropped

(* Mutant: addFilter does not remove the button held under the name.    *)
AddFilter_NoRemove(b) ==
    /\ filters' = b
    /\ layout' = layout \cup {b}
    /\ UNCHANGED dropped

(* DialogSearchViewHeader::addFilter: the old button of the name is        *)
(* removed, then the new one is held and laid out.                        *)
AddFilter(b) ==
    /\ filters' = b
    /\ layout' = LayoutAfterRemove \cup {b}
    /\ dropped' = DroppedAfterRemove

(* DialogSearchViewHeader::setChatNameFilter: a new SearchFilterButton,   *)
(* whose removeClicked is connected to removeChatNameFilter, is added.    *)
SetChatNameFilter ==
    /\ nextBtn <= MaxFilters
    /\ nextBtn' = nextBtn + 1
    /\ AddFilter(nextBtn)
    /\ UNCHANGED <<shown, hiddenCats, selected, signal, value, anim>>

(* The remove button of the filter button b in the layout is clicked:     *)
(* onRemoveClicked emits removeClicked, and removeChatNameFilter removes   *)
(* the "dialog" filter (b is deleted later, not inside its own slot) and   *)
(* emits contactFilterRemoved.                                             *)
RemoveClicked(b) ==
    /\ b \in layout
    /\ filters' = 0
    /\ layout' = LayoutAfterRemove
    /\ dropped' = DroppedAfterRemove
    /\ UNCHANGED <<shown, hiddenCats, selected, signal, value, anim, nextBtn>>

-----------------------------------------------------------------------------
(* After the constructors: buttons_ built with nothing selected, since     *)
(* selectFirstVisible finds no visible button in a header not yet shown;   *)
(* no animation, no filter.                                                *)
Init ==
    /\ shown = FALSE /\ hiddenCats = {} /\ selected = {} /\ signal = "none"
    /\ value = 0 /\ anim = [running |-> FALSE, end |-> 0]
    /\ filters = 0 /\ layout = {} /\ dropped = {} /\ nextBtn = 1

Next ==
    \/ \E c \in Categories : Select(c) \/ CategoryClicked(c)
    \/ \E c \in Categories, v \in BOOLEAN : SetCategoryVisible(c, v)
    \/ Reset
    \/ \E b \in BOOLEAN : SetShown(b)
    \/ \E d \in Deltas : Wheel(d)
    \/ AnimTick
    \/ SetChatNameFilter
    \/ \E b \in Btns : RemoveClicked(b)

Spec == Init /\ [][Next]_shVars

-----------------------------------------------------------------------------
(* addFilter and removeFilter keep one button per name: the layout holds  *)
(* exactly the button held in filters_, and every other button ever made  *)
(* was given to deleteLater, never twice laid out.                        *)
FilterButtonsAccounted ==
    /\ layout = IF filters = 0 THEN {} ELSE {filters}
    /\ \A b \in 1..(nextBtn - 1) : b \notin layout <=> b \in dropped

=============================================================================

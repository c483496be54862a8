------------------------------ MODULE TextBlock ------------------------------
(***************************************************************************)
(* Spell checking of a message text (Ui::ComplexMessage::TextBlock,        *)
(* src/gui/main_window/history_control/complex_message/TextBlock.cpp, over *)
(* Ui::TextRendering::TextUnit, src/gui/controls/TextUnit.cpp).            *)
(*                                                                         *)
(* A TextBlock owns one TextUnit (textUnit_), which it replaces on every   *)
(* reinit.  TextUnit::startSpellChecking asks the spellchecker about every *)
(* word and leaves one callback per word with it; a callback captures the  *)
(* unit's blockId_, the block and word index and the word's text, and runs *)
(* later, after any number of reinits, text changes and the block's own   *)
(* destruction.  All of this runs on the GUI thread: a callback is one     *)
(* atomic step.  The text a unit shows is a sequence of blocks of words,   *)
(* given per friendly name of the mention in the message (Parsed); a word *)
(* replaced by replaceWordAt shows Correction instead.  ActualGuard and    *)
(* the spellchecker are outside src/: whether the guard is still actual is *)
(* a free choice.                                                          *)
(***************************************************************************)
EXTENDS Naturals, Sequences, FiniteSets

CONSTANTS
    Friendlies,  \* friendly names the mention of the message can have
    Parsed,      \* Parsed[f]: the blocks of words of the text under friendly f
    Misspelled,  \* the words the spellchecker reports as misspelled
    MaxUnits,    \* bound: TextUnit objects created in one behaviour
    MaxIds,      \* bound: values the static counter() hands out
    MaxChecks,   \* bound: TextUnit::startSpellChecking calls
    Correction   \* the word a spelling suggestion puts in place of another

ASSUME /\ Parsed \in [Friendlies -> Seq(Seq(STRING))]
       /\ \A f \in Friendlies : Parsed[f] # <<>>
       /\ MaxUnits \in Nat \ {0} /\ MaxIds \in Nat /\ MaxChecks \in Nat

VARIABLES
    block,      \* the TextBlock: "unborn", "alive", or "deleted" (QPointers null)
    textUnit,   \* textUnit_: 0 (null) or the index of the unit it owns
    need,       \* needSpellCheck_
    mention,    \* the friendly name in the parent message's mentions
    units,      \* units[u]: the u-th TextUnit created
    nextUnit,   \* index of the next TextUnit to be created
    counter,    \* the static counter behind blockId_
    pending,    \* hasMisspelling callbacks the spellchecker still holds
    checks,     \* TextUnit::startSpellChecking calls so far
    relayouts,  \* checks whose relayout is posted with Async::runInMain, not yet run
    errored,    \* checks whose ActualGuard got setError
    laidOut     \* history: checks whose relayout ran on a live block

tbVars == <<block, textUnit, need, mention, units, nextUnit, counter, pending, checks, relayouts,
           errored, laidOut>>

UnitIds == 1..MaxUnits

(* A TextUnit: alive until its owner drops it, its blockId_, the friendly *)
(* name of its mentions_, the (block, word) indexes marked as spell      *)
(* errors, and those replaced by replaceWordAt since the text was parsed  *)
(* from the block's source.                                               *)
Unit == [alive: BOOLEAN, id: 0..MaxIds, friendly: Friendlies, marks: SUBSET (Nat \X Nat),
         fixed: SUBSET (Nat \X Nat)]

NoUnit == [alive |-> FALSE, id |-> 0, friendly |-> CHOOSE f \in Friendlies : TRUE, marks |-> {},
           fixed |-> {}]

(* A hasMisspelling callback: the unit (this, guarded by weak), the id, *)
(* blockIdx and wordIdx it captured, the word's text and its check.       *)
Callback == [unit: UnitIds, id: 0..MaxIds, blockIdx: Nat, wordIdx: Nat, text: STRING,
             check: 1..MaxChecks]

TypeOK ==
    /\ block \in {"unborn", "alive", "deleted"}
    /\ textUnit \in {0} \cup UnitIds
    /\ need \in BOOLEAN
    /\ mention \in Friendlies
    /\ units \in [UnitIds -> Unit \cup {NoUnit}]
    /\ nextUnit \in 1..(MaxUnits + 1)
    /\ counter \in 0..MaxIds
    /\ pending \subseteq Callback
    /\ checks \in 0..MaxChecks
    /\ relayouts \subseteq 1..MaxChecks
    /\ errored \subseteq 1..MaxChecks /\ laidOut \subseteq 1..MaxChecks

(* The (block, word) indexes of a text.                                   *)
WordsOf(t) == UNION {{<<b, w>> : w \in 1..Len(t[b])} : b \in 1..Len(t)}

(* The text unit x shows: its parse, with the replaced words corrected.   *)
TextOf(x) ==
    LET t == Parsed[x.friendly]
    IN  [b \in 1..Len(t) |-> [w \in 1..Len(t[b]) |->
            IF <<b, w>> \in x.fixed THEN Correction ELSE t[b][w]]]

-----------------------------------------------------------------------------
(* TextUnit::startSpellChecking on unit u with blockId_ id and text t:    *)
(* one hasMisspelling request per word, all sharing the    *)
(* ActualGuard of this call.                                              *)
StartSpellCheckingUnit(u, id, t) ==
    /\ checks < MaxChecks
    /\ checks' = checks + 1
    /\ pending' = pending \cup
          {[unit |-> u, id |-> id, blockIdx |-> bw[1], wordIdx |-> bw[2],
            text |-> t[bw[1]][bw[2]], check |-> checks + 1] : bw \in WordsOf(t)}

(* The same call skipped: no unit, or ComplexMessageItem::isSpellCheckIsOn *)
(* is false.                                                              *)
NoSpellCheck == UNCHANGED <<pending, checks>>

(* TextBlock::startSpellChecking after needSpellCheck_ is set, for the     *)
(* unit u (with blockId_ id and text t) that textUnit_ then holds.        *)
SpellCheckUnitIfOn(u, id, t) ==
    IF u = 0 THEN NoSpellCheck
    ELSE \/ StartSpellCheckingUnit(u, id, t)
         \/ NoSpellCheck

(* The unit u is destroyed (u = 0: a null textUnit_, nothing happens).    *)
Drop(us, u) == IF u = 0 THEN us ELSE [us EXCEPT ![u].alive = FALSE]

(* TextBlock::initTextUnit: MakeTextUnit builds a new unit from the source *)
(* text and the parent's mentions (blockId_ from counter()); assigning it  *)
(* to textUnit_ destroys the old unit; then startSpellCheckingIfNeeded,    *)
(* with needSpellCheck_ = n.                                               *)
InitTextUnit(n) ==
    /\ nextUnit <= MaxUnits /\ counter < MaxIds
    /\ units' = [Drop(units, textUnit) EXCEPT
                     ![nextUnit] = [alive |-> TRUE, id |-> counter + 1, friendly |-> mention,
                                    marks |-> {}, fixed |-> {}]]
    /\ textUnit' = nextUnit
    /\ nextUnit' = nextUnit + 1
    /\ counter' = counter + 1
    /\ IF n THEN SpellCheckUnitIfOn(nextUnit, counter + 1, Parsed[mention]) ELSE NoSpellCheck

(* TextBlock::startSpellChecking (called by the message item).            *)
StartSpellChecking ==
    /\ block = "alive"
    /\ need' = TRUE
    /\ IF textUnit = 0 THEN NoSpellCheck
       ELSE SpellCheckUnitIfOn(textUnit, units[textUnit].id, TextOf(units[textUnit]))
    /\ UNCHANGED <<block, textUnit, mention, units, nextUnit, counter, relayouts, errored, laidOut>>

(* Mutant: the flag is stored but the unit is not rebuilt.              *)
SetSpellErrorsVisible_NoReinit(v) ==
    /\ block = "alive"
    /\ need # v
    /\ need' = v
    /\ UNCHANGED <<block, mention, relayouts, errored, laidOut, units, textUnit, nextUnit, counter, pending, checks>>

(* TextBlock::setSpellErrorsVisible: when the flag changes, reinit (a new  *)
(* unit, checked again only if the flag is now set).                       *)
SetSpellErrorsVisible(v) ==
    /\ block = "alive"
    /\ need # v
    /\ need' = v
    /\ InitTextUnit(v)
    /\ UNCHANGED <<block, mention, relayouts, errored, laidOut>>

(* TextBlock::updateStyle and updateFonts: reinit.                         *)
UpdateStyle ==
    /\ block = "alive"
    /\ InitTextUnit(need)
    /\ UNCHANGED <<block, need, mention, relayouts, errored, laidOut>>

(* TextUnit::setTextAndMentions on unit u: the mentions are replaced and   *)
(* setText reparses the text into new blocks (no marks) under a new        *)
(* blockId_ from counter().                                                *)
SetTextAndMentions(u, f) ==
    /\ counter < MaxIds
    /\ counter' = counter + 1
    /\ units' = [units EXCEPT ![u].id = counter + 1, ![u].friendly = f, ![u].marks = {},
                              ![u].fixed = {}]

(* The parent message learns a new friendly name f for the mention and    *)
(* calls TextBlock::updateFriendly: when the unit shows another name, the  *)
(* unit's text is set again and startSpellCheckingIfNeeded runs.          *)
UpdateFriendly(f) ==
    /\ block = "alive"
    /\ mention' = f
    /\ IF textUnit # 0 /\ units[textUnit].friendly # f
          THEN /\ SetTextAndMentions(textUnit, f)
               /\ IF need THEN SpellCheckUnitIfOn(textUnit, counter + 1, Parsed[f]) ELSE NoSpellCheck
          ELSE UNCHANGED <<units, counter, pending, checks>>
    /\ UNCHANGED <<block, textUnit, need, nextUnit, relayouts, errored, laidOut>>

(* TextBlock::replaceWordAt: a spelling suggestion is taken for the word  *)
(* at a point of the unit (TextUnit::getWordAt finds the word bw there);  *)
(* TextUnit::replaceWordAt splices Correction into the unit's source and  *)
(* calls setText, which reparses it under a new blockId_ from counter()   *)
(* (no word marked) and starts no spell check.  The block's own source    *)
(* text is left as it was.                                                *)
ReplaceWordAt(bw) ==
    /\ block = "alive" /\ textUnit # 0
    /\ bw \in WordsOf(TextOf(units[textUnit]))
    /\ counter < MaxIds
    /\ counter' = counter + 1
    /\ units' = [units EXCEPT ![textUnit].id = counter + 1, ![textUnit].marks = {},
                              ![textUnit].fixed = @ \cup {bw}]
    /\ UNCHANGED <<block, textUnit, need, mention, nextUnit, pending, checks, relayouts, errored,
                   laidOut>>

(* The message item deletes the block, and with it its unit.              *)
DestroyBlock ==
    /\ block = "alive"
    /\ block' = "deleted"
    /\ units' = Drop(units, textUnit)
    /\ UNCHANGED <<textUnit, need, mention, nextUnit, counter, pending, checks, relayouts, errored, laidOut>>


(* The TextBlock constructor: TextBlock::init builds the unit unless the  *)
(* parent message is headless (textUnit_ stays null).                     *)
Construct(headless) ==
    /\ block = "unborn"
    /\ block' = "alive"
    /\ IF headless THEN UNCHANGED <<units, textUnit, nextUnit, counter, pending, checks>>
       ELSE InitTextUnit(need)
    /\ UNCHANGED <<need, mention, relayouts, errored, laidOut>>

(* Mutant: the callback keeps only the lock, isAlive and range checks.   *)
SpellCallback_NoStaleCheck(c, actual) ==
    LET u == units[c.unit]
        text == TextOf(u)
    IN  /\ c.text \in Misspelled /\ actual
        /\ u.alive
        /\ block = "alive" /\ textUnit # 0
        /\ c.blockIdx <= Len(text) /\ c.wordIdx <= Len(text[c.blockIdx])

(* The hasMisspelling callback of TextUnit::startSpellChecking, true when *)
(* it marks its word: the word is misspelled and the guard still actual;  *)
(* the unit still exists (weak.lock), its blockId_ is the captured one,    *)
(* the block's isAlive holds (the TextBlock and its textUnit_ exist), the  *)
(* indexes are in range, and the word there has the captured text.        *)
SpellCallback(c, actual) ==
    LET u == units[c.unit]
        text == TextOf(u)
    IN  /\ c.text \in Misspelled /\ actual
        /\ u.alive
        /\ c.id = u.id
        /\ block = "alive" /\ textUnit # 0
        /\ c.blockIdx <= Len(text) /\ c.wordIdx <= Len(text[c.blockIdx])
        /\ text[c.blockIdx][c.wordIdx] = c.text

(* Mutant: onFinish reads the guard's error before the last callback's   *)
(* own setError.                                                          *)
SpellAnswer_ResultBeforeLastError(c) ==
    /\ pending' = pending \ {c}
    /\ \E actual \in BOOLEAN :
          /\ units' = IF SpellCallback(c, actual)
                         THEN [units EXCEPT ![c.unit].marks = @ \cup {<<c.blockIdx, c.wordIdx>>}]
                         ELSE units
          /\ errored' = IF SpellCallback(c, actual) THEN errored \cup {c.check} ELSE errored
    /\ IF \E d \in pending' : d.check = c.check
          THEN UNCHANGED relayouts
          ELSE relayouts' = IF c.check \in errored /\ block = "alive"
                              THEN relayouts \cup {c.check} ELSE relayouts
    /\ UNCHANGED <<block, textUnit, need, mention, nextUnit, counter, checks, laidOut>>

(* The spellchecker answers the request of callback c and drops it.  A   *)
(* callback that marks its word sets the guard's error.  When the last    *)
(* callback of a check is gone, the ActualGuard calls the block's          *)
(* onFinish, which posts a relayout to the main thread if the result is    *)
(* set and the block still exists.  The result is taken to be whether any  *)
(* callback of the check called setError (ActualGuard is outside src/).   *)
SpellAnswer(c) ==
    /\ pending' = pending \ {c}
    /\ \E actual \in BOOLEAN :
          /\ units' = IF SpellCallback(c, actual)
                         THEN [units EXCEPT ![c.unit].marks = @ \cup {<<c.blockIdx, c.wordIdx>>}]
                         ELSE units
          /\ errored' = IF SpellCallback(c, actual) THEN errored \cup {c.check} ELSE errored
    /\ IF \E d \in pending' : d.check = c.check
          THEN UNCHANGED relayouts
          ELSE relayouts' = IF c.check \in errored' /\ block = "alive"
                              THEN relayouts \cup {c.check} ELSE relayouts
    /\ UNCHANGED <<block, textUnit, need, mention, nextUnit, counter, checks, laidOut>>

(* The posted relayout runs: if the block and its textUnit_ still exist,   *)
(* the unit's height is recomputed and the block marked dirty; nothing the *)
(* model keeps changes.                                                   *)
RunRelayout(k) ==
    /\ k \in relayouts
    /\ relayouts' = relayouts \ {k}
    /\ laidOut' = IF block = "alive" /\ textUnit # 0 THEN laidOut \cup {k} ELSE laidOut
    /\ UNCHANGED <<block, textUnit, need, mention, units, nextUnit, counter, pending, checks,
                   errored>>

-----------------------------------------------------------------------------
(* needSpellCheck_ starts with the value its declaration gives (the header *)
(* is outside src/): either.                                               *)
Init ==
    /\ block = "unborn"
    /\ textUnit = 0
    /\ need \in BOOLEAN
    /\ mention \in Friendlies
    /\ units = [u \in UnitIds |-> NoUnit]
    /\ nextUnit = 1
    /\ counter = 0
    /\ pending = {}
    /\ checks = 0
    /\ relayouts = {}
    /\ errored = {} /\ laidOut = {}

Next ==
    \/ \E h \in BOOLEAN : Construct(h)
    \/ StartSpellChecking
    \/ \E v \in BOOLEAN : SetSpellErrorsVisible(v)
    \/ UpdateStyle
    \/ \E f \in Friendlies : UpdateFriendly(f)
    \/ \E bw \in UNION {WordsOf(Parsed[f]) : f \in Friendlies} : ReplaceWordAt(bw)
    \/ DestroyBlock
    \/ \E c \in pending : SpellAnswer(c)
    \/ \E k \in relayouts : RunRelayout(k)

(* The spellchecker answers every request it was given, and the main     *)
(* thread runs every task posted to it; the user's and the message item's *)
(* steps get no fairness.                                                  *)
TextFairness ==
    /\ WF_tbVars(\E c \in pending : SpellAnswer(c))
    /\ WF_tbVars(\E k \in relayouts : RunRelayout(k))

Spec == Init /\ [][Next]_tbVars /\ TextFairness

-----------------------------------------------------------------------------
(***************************************************************************)
(* Properties                                                              *)
(***************************************************************************)

(* A spell error is shown only where the text has a misspelled word: in    *)
(* every existing unit, each marked (block, word) index is a word of the   *)
(* text the unit shows now and that word is misspelled, however the        *)
(* callbacks of earlier checks interleave with setText (a new friendly     *)
(* name reparses the text and shifts the words) and reinit.               *)
SpellMarksCurrent ==
    \A u \in UnitIds :
        units[u].alive =>
            \A m \in units[u].marks :
                /\ m \in WordsOf(TextOf(units[u]))
                /\ TextOf(units[u])[m[1]][m[2]] \in Misspelled

(* Hiding spell errors hides them: while the block exists with a unit and  *)
(* needSpellCheck_ is off, that unit has no word marked, whatever checks   *)
(* were still running when setSpellErrorsVisible(false) was called.        *)
NoMarksWhenHidden ==
    block = "alive" /\ textUnit # 0 /\ ~need => units[textUnit].marks = {}

(* A spell error found is eventually drawn: once a callback of check k   *)
(* has marked a word, the block recomputes its layout for k (onFinish of  *)
(* the last callback posts it, the main thread runs it), unless the block *)
(* is deleted first, however the answers of k's words are ordered.       *)
MarkedCheckLaidOut ==
    \A k \in 1..MaxChecks : k \in errored ~> (k \in laidOut \/ block = "deleted")

=============================================================================

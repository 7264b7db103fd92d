------------------------------ MODULE Dialogs -------------------------------
(***************************************************************************)
(* Dialogs and menus of the user interface.                                *)
(***************************************************************************)
EXTENDS Integers, Sequences, FiniteSets, SequencesExt

-----------------------------------------------------------------------------
(***************************************************************************)
(* Modal dialogs and keyboard focus: the dialogs of the shell (ui/b/       *)
(* shell.vue async_modal_dialog(), ui/b/dialog.vue), the FocusGuard that   *)
(* confines the focus to the dialog opened last, keyboard navigation,      *)
(* hotkeys and the dialog that assigns shortcuts (ui/kbd.js).              *)
(*                                                                         *)
(* An element that can take the focus is <<container, number>>, container  *)
(* being "page" or a dialog; Body stands for no focus.  focus() dispatches *)
(* focusin synchronously, so the guard's reaction is part of every action  *)
(* that moves the focus.                                                   *)
(***************************************************************************)

CONSTANTS DialogIds,      \* the dialogs, opened once each
          Autofocus,      \* dialogs with an [autofocus] button
          ShortcutDialog, \* the dialog of shortcut_dialog()
          DocumentOrder,  \* all elements in document order
          Place,          \* [element -> <<x, y>>] on the screen
          TextInputs      \* elements with inner navigation, other than buttons

VARIABLES
  stage,      \* [DialogIds -> "none", "listed", "shown", "hidden" or "gone"]
  unfocused,  \* dialogs whose autofocus is to be handled in the next tick
  roots,      \* FocusGuard.focus_root_list: [root, saved], newest first
  active,     \* activeElement()
  last_focus, \* FocusGuard.last_focus
  origin,     \* element with focus when the first of the open dialogs was shown
  capturing,  \* shortcut_keydown() is installed
  next,       \* shortcut_keydown_hotkey.next
  assigned    \* shortcut_map: shortcuts assigned so far, 0 or 1 of them

dialogVars == <<stage, unfocused, roots, active, last_focus, origin, capturing, next, assigned>>
focusVars == <<roots, active, last_focus>>
shortcutVars == <<capturing, next, assigned>>

Body == <<"body", 0>>
Elements == ToSet(DocumentOrder)
Keys == {"Escape", "Enter", "Hotkey", "START", "END", "UP", "DOWN", "LEFT", "RIGHT"}

DialogTypeOK ==
  /\ stage \in [DialogIds -> {"none", "listed", "shown", "hidden", "gone"}]
  /\ unfocused \subseteq DialogIds
  /\ active \in Elements \union {Body} /\ last_focus \in Elements \union {Body}
  /\ capturing \in BOOLEAN /\ next \in Keys \union {""}

\* check_visibility(): a closed dialog stays visible during its transition.
Visible(e) == e[1] \in DialogIds => stage[e[1]] \in {"shown", "hidden"}

\* list_focusables() below `root', "body" being the whole document.
list_focusables(root) ==
  SelectSeq(DocumentOrder, LAMBDA e : Visible(e) /\ (root = "body" \/ e[1] = root))

\* Array.indexOf(), 0 if there is none.
indexOf(list, e) == IF Contains(list, e) THEN CHOOSE i \in DOMAIN list : list[i] = e ELSE 0

(***************************************************************************)
(* FocusGuard                                                              *)
(***************************************************************************)

\* The focus after the guard refused an element: the first of the root's
\* elements, or the last one if the focus was in its first half.
Refocused(list, rs) ==
  LET lastidx == indexOf(list, last_focus)
      new == IF lastidx > 0 /\ 2 * (lastidx - 1) < Len(list) THEN Len(list) ELSE 1
  IN [active |-> list[new], last |-> list[new], roots |-> rs]

\* focus() on e, with focus_changed() as focusin handler: without focus
\* roots the guard does nothing, otherwise only elements of the newest one
\* keep the focus.

Focused(e, rs) ==
  IF e = Body \/ ~Visible(e) THEN [active |-> active, last |-> last_focus, roots |-> rs]
  ELSE IF rs = <<>> THEN [active |-> e, last |-> last_focus, roots |-> rs]
  ELSE LET list == list_focusables(rs[1].root)
       IN IF Contains(list, e) THEN [active |-> e, last |-> e, roots |-> rs]
          ELSE IF list = <<>> THEN [active |-> Body, last |-> last_focus, roots |-> rs]
          ELSE Refocused(list, rs)

SetFocus(f) == active' = f.active /\ last_focus' = f.last /\ roots' = f.roots

\* push_focus_root(): the focus is saved, and taken away without refocus
\* from an element outside of the new root.
push_focus_root(d) ==
  /\ roots' = <<[root |-> d, saved |-> active]>> \o roots
  /\ active' = IF active[1] = d THEN active ELSE Body
  /\ last_focus' = IF active[1] = d THEN active ELSE last_focus

\* remove_focus_root(): the newest entry of d is removed and its saved
\* focus restored, if there was one.

remove_focus_root(d) ==
  LET i == CHOOSE n \in DOMAIN roots : roots[n].root = d
  IN SetFocus(Focused(roots[i].saved, RemoveAt(roots, i)))

\* The closest element on the left or right of list[idx], by row first.
Sideways(list, idx, dir) ==
  LET at(i) == Place[list[i]]
      dx(i) == IF dir = "RIGHT" THEN at(i)[1] - at(idx)[1] ELSE at(idx)[1] - at(i)[1]
      dy(i) == IF at(i)[2] > at(idx)[2] THEN at(i)[2] - at(idx)[2] ELSE at(idx)[2] - at(i)[2]
      side == {i \in DOMAIN list : dx(i) > 0}
      nearer(i, j) == dy(i) < dy(j) \/ (dy(i) = dy(j) /\ (dx(i) < dx(j) \/ (dx(i) = dx(j) /\ i < j)))
  IN IF side = {} THEN 0 ELSE CHOOSE i \in side : \A j \in side \ {i} : nearer(i, j)

\* The element that move_focus() picks: UP and DOWN return to the last
\* element with focus if there is none now, and cycle otherwise.
NextFocus(dir) ==
  LET list == list_focusables("body")
      n == Len(list)
      idx == indexOf(list, active)
      pos == CASE idx = 0 /\ dir \in {"UP", "DOWN"} /\ indexOf(list, last_focus) > 0 -> indexOf(list, last_focus)
               [] idx = 0 -> IF dir \in {"DOWN", "START"} THEN 1 ELSE n
               [] dir = "START" -> 1
               [] dir = "END" -> n
               [] dir = "UP" -> IF idx = 1 THEN n ELSE idx - 1
               [] dir = "DOWN" -> IF idx = n THEN 1 ELSE idx + 1
               [] dir \in {"LEFT", "RIGHT"} -> Sideways(list, idx, dir)
               [] OTHER -> 0
  IN IF pos = 0 THEN Body ELSE list[pos]

move_focus(dir) == SetFocus(Focused(NextFocus(dir), roots))

(***************************************************************************)
(* Dialogs                                                                 *)
(***************************************************************************)

\* async_modal_dialog() appends the dialog and shows it after a timeout.
Open(d) ==
  /\ stage[d] = "none"
  /\ stage' = [stage EXCEPT ![d] = "listed"]
  /\ UNCHANGED <<unfocused, focusVars, origin, shortcutVars>>

\* The timeout makes the dialog visible; updated() of dialog.vue sets up
\* the shield and asks for focus with move_focus('HOME'), which is no
\* direction of move_focus(); an autofocus element is handled a tick later.
\* div_handler() of the shortcut dialog installs its key handler.
Show(d) ==
  /\ stage[d] = "listed"
  /\ stage' = [stage EXCEPT ![d] = "shown"]
  /\ push_focus_root(d)
  /\ origin' = IF roots = <<>> THEN active ELSE origin
  /\ unfocused' = IF d \in Autofocus THEN unfocused \union {d} ELSE unfocused
  /\ capturing' = (capturing \/ d = ShortcutDialog)
  /\ UNCHANGED <<next, assigned>>

next_tick_autofocus(d) ==
  /\ d \in unfocused
  /\ unfocused' = unfocused \ {d}
  /\ IF stage[d] = "shown" THEN SetFocus(Focused(<<d, 1>>, roots)) ELSE UNCHANGED focusVars
  /\ UNCHANGED <<stage, origin, shortcutVars>>

\* The rest of shortcut_dialog() after the dialog returned r: its key
\* handler is gone, and OK, button 2, assigns the key recorded last.
shortcut_dialog(r) ==
  /\ capturing' = FALSE /\ next' = ""
  /\ assigned' = IF r = 2 /\ next # "" THEN <<next>> ELSE assigned

\* input(false) with result r, by a button, Escape or a click on the
\* shield: the promise is resolved, and in the following update undo_shield()
\* removes the focus root.
Close(d, r) ==
  /\ stage[d] = "shown"
  /\ stage' = [stage EXCEPT ![d] = "hidden"]
  /\ remove_focus_root(d)
  /\ IF d = ShortcutDialog THEN shortcut_dialog(r) ELSE UNCHANGED shortcutVars
  /\ UNCHANGED <<unfocused, origin>>

\* A click on a button of the newest dialog.
ClickButton ==
  \E i \in DOMAIN DocumentOrder :
    LET e == DocumentOrder[i]
    IN roots # <<>> /\ e[1] = roots[1].root /\ Close(e[1], e[2])

\* modal_mouse_guard(): a click anywhere else closes the newest dialog.
ClickShield == roots # <<>> /\ Close(roots[1].root, -1)

\* The entry is removed after the transition, with the dialog's elements.
Drop(d) ==
  /\ stage[d] = "hidden"
  /\ stage' = [stage EXCEPT ![d] = "gone"]
  /\ active' = IF active[1] = d THEN Body ELSE active
  /\ UNCHANGED <<unfocused, roots, last_focus, origin, shortcutVars>>

(***************************************************************************)
(* Input                                                                   *)
(***************************************************************************)

\* Tab, a script or, without dialogs, a click gives any element the focus.
BrowserFocus(e) ==
  /\ Visible(e) /\ e # active
  /\ SetFocus(Focused(e, roots))
  /\ UNCHANGED <<stage, unfocused, origin, shortcutVars>>

\* is_nav_input(): text inputs and the like need the keys themselves.
is_nav_input(e) == e \in TextInputs

\* hotkey_handler(): elements with inner navigation take precedence, and no
\* hotkey is activated while there is a focus root.  The hotkey of the
\* model opens a dialog.
hotkey_handler ==
  /\ ~is_nav_input(active) /\ roots = <<>>
  /\ \E d \in DialogIds : Open(d)

\* shortcut_keydown(): the key is recorded and goes no further.
shortcut_keydown(key) ==
  /\ capturing /\ key # "Enter"
  /\ next' = key
  /\ UNCHANGED <<stage, unfocused, focusVars, origin, capturing, assigned>>

\* keydown_move_focus(), called by elements of the page for themselves and
\* by the guard if there is no focus.
keydown_move_focus(key) ==
  /\ active[1] \notin DialogIds
  /\ move_focus(key)
  /\ UNCHANGED <<stage, unfocused, origin, shortcutVars>>

\* The other handlers of a key: Escape closes the dialog with the focus,
\* Enter clicks the button with the focus, navigation keys move the focus.
keydown(key) ==
  /\ capturing => key = "Enter"
  /\ CASE key = "Escape" -> active[1] \in DialogIds /\ Close(active[1], -1)
       [] key = "Enter" -> active[1] \in DialogIds /\ Close(active[1], active[2])
       [] key = "Hotkey" -> FALSE
       [] OTHER -> keydown_move_focus(key)

\* forget_focus() of an element that is removed.
forget_focus(e) ==
  /\ last_focus = e /\ e # Body /\ last_focus' = Body
  /\ UNCHANGED <<stage, unfocused, roots, active, origin, shortcutVars>>

DialogInit ==
  /\ stage = [d \in DialogIds |-> "none"] /\ unfocused = {}
  /\ roots = <<>> /\ active \in {Body} \union {e \in Elements : e[1] = "page"}
  /\ last_focus = active /\ origin = Body
  /\ capturing = FALSE /\ next = "" /\ assigned = <<>>

DialogNext ==
  \/ \E d \in DialogIds : Open(d)
  \/ \E d \in DialogIds : Show(d)
  \/ \E d \in DialogIds : next_tick_autofocus(d)
  \/ \E d \in DialogIds : Drop(d)
  \/ ClickButton \/ ClickShield
  \/ \E e \in Elements : BrowserFocus(e)
  \/ \E e \in Elements : forget_focus(e)
  \/ hotkey_handler
  \/ \E key \in Keys : shortcut_keydown(key)
  \/ \E key \in Keys : keydown(key)

DialogSpec == DialogInit /\ [][DialogNext]_dialogVars

(***************************************************************************)
(* Properties.                                                             *)
(***************************************************************************)

\* While dialogs are open the focus is nowhere else than in the newest one
\* (kbd.js push_focus_root(): "Constrain focus to `element` and its
\* descendants"), whatever keys, late autofocus and closing dialogs do; a
\* dialog that is being closed may keep it until it is gone.
FocusConfined ==
  roots # <<>> /\ active # Body =>
    active[1] = roots[1].root \/ (active[1] # "page" /\ stage[active[1]] = "hidden")

\* When the last dialog is closed, the element of the page that had the
\* focus before the first one was shown has it again (remove_focus_root()).
FocusReturns ==
  [][roots # <<>> /\ roots' = <<>> /\ origin[1] = "page" => active' = origin]_dialogVars

-----------------------------------------------------------------------------
(***************************************************************************)
(* A context menu (ui/b/contextmenu.js): popup and activation at most once *)
(* per animation frame, items that are enabled by asynchronous isactive()  *)
(* checks, a modal <dialog> that closes itself (ui/dom.js show_modal())    *)
(* and fires its close event as a task of its own, and the items' hotkeys, *)
(* which work without the menu being open.                                 *)
(***************************************************************************)

CONSTANTS Items,      \* menu items with uri and kbd attributes
          MaxPopups,  \* bound: successful calls of popup()
          MaxEdits    \* bound: changes of the items or of what isactive() says

VARIABLES
  open,        \* dialog.open
  closing,     \* the dialog's close event is queued
  outside_,    \* show_modal(): the pointer went down on the backdrop
  emit_close,  \* BContextMenu.emit_close_
  stamped,     \* menudata.menu_stamp is the current frame's stamp
  isactive,    \* [Items -> BOOLEAN], what isactive() would say now
  checks,      \* isactive() results under way to toggle_active_children()
  checked,     \* the result asked for by the popup done last
  disabled,    \* [Items -> BOOLEAN], the [disabled] attributes
  present,     \* items in the document
  mutated,     \* the MutationObserver's debounced callback is pending
  keymap,      \* entries of keymap_, registered with add_keymap()
  keymap_active,
  popups, closes, activations, edits \* counters, activations within one frame

menuVars == <<open, closing, outside_, emit_close, stamped, isactive, checks, checked, disabled,
              present, mutated, keymap, keymap_active, popups, closes, activations, edits>>
dialogState == <<open, closing, outside_>>
itemState == <<isactive, checks, checked>>
keymapState == <<present, mutated, keymap, keymap_active>>

MenuTypeOK ==
  /\ open \in BOOLEAN /\ closing \in BOOLEAN /\ emit_close \in Nat
  /\ disabled \in [Items -> BOOLEAN] /\ isactive \in [Items -> BOOLEAN]
  /\ keymap \subseteq Items /\ present \subseteq Items

toggle_force_children(enabled) == disabled' = [i \in Items |-> ~enabled]

\* A close event is a task queued before whatever the user does next.
UserTurn == ~closing

\* popup(): a duplicate request within a frame or with the menu open is
\* dropped; items are disabled until isactive() has been evaluated.
popup ==
  /\ UserTurn /\ popups < MaxPopups
  /\ ~open /\ ~stamped
  /\ toggle_force_children(FALSE)
  /\ checks' = Append(checks, isactive) /\ checked' = isactive
  /\ stamped' = TRUE
  /\ emit_close' = emit_close + 1
  /\ open' = TRUE /\ outside_' = FALSE
  /\ popups' = popups + 1
  /\ UNCHANGED <<closing, isactive, keymapState, closes, activations, edits>>

\* The rest of toggle_active_children() when the checks are through.
toggle_active_children ==
  /\ checks # <<>>
  /\ disabled' = [i \in Items |-> ~Head(checks)[i]]
  /\ checks' = Tail(checks)
  /\ UNCHANGED <<dialogState, emit_close, stamped, isactive, checked, keymapState,
                 popups, closes, activations, edits>>

\* close(): a dialog that is open closes, and the menu's close event is
\* emitted once per popup.
Emitted == IF emit_close > 0 THEN 1 ELSE 0

close ==
  /\ open' = FALSE
  /\ toggle_force_children(TRUE)
  /\ emit_close' = emit_close - Emitted
  /\ closes' = closes + Emitted

\* The dialog's close event calls close() again.
CloseEvent ==
  /\ closing /\ closing' = FALSE
  /\ close
  /\ UNCHANGED <<outside_, stamped, itemState, keymapState, popups, activations, edits>>

\* click() of an item, by pointer or by its hotkey: one activation per
\* frame, none by disabled items.
click(i) ==
  /\ UserTurn
  /\ ~disabled[i] /\ ~stamped
  /\ stamped' = TRUE
  /\ activations' = activations + 1
  /\ close /\ closing' = open
  /\ UNCHANGED <<outside_, itemState, keymapState, popups, edits>>

ClickItem(i) == open /\ i \in present /\ click(i)
Hotkey(i) == i \in keymap /\ click(i)

\* Escape, handled by the browser.
Escape ==
  /\ UserTurn /\ open
  /\ open' = FALSE /\ closing' = TRUE
  /\ UNCHANGED <<outside_, emit_close, stamped, itemState, disabled, keymapState,
                 popups, closes, activations, edits>>

\* show_modal(): a press on the backdrop, and only with it the release
\* there, closes the dialog.
pointerdown_ ==
  /\ UserTurn /\ open
  /\ outside_' \in BOOLEAN
  /\ UNCHANGED <<open, closing, emit_close, stamped, itemState, disabled, keymapState,
                 popups, closes, activations, edits>>

pointerup_ ==
  /\ UserTurn /\ open /\ outside_
  /\ \E released_outside \in BOOLEAN :
       /\ open' = ~released_outside /\ closing' = released_outside
       /\ outside_' = released_outside
  /\ UNCHANGED <<emit_close, stamped, itemState, disabled, keymapState,
                 popups, closes, activations, edits>>

\* frame_stamp() is a new one from the next animation frame on.
Frame ==
  /\ stamped \/ activations > 0
  /\ stamped' = FALSE /\ activations' = 0
  /\ UNCHANGED <<dialogState, emit_close, itemState, disabled, keymapState, popups, closes, edits>>

\* map_kbd_hotkeys(): the entries of the items present are registered anew.
map_kbd_hotkeys(activate) ==
  /\ keymap_active' = activate
  /\ keymap' = IF activate THEN present ELSE {}

SetHotkeys ==
  /\ UserTurn
  /\ map_kbd_hotkeys(~keymap_active)
  /\ UNCHANGED <<dialogState, emit_close, stamped, itemState, disabled, present, mutated,
                 popups, closes, activations, edits>>

\* An item is added or removed; the observer sees it.
Mutate ==
  /\ edits < MaxEdits /\ edits' = edits + 1
  /\ \E i \in Items : present' = IF i \in present THEN present \ {i} ELSE present \union {i}
  /\ mutated' = TRUE
  /\ UNCHANGED <<dialogState, emit_close, stamped, itemState, disabled, keymap, keymap_active,
                 popups, closes, activations>>

\* The observer's callback.
integrate_children ==
  /\ mutated /\ mutated' = FALSE
  /\ map_kbd_hotkeys(keymap_active)
  /\ UNCHANGED <<dialogState, emit_close, stamped, itemState, disabled, present,
                 popups, closes, activations, edits>>

\* What isactive() says depends on the application.
ActiveChanges ==
  /\ edits < MaxEdits /\ edits' = edits + 1
  /\ \E i \in Items : isactive' = [isactive EXCEPT ![i] = ~@]
  /\ UNCHANGED <<dialogState, emit_close, stamped, checks, checked, disabled, keymapState,
                 popups, closes, activations>>

MenuInit ==
  /\ open = FALSE /\ closing = FALSE /\ outside_ = FALSE /\ emit_close = 0 /\ stamped = FALSE
  /\ isactive = [i \in Items |-> TRUE] /\ checks = <<>> /\ checked = isactive
  /\ disabled = [i \in Items |-> FALSE]
  /\ present = Items /\ mutated = FALSE /\ keymap = {} /\ keymap_active = FALSE
  /\ popups = 0 /\ closes = 0 /\ activations = 0 /\ edits = 0

MenuNext ==
  \/ popup \/ toggle_active_children \/ CloseEvent
  \/ \E i \in Items : ClickItem(i)
  \/ \E i \in Items : Hotkey(i)
  \/ Escape \/ pointerdown_ \/ pointerup_ \/ Frame
  \/ SetHotkeys \/ Mutate \/ integrate_children \/ ActiveChanges

MenuSpec == MenuInit /\ [][MenuNext]_menuVars

(***************************************************************************)
(* Properties.                                                             *)
(***************************************************************************)

\* Once a menu is closed, one close event was emitted for each popup,
\* although close() runs again with the dialog's own event; an open menu
\* whose checks are through shows the result of its own popup and not of an
\* earlier one; items are activated at most once per frame; and hotkeys
\* that are in effect belong to items of the menu.
MenuConsistent ==
  /\ ~open /\ ~closing => emit_close = 0 /\ closes = popups
  /\ open /\ checks = <<>> => disabled = [i \in Items |-> ~checked[i]]
  /\ activations <= 1
  /\ ~mutated => keymap = IF keymap_active THEN present ELSE {}
=============================================================================

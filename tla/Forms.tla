-------------------------------- MODULE Forms --------------------------------
(***************************************************************************)
(* One graphical program: its loop (Runtime_sdk/*.c), the SDK's controls   *)
(* (Runtime_sdk/sdk), and the window manager and controls underneath them  *)
(* (gui), which the source calls "kernel".  Both layers are linked into    *)
(* the program and hold a record of every control; a click goes to the     *)
(* lower layer first and then, on its own, to the SDK.  Here the two       *)
(* records of a control are one, with the fields of the lower one named    *)
(* k...  A text is counted in lines of one character, a list in rows, and  *)
(* a coordinate is the control, and the part of it, that lies under it.    *)
(* One label stands for all the labels of a form.  Left out: geometry,     *)
(* drawing, hovering (a kState of 0 stands for every value of State but 2, *)
(* Pressed), and the rings of click events that nobody reads.              *)
(***************************************************************************)
EXTENDS Integers

CONSTANTS
  FirstText,   \* characters in a memo's first buffer (2048)
  FirstItems,  \* rows in a list's first array (32)
  Lines,       \* lines that a memo shows
  TextBound, ScrollBound, ItemBound  \* bounds on the runs only

ASSUME FormsAssumption ==
  /\ {FirstText, FirstItems, Lines} \subseteq Nat \ {0}
  /\ {TextBound, ScrollBound, ItemBound} \subseteq Nat

VARIABLES
  prog,           \* the program that runs
  pc,             \* where its loop stands
  open,           \* is_active of its slot
  visible,        \* Visible of its form
  hadFocus,       \* ultimo_estado_foco ("first" before the first turn)
  redraw,         \* precisa_redesenhar
  inStack,        \* its form is in window_stack (and is then g_active)
  dragging,       \* dragging of wm.c
  moved,          \* its form has left the origin
  buttons,        \* last_buttons
  at,             \* the place clicked, until the SDK has seen it
  timer,          \* mouse_hold_timer
  focused,        \* g_focused_control
  ActiveFocus,    \* the control that the SDK gives the keys to
  ctl,            \* both records of every control
  typed           \* the terminal: cmd_idx > 0

window == <<prog, open, visible, hadFocus>>
manager == <<inStack, dragging, moved, buttons>>
vars == <<window, pc, redraw, manager, at, timer, focused, ActiveFocus, ctl, typed>>

----------------------------------------------------------------------------
(* The controls as the lower layer makes them, and then the SDK.            *)

None == "none"

gui_create_button == [kState |-> 0]
gui_create_label == [kState |-> 0]
gui_create_checkbox == [kChecked |-> FALSE]
gui_create_radio == [kChecked |-> FALSE]
gui_create_edit == [kState |-> 0, kCaption |-> FALSE]
gui_create_combobox == [kState |-> 0, kCaption |-> None]
gui_create_memo == [kState |-> 0, kTextPointer |-> 0, kScrollY |-> 0]
gui_create_scrollbar == [kState |-> 0]
gui_create_listview ==
  [kState |-> 0, kItems |-> 0, kItemCount |-> 0, kItemIndex |-> -1]

Pressed == 2
Level(state) == IF state = Pressed THEN Pressed ELSE 0

\* gui_set_prop: what the SDK writes into the lower layer.  It writes the STATE
\* of lists alone, which is their number of rows and, as for every control, the
\* State that a press sets to Pressed.
gui_set_prop(r, prop, value) ==
  CASE prop = "CAPTION" /\ r.type = "memo" -> [r EXCEPT !.kTextPointer = value]
    [] prop = "CAPTION" /\ r.type = "list" -> [r EXCEPT !.kItems = value]
    [] prop = "CAPTION" /\ r.type \in {"edit", "combo"} -> [r EXCEPT !.kCaption = value]
    [] prop = "SCROLL_Y" -> [r EXCEPT !.kScrollY = value]
    [] prop = "STATE" -> [r EXCEPT !.kState = Level(value), !.kItemCount = value]
    [] prop = "ITEM_INDEX" -> [r EXCEPT !.kItemIndex = value]

GUI_CreateButton == [type |-> "button", kState |-> gui_create_button.kState]
GUI_CreateLabel == [type |-> "label", kState |-> gui_create_label.kState]
GUI_CreateScrollBar == [type |-> "scrollbar", kState |-> gui_create_scrollbar.kState]
GUI_CreateCheckBox ==
  [type |-> "checkbox", Checked |-> FALSE, kChecked |-> gui_create_checkbox.kChecked]
GUI_CreateRadioButton ==
  [type |-> "radio", Checked |-> FALSE, kChecked |-> gui_create_radio.kChecked]

\* text: whether there is any.
GUI_CreateEdit(text) ==
  LET k == gui_create_edit
  IN gui_set_prop([type |-> "edit", Text |-> text, kState |-> k.kState,
                   kCaption |-> k.kCaption], "CAPTION", text)

\* The caption is written when the first item comes, and shows the index.
GUI_CreateComboBox ==
  LET k == gui_create_combobox
  IN gui_set_prop([type |-> "combo", ItemIndex |-> 0, ItemCount |-> 2, kState |-> k.kState,
                   kCaption |-> k.kCaption], "CAPTION", 0)

GUI_CreateMemo ==
  LET k == gui_create_memo
  IN gui_set_prop([type |-> "memo", Buffer |-> 1, AllocatedSize |-> FirstText,
                   TextLength |-> 0, ScrollY |-> 0, kState |-> k.kState,
                   kTextPointer |-> k.kTextPointer, kScrollY |-> k.kScrollY], "CAPTION", 1)

\* room: the rows that the array really has.
GUI_CreateListView ==
  LET k == gui_create_listview
  IN gui_set_prop([type |-> "list", LVItems |-> 1, room |-> FirstItems,
                   LVAllocatedItems |-> FirstItems, LVItemCount |-> 0, LVItemIndex |-> -1,
                   kState |-> k.kState, kItems |-> k.kItems, kItemCount |-> k.kItemCount,
                   kItemIndex |-> k.kItemIndex], "CAPTION", 1)

----------------------------------------------------------------------------
(* The programs' forms.                                                     *)

Temp ==
  [Label |-> GUI_CreateLabel, ExeButton |-> GUI_CreateButton,
   ExeEdit |-> GUI_CreateEdit(TRUE), ExeComboBox |-> GUI_CreateComboBox, ExeCheckBox |-> GUI_CreateCheckBox,
   ExeRadio1 |-> GUI_CreateRadioButton, ExeRadio2 |-> GUI_CreateRadioButton,
   CloseButton |-> GUI_CreateButton, ExeMemo |-> GUI_CreateMemo]
Gfile ==
  [Label |-> GUI_CreateLabel, PathEdit |-> GUI_CreateEdit(TRUE),
   GoButton |-> GUI_CreateButton, FileList |-> GUI_CreateListView,
   VScrollBar |-> GUI_CreateScrollBar, ActionEdit |-> GUI_CreateEdit(FALSE),
   BtnRename |-> GUI_CreateButton, BtnDel |-> GUI_CreateButton,
   BtnCopy |-> GUI_CreateButton, ExecEdit |-> GUI_CreateEdit(FALSE),
   BtnExecutar |-> GUI_CreateButton]
Serial ==
  [Label |-> GUI_CreateLabel, btnOpen |-> GUI_CreateButton, btnWrite |-> GUI_CreateButton,
   btnRead |-> GUI_CreateButton, btnClose |-> GUI_CreateButton,
   editCmd |-> GUI_CreateEdit(TRUE), cbBaud |-> GUI_CreateComboBox,
   memoRx |-> GUI_CreateMemo]
Tarefa ==
  [BtnAtualizar |-> GUI_CreateButton, ExeMemo |-> GUI_CreateMemo,
   BtnKillUnico |-> GUI_CreateButton, EditPID |-> GUI_CreateEdit(FALSE),
   BtnExecutar |-> GUI_CreateButton, EditPath |-> GUI_CreateEdit(FALSE)]
Gpci ==
  [BtnEscanear |-> GUI_CreateButton, Label |-> GUI_CreateLabel,
   DevMemo |-> GUI_CreateMemo]
Terminal == [Label |-> GUI_CreateLabel, TerminalMemo |-> GUI_CreateMemo]

Layout == [temp |-> Temp, gfile |-> Gfile, serial |-> Serial,
           tarefa |-> Tarefa, gpci |-> Gpci, terminal |-> Terminal]
Programs == DOMAIN Layout
Controls == DOMAIN ctl
Nowhere == [control |-> None, part |-> 0]

\* Where a click can land: the title bar, its [X], the bare form, outside the
\* form (the Explorer repeats a click while the button is held), or a control.
Bare == {"title", "close", "form", "outside"}

----------------------------------------------------------------------------
(* The SDK's operations on texts and lists, as sets of outcomes: realloc    *)
(* keeps the block, moves it, or fails.                                     *)

Moved == {1, 2}

\* Mutant: the pointer of the lower layer is not set again.
Mut_AddChar(m) ==
  IF m.TextLength + 2 >= m.AllocatedSize
  THEN {m} \cup {[m EXCEPT !.TextLength = @ + 1, !.AllocatedSize = 2 * @, !.Buffer = b] : b \in Moved}
  ELSE {[m EXCEPT !.TextLength = @ + 1]}

AddChar(m) ==
  LET full == m.TextLength + 2 >= m.AllocatedSize
      room == IF full THEN {[m EXCEPT !.AllocatedSize = 2 * @, !.Buffer = b] : b \in Moved}
              ELSE {m}
  IN (IF full THEN {m} ELSE {})
     \cup {gui_set_prop([r EXCEPT !.TextLength = @ + 1], "CAPTION", r.Buffer) : r \in room}

Backspace(m) ==
  gui_set_prop([m EXCEPT !.TextLength = IF @ > 0 THEN @ - 1 ELSE 0], "CAPTION", m.Buffer)

\* GUI_Memo_Clear leaves the lower layer with a constant "" (0) for its text.
Clear(m) ==
  gui_set_prop(gui_set_prop([m EXCEPT !.TextLength = 0, !.ScrollY = 0], "CAPTION", 0),
               "SCROLL_Y", 0)

SetScroll(m, y) ==
  LET s == IF y < 0 THEN 0 ELSE y IN gui_set_prop([m EXCEPT !.ScrollY = s], "SCROLL_Y", s)

\* The controls F, each with a line more in memo m.
Say(F, m) == UNION {{[f EXCEPT ![m] = r] : r \in AddChar(f[m])} : f \in F}

\* LVAllocatedItems is doubled before realloc is asked, and stays so if it fails.
AddItem(l) ==
  LET full == l.LVItemCount >= l.LVAllocatedItems
      more == [l EXCEPT !.LVAllocatedItems = 2 * @]
      grown(b) == gui_set_prop([more EXCEPT !.room = more.LVAllocatedItems, !.LVItems = b],
                               "CAPTION", b)
      room == IF full THEN {grown(b) : b \in Moved} ELSE {l}
  IN (IF full THEN {more} ELSE {})
     \cup {gui_set_prop([r EXCEPT !.LVItemCount = @ + 1], "STATE", r.LVItemCount + 1) : r \in room}

ClearList(l) ==
  gui_set_prop(gui_set_prop([l EXCEPT !.LVItemCount = 0, !.LVItemIndex = -1], "STATE", 0),
               "ITEM_INDEX", -1)

\* The items of a directory; a list that is overrun (see Overrun) gets no more.
Listed(l) ==
  LET listed[n \in 0..ItemBound] ==
        IF n = 0 THEN {l}
        ELSE UNION {AddItem(r) : r \in {s \in listed[n - 1] : s.LVItemCount <= s.room}}
  IN UNION {listed[n] : n \in 0..ItemBound}

SetText(f, e, text) ==
  [f EXCEPT ![e] = gui_set_prop([@ EXCEPT !.Text = text], "CAPTION", text)]

\* Carregar_Diretorio: the path falls back to 0:/ when there is no such directory.
Loaded(f) ==
  UNION {{[g EXCEPT !.FileList = l] : g \in {f, SetText(f, "PathEdit", TRUE)}} :
         l \in Listed(ClearList(f.FileList))}

\* An item has been written past the end of the array: no promise after that.
Overrun(f) == \E c \in DOMAIN f : f[c].type = "list" /\ f[c].LVItemCount > f[c].room

----------------------------------------------------------------------------
(* What each program does with a click on control c, the controls being f   *)
(* by then: ctl', open' and visible'.                                       *)

Stays(F) == ctl' \in F /\ UNCHANGED <<open, visible>>
Closed == open' = FALSE /\ visible' = FALSE     \* Tratar_Fechamento_Software

TempOnClick(f, c) ==
  LET said == Say({f}, "ExeMemo")
  IN \/ c = "ExeButton" /\ Stays(IF f.ExeEdit.kCaption THEN Say(said, "ExeMemo") ELSE said)
     \/ c = "CloseButton" /\ ctl' \in said /\ Closed
     \/ c \notin {"ExeButton", "CloseButton"} /\ Stays(said)

GfileOnClick(f, c) ==
  LET acted == {SetText(g, "ActionEdit", FALSE) : g \in Loaded(f)}
      none == {f}
  IN Stays(CASE c = "GoButton" -> Loaded(f)
             [] c = "BtnDel" -> IF f.ActionEdit.kCaption THEN acted ELSE none
             [] c \in {"BtnRename", "BtnCopy"} ->   \* they want two names
                  IF f.ActionEdit.kCaption THEN acted \cup none ELSE none
             [] c = "BtnExecutar" -> {SetText(f, "ExecEdit", FALSE), f})

\* What the port answers is left open: module SerialPorts has it.
SerialOnClick(f, c) ==
  LET said == Say({f}, "memoRx")
  IN Stays(CASE c \in {"btnOpen", "btnWrite", "btnClose"} -> {f} \cup said
             [] c = "btnRead" -> said
             [] c = "cbBaud" -> said \cup Say(said, "memoRx"))

TarefaOnClick(f, c) ==
  \/ c = "BtnAtualizar" /\ Stays(Say(Say({f}, "ExeMemo"), "ExeMemo"))
  \/ c = "BtnExecutar" /\ f.EditPath.kCaption
     /\ Stays({f} \cup Say({SetText(f, "EditPath", FALSE)}, "ExeMemo"))
  \/ c = "BtnKillUnico" /\ f.EditPID.kCaption
     /\ \/ Stays({f, SetText(f, "EditPID", FALSE)})
        \/ ctl' = f /\ open' = FALSE /\ UNCHANGED visible     \* its own pid
  \/ c = "BtnExecutar" /\ ~f.EditPath.kCaption /\ Stays({f})
  \/ c = "BtnKillUnico" /\ ~f.EditPID.kCaption /\ Stays({f})

GpciOnClick(f, c) == Stays(Say(Say({f}, "DevMemo"), "DevMemo"))

OnClick(f, c) ==
  \/ prog = "temp" /\ TempOnClick(f, c)
  \/ prog = "gfile" /\ GfileOnClick(f, c)
  \/ prog = "serial" /\ SerialOnClick(f, c)
  \/ prog = "tarefa" /\ TarefaOnClick(f, c)
  \/ prog = "gpci" /\ GpciOnClick(f, c)

----------------------------------------------------------------------------
(* Keys.                                                                    *)

Roomy == \A c \in Controls : ctl[c].type = "memo" => ctl[c].TextLength <= TextBound

GUI_ProcessKeyboard(c) ==
  /\ ctl' \in CASE c = None -> {ctl}
                [] c # None /\ ctl[c].type = "edit" -> {SetText(ctl, c, t) : t \in BOOLEAN}
                [] c # None /\ ctl[c].type = "memo" ->
                     {[ctl EXCEPT ![c] = Backspace(@)]}
                     \cup IF Roomy THEN Say({ctl}, c) ELSE {}
                [] c # None /\ ctl[c].type = "list" -> {ctl}
  /\ UNCHANGED typed

\* The terminal feeds its memo itself, whatever has the focus.
TerminalKey(c) ==
  LET m == "TerminalMemo"
      entered == Say({ctl}, m)
      answered == Say(entered, m) \cup {[f EXCEPT ![m] = Clear(@)] : f \in entered}
  IN \/ Roomy /\ typed' = FALSE
        /\ ctl' \in Say(IF typed THEN answered ELSE entered, m)
     \/ Roomy /\ typed' = TRUE /\ ctl' \in Say({ctl}, m)
     \/ typed /\ typed' \in BOOLEAN /\ ctl' = [ctl EXCEPT ![m] = Backspace(@)]

OnKey(c) == IF prog = "terminal" THEN TerminalKey(c) ELSE GUI_ProcessKeyboard(c)

----------------------------------------------------------------------------
(* The lower layer: events_process_mouse, wm_handle_mouse_event.            *)

SetState(f, s, cs) ==
  [c \in DOMAIN f |-> IF c \in cs /\ "kState" \in DOMAIN f[c]
                      THEN [f[c] EXCEPT !.kState = s] ELSE f[c]]

Radios == {c \in Controls : ctl[c].type = "radio"}

gui_process_release == SetState(ctl, 0, Controls)

gui_process_press(p) ==
  /\ focused' = IF p.control \in Controls THEN p.control ELSE None
  /\ ctl' =
       CASE p.control \notin Controls -> ctl
         [] p.control \in Controls /\ ctl[p.control].type = "checkbox" ->
              [ctl EXCEPT ![p.control].kChecked = ~@]
         [] p.control \in Radios ->
              [c \in Controls |-> IF c \in Radios THEN [ctl[c] EXCEPT !.kChecked = (c = p.control)]
                                  ELSE ctl[c]]
         [] OTHER -> SetState(ctl, Pressed, {p.control})

MouseDown(p) ==
  IF ~inStack \/ ~visible \/ p.control = "outside"
  THEN UNCHANGED <<inStack, dragging, focused, ctl>>
  ELSE \/ /\ p.control = "close"
          /\ inStack' = FALSE
          /\ UNCHANGED <<dragging, focused, ctl>>
       \/ /\ p.control = "title"
          /\ dragging' = TRUE
          /\ UNCHANGED <<inStack, focused, ctl>>
       \/ /\ p.control \notin {"close", "title"}
          /\ gui_process_press(p)
          /\ UNCHANGED <<inStack, dragging>>

\* A press that is a move as well drags the form if it was taken by its title.
events_process_mouse(p) ==
  /\ moved' \in IF dragging /\ inStack THEN {moved, TRUE} ELSE {moved}
  /\ IF buttons THEN UNCHANGED <<inStack, dragging, focused, ctl>> ELSE MouseDown(p)
  /\ buttons' = TRUE

----------------------------------------------------------------------------
(* The SDK: GUI_ProcessMouseClick.                                          *)

\* A memo: its text, and the halves of its bar.  A list, and its scroll bar,
\* which lies above it: the rows.
Up == 1
Down == 2
Parts(c) ==
  CASE ctl[c].type = "memo" -> {0, Up, Down}
    [] ctl[c].type \in {"list", "scrollbar"} -> 0..ItemBound
    [] OTHER -> {0}
Places == [control : Bare, part : {0}]
          \cup UNION {[control : {c}, part : Parts(c)] : c \in Controls}

Wants(c) == ActiveFocus' = c /\ focused' = c    \* the SDK gives c the keys and the cursor
\* Mutant: the cursor stays where it was.
Mut_Nobody == ActiveFocus' = None /\ UNCHANGED focused

Nobody == ActiveFocus' = None /\ focused' = None

GUI_ComboBox_Rotate(b) ==
  LET i == (b.ItemIndex + 1) % b.ItemCount
  IN gui_set_prop([b EXCEPT !.ItemIndex = i], "CAPTION", i)

GUI_CheckBox_Toggle(c) == [ctl EXCEPT ![c].Checked = ~@]

\* Mutant: the other buttons of the group stay on.
Mut_Select(r) == [ctl EXCEPT ![r].Checked = TRUE]

GUI_RadioButton_Select(r) ==
  [c \in Controls |-> IF c \in Radios THEN [ctl[c] EXCEPT !.Checked = (c = r)] ELSE ctl[c]]

Scrolled(m, part) ==
  CASE part = 0 -> m
    [] part = Up -> SetScroll(m, m.ScrollY - 2)
    [] part = Down -> SetScroll(m, m.ScrollY + 2)

Chosen(l, row) ==
  LET i == IF row >= l.kItemCount THEN l.kItemCount - 1 ELSE row
  IN [l EXCEPT !.LVItemIndex = i, !.kItemIndex = i]

\* A scroll bar has no handler, and the search goes on to the list under it.  The
\* last disjunct is for what is not handled at all.
GUI_ProcessMouseClick(p) ==
  LET c == p.control
      type == IF c \in Controls THEN ctl[c].type ELSE "none"
      called == UNCHANGED <<focused, ActiveFocus>>
      quiet == UNCHANGED <<open, visible>>
  IN \/ type = "button" /\ OnClick(ctl, c) /\ called
     \/ type = "combo" /\ OnClick([ctl EXCEPT ![c] = GUI_ComboBox_Rotate(@)], c) /\ called
     \/ type = "checkbox" /\ OnClick(GUI_CheckBox_Toggle(c), c) /\ called
     \/ type = "radio" /\ ~ctl[c].Checked /\ OnClick(GUI_RadioButton_Select(c), c) /\ called
     \/ type = "radio" /\ ctl[c].Checked /\ Stays({ctl}) /\ called
     \/ type = "edit" /\ Wants(c) /\ Stays({ctl})
     \/ type = "memo" /\ Wants(c) /\ Stays({[ctl EXCEPT ![c] = Scrolled(@, p.part)]})
     \/ type = "list" /\ Wants(c) /\ Stays({[ctl EXCEPT ![c] = Chosen(@, p.part)]})
     \/ type = "scrollbar"
        /\ \E l \in Controls : /\ ctl[l].type = "list" /\ Wants(l)
                              /\ Stays({[ctl EXCEPT ![l] = Chosen(@, p.part)]})
     \/ type \in {"label", "none"} /\ Nobody /\ Stays({ctl})

----------------------------------------------------------------------------
(* The loop of a program.                                                   *)

Step(from, to) == pc = from /\ pc' = to

\* TRadioButton.c calls gui_create_radio with three of its four arguments: what
\* is copied into the 64 characters of a Caption is any text at all.
Garbled == \E c \in Controls : ctl[c].type = "radio"

Begin(First) ==
  /\ pc = "start"
  /\ ctl' \in First
  /\ \/ pc' = IF Overrun(ctl') THEN "ruined" ELSE "draw"
     \/ Garbled /\ pc' = "ruined"
  /\ redraw' = TRUE
  /\ UNCHANGED <<window, manager, at, timer, focused, ActiveFocus, typed>>

Leave ==
  /\ Step("head", "exited")
  /\ ~open
  /\ visible' = FALSE
  /\ UNCHANGED <<prog, open, hadFocus, redraw, manager, at, timer, focused, ActiveFocus,
                 ctl, typed>>

Head ==
  /\ pc = "head" /\ open
  /\ \E focus \in {"yes", "no"} :
       /\ hadFocus' = focus
       /\ redraw' = (hadFocus # focus)
       /\ pc' = IF focus = "yes" THEN "key" ELSE "draw"
  /\ UNCHANGED <<prog, open, visible, manager, at, timer, focused, ActiveFocus, ctl, typed>>

Key ==
  /\ Step("key", "click")
  /\ \/ OnKey(ActiveFocus) /\ redraw' = TRUE
     \/ UNCHANGED <<ctl, typed, redraw>>
  /\ UNCHANGED <<window, manager, at, timer, focused, ActiveFocus>>

\* The 64th character of an edit, whose text the lower layer copies into its
\* Caption of 64: no promise after that either.
LongText ==
  /\ Step("key", "ruined")
  /\ ActiveFocus # None
  /\ ctl[ActiveFocus].type = "edit" /\ ctl[ActiveFocus].Text
  /\ UNCHANGED <<window, redraw, manager, at, timer, focused, ActiveFocus, ctl, typed>>

\* The controls whose callbacks write into a memo.
Talks(c) == c \in Controls /\ ctl[c].type \in {"button", "combo", "checkbox", "radio"}

\* Mutant: a second click is taken while the first is held down.
Mut_Click ==
  /\ Step("click", "dispatch")
  /\ \E p \in Places : ~Talks(p.control) /\ at' = p /\ events_process_mouse(p)
  /\ timer' = 2
  /\ UNCHANGED <<window, redraw, ActiveFocus, typed>>

\* A click that comes while the last one is held down is thrown away.
Click ==
  /\ Step("click", "dispatch")
  /\ timer = 0
  /\ \E p \in Places :
       /\ p.control \in Controls /\ ctl[p.control].type = "memo" /\ p.part = Down
          => ctl[p.control].ScrollY < ScrollBound
       /\ Roomy \/ ~Talks(p.control)
       /\ at' = p /\ events_process_mouse(p)
  /\ timer' = 2
  /\ UNCHANGED <<window, redraw, ActiveFocus, typed>>

NoClick ==
  /\ Step("click", "hold")
  /\ UNCHANGED <<window, redraw, manager, at, timer, focused, ActiveFocus, ctl, typed>>

Dispatch ==
  /\ pc = "dispatch"
  /\ GUI_ProcessMouseClick(at)
  /\ pc' = IF Overrun(ctl') THEN "ruined" ELSE "hold"
  /\ redraw' = (redraw \/ (at.control \in Controls /\ ctl[at.control].type # "label"))
  /\ at' = Nowhere
  /\ UNCHANGED <<prog, hadFocus, manager, timer, typed>>

\* MOUSE_UP goes to the form below the pointer, or to g_active.
Hold ==
  /\ Step("hold", "draw")
  /\ timer' = IF timer > 0 THEN timer - 1 ELSE 0
  /\ IF timer = 1
     THEN /\ dragging' = FALSE /\ buttons' = FALSE /\ redraw' = TRUE
          /\ ctl' = IF inStack THEN gui_process_release ELSE ctl
     ELSE UNCHANGED <<dragging, buttons, redraw, ctl>>
  /\ UNCHANGED <<window, inStack, moved, at, focused, ActiveFocus, typed>>

gui_draw_memo(m) ==
  LET lines == IF m.TextLength = 0 THEN 1 ELSE m.TextLength
  IN [m EXCEPT !.kScrollY = IF lines <= Lines THEN 0
                            ELSE IF @ > lines - Lines THEN lines - Lines ELSE @]

\* Flush_Grafico_Janela, if asked for, and sys_sleep.
Draw ==
  /\ Step("draw", "head")
  /\ ctl' = IF redraw /\ visible
            THEN [c \in Controls |-> IF ctl[c].type = "memo" THEN gui_draw_memo(ctl[c]) ELSE ctl[c]]
            ELSE ctl
  /\ redraw' = FALSE
  /\ UNCHANGED <<window, manager, at, timer, focused, ActiveFocus, typed>>

Loop(First) ==
  \/ Begin(First) \/ Leave \/ Head \/ Key \/ LongText
  \/ Click \/ NoClick \/ Dispatch \/ Hold \/ Draw

TempMain == prog = "temp" /\ Loop(Say({ctl}, "ExeMemo"))
GfileMain == prog = "gfile" /\ Loop(Loaded(ctl))
SerialMain == prog = "serial" /\ Loop(Say({ctl}, "memoRx"))
TarefaMain == prog = "tarefa" /\ Loop(Say({ctl}, "ExeMemo"))
GpciMain == prog = "gpci" /\ Loop(Say({ctl}, "DevMemo"))
TerminalMain ==
  prog = "terminal"
  /\ Loop(Say(Say({ctl}, "TerminalMemo"), "TerminalMemo"))

\* The Explorer's [X], or another program's kill.
Close ==
  /\ open /\ pc \notin {"exited", "ruined"}
  /\ open' = FALSE
  /\ UNCHANGED <<prog, visible, hadFocus, pc, redraw, manager, at, timer, focused, ActiveFocus,
                 ctl, typed>>

Init ==
  /\ prog \in Programs /\ ctl = Layout[prog]
  /\ pc = "start" /\ open = TRUE /\ visible = TRUE /\ hadFocus = "first" /\ redraw = FALSE
  /\ inStack = TRUE /\ dragging = FALSE /\ moved = FALSE /\ buttons = FALSE
  /\ at = Nowhere /\ timer = 0
  \* The terminal points the cursor at the SDK's record, which is nobody's cursor.
  /\ focused = None /\ ActiveFocus = None /\ typed = FALSE

Next == \/ TempMain \/ GfileMain \/ SerialMain \/ TarefaMain \/ GpciMain \/ TerminalMain
        \/ Close

Spec == Init /\ [][Next]_vars

----------------------------------------------------------------------------
(* Correctness.                                                             *)

Settled == pc # "dispatch"      \* the two layers have both seen the last click

\* wm.c/gui_interaction.c and libgui.c move their focus on their own: an edit or
\* a memo that shows the cursor is the one that the next key goes to.
CursorTellsTruth ==
  /\ Settled
  /\ focused # None
  /\ ctl[focused].type \in {"edit", "memo"}
  => ActiveFocus = focused

\* Both layers toggle and select on their own: while the lower one still gets
\* the clicks (its form is in the stack) the two agree, and what an edit or a
\* combo shows is what the SDK holds.
LayersAgree ==
  /\ Settled /\ inStack /\ visible =>
       \A c \in Controls :
         ctl[c].type \in {"checkbox", "radio"} => ctl[c].kChecked = ctl[c].Checked
  /\ \A c, d \in Controls :
       ctl[c].type = "radio" /\ ctl[d].type = "radio" /\ ctl[c].kChecked /\ ctl[d].kChecked => c = d
  /\ \A c \in Controls : /\ ctl[c].type = "edit" => ctl[c].kCaption = ctl[c].Text
                         /\ ctl[c].type = "combo" => ctl[c].kCaption = ctl[c].ItemIndex

\* Every press is released (mouse_hold_timer): between clicks no form is being
\* dragged, and so no click ever drags it, and no control stays down, but a list
\* that has two rows, since its State is both their number and Pressed.
NothingStuck ==
  /\ timer = 0 =>
       /\ ~buttons /\ ~dragging
       /\ \A c \in Controls : "kState" \in DOMAIN ctl[c] /\ ctl[c].kState = Pressed =>
            ctl[c].type = "list" /\ ctl[c].kItemCount = Pressed
  /\ ~moved

\* The lower layer draws texts and rows through pointers into the SDK's blocks:
\* they follow every realloc, and what they show lies inside the block.
ViewsSound ==
  pc # "ruined" =>
    \A c \in Controls :
      /\ ctl[c].type = "memo" =>
           /\ ctl[c].TextLength < ctl[c].AllocatedSize
           /\ \/ ctl[c].kTextPointer = ctl[c].Buffer
              \/ ctl[c].kTextPointer = 0 /\ ctl[c].TextLength = 0
      /\ ctl[c].type = "list" =>
           /\ ctl[c].kItems = ctl[c].LVItems
           /\ ctl[c].kItemCount = ctl[c].LVItemCount
           /\ ctl[c].kItemCount <= ctl[c].room
           /\ ctl[c].kItemIndex = ctl[c].LVItemIndex
           /\ ctl[c].kItemIndex \in -1..ctl[c].kItemCount - 1
=============================================================================

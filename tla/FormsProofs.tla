----------------------------- MODULE FormsProofs -----------------------------
(***************************************************************************)
(* Proofs about Forms, for buffers, arrays and views of any size.  First   *)
(* the records: what each operation of the SDK keeps of a control.         *)
(* Whatever a program does with its controls in answer to a click or a key *)
(* is made of these, and so it Leads from one form to another: the new one *)
(* is whole, and the same in all that the lower layer alone decides.  Then *)
(* the invariant, action by action.                                        *)
(***************************************************************************)
EXTENDS Forms, WellFoundedInduction, TLAPS

-----------------------------------------------------------------------------
\* Controls

Levels == {0, 2}

Buttons == [type : {"button"}, kState : Levels]
Labels == [type : {"label"}, kState : Levels]
ScrollBars == [type : {"scrollbar"}, kState : Levels]
CheckBoxes == [type : {"checkbox"}, Checked : BOOLEAN, kChecked : BOOLEAN]
RadioButtons == [type : {"radio"}, Checked : BOOLEAN, kChecked : BOOLEAN]
Edits == [type : {"edit"}, Text : BOOLEAN, kState : Levels, kCaption : BOOLEAN]
Combos == [type : {"combo"}, ItemIndex : Nat, ItemCount : {2}, kState : Levels,
           kCaption : Nat]
Memos == [type : {"memo"}, Buffer : Moved, AllocatedSize : Nat, TextLength : Nat,
          ScrollY : Nat, kState : Levels, kTextPointer : {0} \cup Moved, kScrollY : Nat]
Lists == [type : {"list"}, LVItems : Moved, room : Nat, LVAllocatedItems : Nat,
          LVItemCount : Nat, LVItemIndex : Int, kState : Levels, kItems : Moved,
          kItemCount : Nat, kItemIndex : Int]

\* Both records of a control show the same, and a text fits its block.
Fits(m) ==
  /\ m.TextLength < m.AllocatedSize
  /\ m.kTextPointer = m.Buffer \/ (m.kTextPointer = 0 /\ m.TextLength = 0)

MemoSound(m) == m \in Memos /\ Fits(m)

ListSound(l) ==
  /\ l \in Lists
  /\ l.kItems = l.LVItems
  /\ l.kItemCount = l.LVItemCount
  /\ l.kItemIndex = l.LVItemIndex
  /\ l.kItemIndex \in -1 .. l.kItemCount - 1

EditSound(e) == e \in Edits /\ e.kCaption = e.Text
ComboSound(b) == b \in Combos /\ b.kCaption = b.ItemIndex

Sound(r) ==
  \/ r \in Buttons \/ r \in Labels \/ r \in ScrollBars \/ r \in CheckBoxes \/ r \in RadioButtons
  \/ EditSound(r) \/ ComboSound(r) \/ MemoSound(r) \/ ListSound(r)

\* The controls that can be pressed down and, lists apart, are so only by a press,
\* and those that can be switched.
HasState == {"button", "label", "scrollbar", "edit", "combo", "memo"}
Switches == {"checkbox", "radio"}

\* A list that is down without a press: the State is its number of rows.
Rests(l) == l.kState = 2 => l.LVItemCount = 2

\* What only the lower layer decides, and what both switch, is the same in s.
Like(r, s) ==
  /\ s.type = r.type
  /\ r.type \in HasState => s.kState = r.kState
  /\ r.type = "list" /\ Rests(r) => Rests(s)
  /\ r.type \in Switches => s = r

LEMMA KindOf ==
  ASSUME NEW r, Sound(r)
  PROVE  /\ r.type \in HasState \cup Switches \cup {"list"}
         /\ r.type = "button" => r \in Buttons
         /\ r.type = "label" => r \in Labels
         /\ r.type = "scrollbar" => r \in ScrollBars
         /\ r.type = "checkbox" => r \in CheckBoxes
         /\ r.type = "radio" => r \in RadioButtons
         /\ r.type = "edit" => EditSound(r)
         /\ r.type = "combo" => ComboSound(r)
         /\ r.type = "memo" => MemoSound(r)
         /\ r.type = "list" => ListSound(r)
  BY DEF Sound, Buttons, Labels, ScrollBars, CheckBoxes, RadioButtons, Edits, Combos,
         Memos, Lists, EditSound, ComboSound, MemoSound, ListSound, HasState, Switches

LEMMA StateOf ==
  ASSUME NEW r, Sound(r)
  PROVE  "kState" \in DOMAIN r <=> r.type \in HasState \cup {"list"}
<1>1. CASE r \in Buttons BY <1>1 DEF Buttons, HasState
<1>2. CASE r \in Labels BY <1>2 DEF Labels, HasState
<1>2a. CASE r \in ScrollBars BY <1>2a DEF ScrollBars, HasState
<1>3. CASE r \in CheckBoxes BY <1>3 DEF CheckBoxes, HasState
<1>4. CASE r \in RadioButtons BY <1>4 DEF RadioButtons, HasState
<1>5. CASE EditSound(r) BY <1>5 DEF Edits, EditSound, HasState
<1>6. CASE ComboSound(r) BY <1>6 DEF Combos, ComboSound, HasState
<1>7. CASE MemoSound(r) BY <1>7 DEF Memos, MemoSound, Fits, HasState
<1>8. CASE ListSound(r) BY <1>8 DEF Lists, ListSound, HasState
<1>9. QED
  BY <1>1, <1>2, <1>2a, <1>3, <1>4, <1>5, <1>6, <1>7, <1>8 DEF Sound

\* What the SDK writes into the lower layer's record of a memo, or of a list,
\* leaves the other fields alone.
SameText(m, r) ==
  r.TextLength = m.TextLength /\ r.AllocatedSize = m.AllocatedSize /\ r.Buffer = m.Buffer

LEMMA MemoProp ==
  ASSUME NEW m, m \in Memos
  PROVE  /\ \A v \in {0} \cup Moved :
              LET r == gui_set_prop(m, "CAPTION", v)
              IN r \in Memos /\ SameText(m, r) /\ r.kTextPointer = v /\ r.kState = m.kState
         /\ \A v \in Nat :
              LET r == gui_set_prop(m, "SCROLL_Y", v)
              IN /\ r \in Memos /\ SameText(m, r) /\ r.kTextPointer = m.kTextPointer
                 /\ r.kState = m.kState
<1>1. \A v : gui_set_prop(m, "CAPTION", v) = [m EXCEPT !.kTextPointer = v]
  BY DEF gui_set_prop, Memos
<1>2. \A v : gui_set_prop(m, "SCROLL_Y", v) = [m EXCEPT !.kScrollY = v]
  BY DEF gui_set_prop, Memos
<1>3. QED
  BY <1>1, <1>2 DEF Memos, SameText

LEMMA MemoStays ==
  ASSUME NEW m, MemoSound(m), NEW r, r \in Memos, r.kState = m.kState, Fits(r)
  PROVE  MemoSound(r) /\ Like(m, r)
  BY DEF MemoSound, Memos, Fits, Like, HasState, Switches

SameRows(l, r) ==
  /\ r.LVItems = l.LVItems /\ r.room = l.room /\ r.LVAllocatedItems = l.LVAllocatedItems
  /\ r.LVItemCount = l.LVItemCount /\ r.LVItemIndex = l.LVItemIndex

LEMMA ListProp ==
  ASSUME NEW l, l \in Lists
  PROVE  /\ \A v \in Moved :
              LET r == gui_set_prop(l, "CAPTION", v)
              IN /\ r \in Lists /\ SameRows(l, r) /\ r.kItems = v /\ r.kState = l.kState
                 /\ r.kItemCount = l.kItemCount /\ r.kItemIndex = l.kItemIndex
         /\ \A v \in Nat :
              LET r == gui_set_prop(l, "STATE", v)
              IN /\ r \in Lists /\ SameRows(l, r) /\ r.kItems = l.kItems
                 /\ r.kState = Level(v)
                 /\ r.kItemCount = v /\ r.kItemIndex = l.kItemIndex
         /\ \A v \in Int :
              LET r == gui_set_prop(l, "ITEM_INDEX", v)
              IN /\ r \in Lists /\ SameRows(l, r) /\ r.kItems = l.kItems
                 /\ r.kState = l.kState
                 /\ r.kItemCount = l.kItemCount /\ r.kItemIndex = v
<1>1. \A v : gui_set_prop(l, "CAPTION", v) = [l EXCEPT !.kItems = v]
  BY DEF gui_set_prop, Lists
<1>2. \A v : gui_set_prop(l, "STATE", v) = [l EXCEPT !.kState = Level(v), !.kItemCount = v]
  BY DEF gui_set_prop, Lists
<1>3. \A v : gui_set_prop(l, "ITEM_INDEX", v) = [l EXCEPT !.kItemIndex = v]
  BY DEF gui_set_prop, Lists
<1>4. ASSUME NEW v \in Nat
      PROVE  LET r == gui_set_prop(l, "STATE", v)
             IN /\ r \in Lists /\ SameRows(l, r) /\ r.kItems = l.kItems
                /\ r.kState = Level(v)
                /\ r.kItemCount = v /\ r.kItemIndex = l.kItemIndex
  <2> DEFINE s == Level(v)
  <2>1. s \in Levels /\ gui_set_prop(l, "STATE", v) = [l EXCEPT !.kState = s, !.kItemCount = v]
    BY <1>2 DEF Level, Levels, Pressed
  <2> HIDE DEF s
  <2>2. [l EXCEPT !.kState = s, !.kItemCount = v] \in Lists
    BY <2>1 DEF Lists
  <2>3. QED
    BY <2>1, <2>2 DEF Lists, SameRows, s
<1>5. QED
  BY <1>1, <1>3, <1>4 DEF Lists, SameRows

LEMMA ListStays ==
  ASSUME NEW l, ListSound(l), NEW r, r \in Lists, r.kItems = r.LVItems,
         r.kItemCount = r.LVItemCount, r.kItemIndex = r.LVItemIndex,
         r.kItemIndex \in -1 .. r.kItemCount - 1, Rests(l) => Rests(r)
  PROVE  ListSound(r) /\ Like(l, r)
  BY DEF ListSound, Lists, Like, HasState, Switches

\* A character more, at the end of a block that is kept, moved, or not to be had.
LEMMA AddCharKeeps ==
  ASSUME NEW m, MemoSound(m), NEW r \in AddChar(m)
  PROVE  MemoSound(r) /\ Like(m, r)
<1>1. m \in Memos /\ m.type = "memo" /\ m.TextLength < m.AllocatedSize
      /\ m.TextLength \in Nat /\ m.AllocatedSize \in Nat
  BY DEF MemoSound, Fits, Memos
<1>2. CASE r = m
  BY <1>2 DEF Like
<1>3. ASSUME NEW q \in Memos, q.TextLength = m.TextLength, q.kState = m.kState,
             m.TextLength + 1 < q.AllocatedSize,
             r = gui_set_prop([q EXCEPT !.TextLength = @ + 1], "CAPTION", q.Buffer)
      PROVE  MemoSound(r) /\ Like(m, r)
  <2> DEFINE w == [q EXCEPT !.TextLength = @ + 1]
  <2>1. /\ w \in Memos /\ w.TextLength = m.TextLength + 1 /\ w.Buffer = q.Buffer
        /\ w.AllocatedSize = q.AllocatedSize /\ w.kState = m.kState /\ q.Buffer \in Moved
    BY <1>1, <1>3 DEF Memos
  <2>2. r = gui_set_prop(w, "CAPTION", q.Buffer)
    BY <1>3
  <2> HIDE DEF w
  <2>3. r \in Memos /\ SameText(w, r) /\ r.kTextPointer = q.Buffer /\ r.kState = w.kState
    <3>1. w \in Memos /\ q.Buffer \in {0} \cup Moved
      BY <2>1
    <3>2. QED
      BY <3>1, <2>2, MemoProp
  <2>4. Fits(r) /\ r.kState = m.kState
    <3>1. w.TextLength < w.AllocatedSize
      BY <1>1, <1>3, <2>1
    <3>2. r.TextLength < r.AllocatedSize
      BY <3>1, <2>3 DEF SameText
    <3>3. QED
      BY <2>1, <2>3, <3>2 DEF SameText, Fits
  <2>5. QED
    BY <2>3, <2>4, MemoStays
<1>4. CASE m.TextLength + 2 >= m.AllocatedSize /\ r # m
  <2> DEFINE q(b) == [m EXCEPT !.AllocatedSize = 2 * @, !.Buffer = b]
  <2>1. PICK b \in Moved :
          r = gui_set_prop([q(b) EXCEPT !.TextLength = @ + 1], "CAPTION", q(b).Buffer)
    BY <1>4 DEF AddChar
  <2>2. /\ q(b) \in Memos /\ q(b).TextLength = m.TextLength /\ q(b).kState = m.kState
        /\ q(b).AllocatedSize = 2 * m.AllocatedSize
    <3> DEFINE n == 2 * m.AllocatedSize
    <3>1. n \in Nat /\ q(b) = [m EXCEPT !.AllocatedSize = n, !.Buffer = b]
      BY <1>1
    <3> HIDE DEF n, q
    <3>2. q(b) \in Memos
      BY <1>1, <3>1 DEF Memos
    <3>3. q(b).TextLength = m.TextLength /\ q(b).kState = m.kState /\ q(b).AllocatedSize = n
      BY <1>1, <3>1 DEF Memos
    <3>4. QED
      BY <3>2, <3>3 DEF n
  <2>3. m.TextLength + 1 < q(b).AllocatedSize
    BY <1>1, <2>2
  <2> HIDE DEF q
  <2>4. QED
    BY <2>1, <2>2, <2>3, <1>3
<1>5. CASE ~(m.TextLength + 2 >= m.AllocatedSize)
  <2>1. r = gui_set_prop([m EXCEPT !.TextLength = @ + 1], "CAPTION", m.Buffer)
    BY <1>5 DEF AddChar
  <2>2. m.TextLength + 1 < m.AllocatedSize
    BY <1>1, <1>5
  <2>3. QED
    BY <1>1, <2>1, <2>2, <1>3
<1>6. QED
  BY <1>2, <1>4, <1>5

LEMMA BackspaceKeeps ==
  ASSUME NEW m, MemoSound(m)
  PROVE  MemoSound(Backspace(m)) /\ Like(m, Backspace(m))
<1> DEFINE w == [m EXCEPT !.TextLength = IF @ > 0 THEN @ - 1 ELSE 0]
           r == gui_set_prop(w, "CAPTION", m.Buffer)
<1>1. m \in Memos /\ m.TextLength < m.AllocatedSize
  BY DEF MemoSound, Fits
<1>2. /\ w \in Memos /\ w.TextLength < m.AllocatedSize /\ w.Buffer = m.Buffer
      /\ w.AllocatedSize = m.AllocatedSize /\ w.kState = m.kState /\ m.Buffer \in Moved
  BY <1>1 DEF Memos
<1>3. r = Backspace(m)
  BY DEF Backspace
<1> HIDE DEF w
<1>4. r \in Memos /\ SameText(w, r) /\ r.kTextPointer = m.Buffer /\ r.kState = w.kState
  BY <1>2, MemoProp
<1>5. Fits(r) /\ r.kState = m.kState
  <2>1. w.TextLength < w.AllocatedSize
    BY <1>2
  <2>2. r.TextLength < r.AllocatedSize
    BY <2>1, <1>4 DEF SameText
  <2>3. QED
    BY <1>2, <1>4, <2>2 DEF SameText, Fits
<1> HIDE DEF r
<1>6. QED
  BY <1>3, <1>4, <1>5, MemoStays

LEMMA ClearKeeps ==
  ASSUME NEW m, MemoSound(m)
  PROVE  MemoSound(Clear(m)) /\ Like(m, Clear(m))
<1> DEFINE w == [m EXCEPT !.TextLength = 0, !.ScrollY = 0]
           q == gui_set_prop(w, "CAPTION", 0)
           r == gui_set_prop(q, "SCROLL_Y", 0)
<1>1. m \in Memos /\ m.TextLength < m.AllocatedSize
  BY DEF MemoSound, Fits
<1>2. /\ w \in Memos /\ w.TextLength = 0 /\ 0 < w.AllocatedSize /\ w.kState = m.kState
  <2>1. w \in Memos
    BY <1>1 DEF Memos
  <2>2. w.TextLength = 0 /\ w.AllocatedSize = m.AllocatedSize /\ w.kState = m.kState
    BY <1>1 DEF Memos
  <2>3. 0 < m.AllocatedSize
    BY <1>1 DEF Memos
  <2>4. QED
    BY <2>1, <2>2, <2>3
<1>3. r = Clear(m)
  BY DEF Clear
<1> HIDE DEF w
<1>4. q \in Memos /\ SameText(w, q) /\ q.kTextPointer = 0 /\ q.kState = w.kState
  BY <1>2, MemoProp
<1> HIDE DEF q
<1>5. r \in Memos /\ SameText(q, r) /\ r.kTextPointer = 0 /\ r.kState = q.kState
  BY <1>4, MemoProp
<1> HIDE DEF r
<1>6. QED
  BY <1>1, <1>2, <1>3, <1>4, <1>5, MemoStays DEF SameText, Fits

LEMMA ScrollKeeps ==
  ASSUME NEW m, MemoSound(m), NEW part \in {0, Up, Down}
  PROVE  MemoSound(Scrolled(m, part)) /\ Like(m, Scrolled(m, part))
<1>1. m \in Memos
  BY DEF MemoSound, Fits
<1>2. CASE part = 0
  BY <1>2 DEF Scrolled, Like, Up, Down
<1>3. ASSUME NEW y \in Int
      PROVE  MemoSound(SetScroll(m, y)) /\ Like(m, SetScroll(m, y))
  <2> DEFINE s == IF y < 0 THEN 0 ELSE y
             w == [m EXCEPT !.ScrollY = s]
             r == gui_set_prop(w, "SCROLL_Y", s)
  <2>1. s \in Nat
    OBVIOUS
  <2>2. r = SetScroll(m, y)
    BY DEF SetScroll
  <2> HIDE DEF s
  <2>3. /\ w \in Memos /\ SameText(m, w) /\ w.kTextPointer = m.kTextPointer
        /\ w.kState = m.kState
    BY <1>1, <2>1 DEF Memos, SameText
  <2> HIDE DEF w
  <2>4. /\ r \in Memos /\ SameText(w, r) /\ r.kTextPointer = w.kTextPointer
        /\ r.kState = w.kState
    BY <2>1, <2>3, MemoProp
  <2> HIDE DEF r
  <2>5. QED
    BY <2>2, <2>3, <2>4, MemoStays DEF SameText, MemoSound, Fits
<1>4. m.ScrollY - 2 \in Int /\ m.ScrollY + 2 \in Int
  BY <1>1 DEF Memos
<1>5. QED
  BY <1>2, <1>3, <1>4 DEF Scrolled, Up, Down

LEMMA DrawKeeps ==
  ASSUME NEW m, MemoSound(m)
  PROVE  MemoSound(gui_draw_memo(m)) /\ Like(m, gui_draw_memo(m))
  BY FormsAssumption DEF MemoSound, Fits, Memos, Like, HasState, Switches, gui_draw_memo

LEMMA ClearListKeeps ==
  ASSUME NEW l, ListSound(l)
  PROVE  ListSound(ClearList(l)) /\ Like(l, ClearList(l))
<1> DEFINE w == [l EXCEPT !.LVItemCount = 0, !.LVItemIndex = -1]
           q == gui_set_prop(w, "STATE", 0)
           r == gui_set_prop(q, "ITEM_INDEX", -1)
<1>1. l \in Lists /\ l.kItems = l.LVItems
  BY DEF ListSound
<1>2. /\ w \in Lists /\ w.LVItemCount = 0 /\ w.LVItemIndex = -1 /\ w.kItems = w.LVItems
  <2>1. w \in Lists
    <3> DEFINE i == -1
    <3>1. i \in Int /\ w = [l EXCEPT !.LVItemCount = 0, !.LVItemIndex = i]
      OBVIOUS
    <3> HIDE DEF i, w
    <3>2. QED
      BY <1>1, <3>1 DEF Lists
  <2>2. w.LVItemCount = 0 /\ w.LVItemIndex = -1
    BY <1>1 DEF Lists
  <2>3. w.kItems = l.kItems /\ w.LVItems = l.LVItems
    BY <1>1 DEF Lists
  <2>4. QED
    BY <1>1, <2>1, <2>2, <2>3
<1>3. r = ClearList(l)
  BY DEF ClearList
<1> HIDE DEF w
<1>4. /\ q \in Lists /\ SameRows(w, q) /\ q.kItems = w.kItems /\ q.kItemCount = 0
      /\ q.kState = Level(0)
  BY <1>2, ListProp
<1> HIDE DEF q
<1>5. /\ r \in Lists /\ SameRows(q, r) /\ r.kItems = q.kItems /\ r.kItemCount = 0
      /\ r.kItemIndex = -1 /\ r.kState = q.kState
  BY <1>4, ListProp
<1> HIDE DEF r
<1>6. Rests(r)
  BY <1>4, <1>5 DEF Rests, Level, Pressed
<1>7. QED
  BY <1>2, <1>3, <1>4, <1>5, <1>6, ListStays DEF SameRows

LEMMA ChosenKeeps ==
  ASSUME NEW l, ListSound(l), NEW row \in Nat
  PROVE  ListSound(Chosen(l, row)) /\ Like(l, Chosen(l, row))
<1> DEFINE i == IF row >= l.kItemCount THEN l.kItemCount - 1 ELSE row
           r == [l EXCEPT !.LVItemIndex = i, !.kItemIndex = i]
<1>1. l \in Lists /\ l.kItems = l.LVItems /\ l.kItemCount = l.LVItemCount
  BY DEF ListSound
<1>2. i \in Int /\ i \in -1 .. l.LVItemCount - 1
  BY <1>1 DEF Lists
<1>3. r = Chosen(l, row)
  BY DEF Chosen
<1> HIDE DEF i
<1>4. /\ r \in Lists /\ r.kItems = r.LVItems /\ r.kItemCount = r.LVItemCount
      /\ r.LVItemIndex = i /\ r.kItemIndex = i /\ r.LVItemCount = l.LVItemCount
      /\ r.kState = l.kState
  BY <1>1, <1>2 DEF Lists
<1> HIDE DEF r
<1>5. Rests(l) => Rests(r)
  BY <1>4 DEF Rests
<1>6. QED
  BY <1>2, <1>3, <1>4, <1>5, ListStays

LEMMA AddItemKeeps ==
  ASSUME NEW l, ListSound(l), NEW r \in AddItem(l)
  PROVE  ListSound(r) /\ Like(l, r)
<1>1. /\ l \in Lists /\ l.kItems = l.LVItems /\ l.kItemCount = l.LVItemCount
      /\ l.kItemIndex = l.LVItemIndex /\ l.kItemIndex \in -1 .. l.kItemCount - 1
      /\ l.LVItemCount \in Nat
  BY DEF ListSound, Lists
<1> DEFINE more == [l EXCEPT !.LVAllocatedItems = 2 * @]
           wide(b) == [more EXCEPT !.room = more.LVAllocatedItems, !.LVItems = b]
           grown(b) == gui_set_prop(wide(b), "CAPTION", b)
           full == l.LVItemCount >= l.LVAllocatedItems
           long(q) == [q EXCEPT !.LVItemCount = @ + 1]
           added(q) == gui_set_prop(long(q), "STATE", q.LVItemCount + 1)
<1>2. \/ full /\ r = more
      \/ full /\ \E b \in Moved : r = added(grown(b))
      \/ ~full /\ r = added(l)
  BY DEF AddItem
<1>3. /\ more \in Lists /\ more.kItems = more.LVItems /\ more.kItemCount = l.LVItemCount
      /\ more.LVItemCount = l.LVItemCount /\ more.kItemIndex = more.LVItemIndex
      /\ more.kItemIndex = l.kItemIndex /\ more.kState = l.kState
  BY <1>1 DEF Lists
<1>4. ASSUME NEW q \in Lists, q.kItems = q.LVItems, q.LVItemCount = l.LVItemCount,
             q.kItemIndex = q.LVItemIndex, q.kItemIndex = l.kItemIndex, r = added(q)
      PROVE  ListSound(r) /\ Like(l, r)
  <2>1. /\ long(q) \in Lists /\ long(q).LVItemCount = l.LVItemCount + 1
        /\ long(q).kItems = long(q).LVItems /\ long(q).kItemIndex = l.kItemIndex
        /\ long(q).LVItemIndex = l.kItemIndex
    <3> DEFINE n == l.LVItemCount + 1
    <3>1. n \in Nat /\ long(q) = [q EXCEPT !.LVItemCount = n]
      BY <1>1, <1>4
    <3> HIDE DEF n, long
    <3>2. long(q) \in Lists /\ long(q).LVItemCount = n
      BY <3>1 DEF Lists
    <3>3. /\ long(q).kItems = q.kItems /\ long(q).LVItems = q.LVItems
          /\ long(q).kItemIndex = q.kItemIndex /\ long(q).LVItemIndex = q.LVItemIndex
      BY <3>1 DEF Lists
    <3>4. QED
      BY <1>4, <3>2, <3>3 DEF n
  <2> HIDE DEF long
  <2>2. /\ r \in Lists /\ SameRows(long(q), r) /\ r.kItems = long(q).kItems
        /\ r.kItemCount = l.LVItemCount + 1 /\ r.kItemIndex = l.kItemIndex
        /\ r.kState = Level(l.LVItemCount + 1)
    <3>1. /\ l.LVItemCount + 1 \in Nat
          /\ r = gui_set_prop(long(q), "STATE", l.LVItemCount + 1)
      BY <1>1, <1>4
    <3>2. QED
      BY <2>1, <3>1, ListProp
  <2>3. r.kItemIndex \in -1 .. r.kItemCount - 1
    BY <1>1, <2>2
  <2>4. Rests(r)
    BY <1>1, <2>1, <2>2 DEF Rests, Level, Pressed, SameRows
  <2>5. QED
    BY <2>1, <2>2, <2>3, <2>4, ListStays DEF SameRows
<1>5. ASSUME NEW b \in Moved, r = added(grown(b)) PROVE ListSound(r) /\ Like(l, r)
  <2>1. /\ wide(b) \in Lists /\ wide(b).LVItems = b /\ wide(b).LVItemCount = l.LVItemCount
        /\ wide(b).kItemIndex = l.kItemIndex /\ wide(b).LVItemIndex = l.kItemIndex
    <3>1. more.LVAllocatedItems \in Nat
      BY <1>3 DEF Lists
    <3> HIDE DEF more
    <3>2. QED
      BY <1>3, <3>1 DEF Lists
  <2> HIDE DEF wide
  <2>2. /\ grown(b) \in Lists /\ SameRows(wide(b), grown(b)) /\ grown(b).kItems = b
        /\ grown(b).kItemIndex = l.kItemIndex
    BY <2>1, ListProp
  <2> HIDE DEF grown, added
  <2>3. QED
    BY <2>1, <2>2, <1>4, <1>5 DEF SameRows
<1>6. CASE r = added(l)
  <2> HIDE DEF added
  <2>1. QED
    BY <1>1, <1>4, <1>6
<1>7. CASE r = more
  <2> HIDE DEF more
  <2>1. Rests(l) => Rests(r)
    BY <1>3, <1>7 DEF Rests
  <2>2. QED
    BY <1>1, <1>3, <1>7, <2>1, ListStays
<1> HIDE DEF more, grown, added, full
<1>8. QED
  BY <1>2, <1>5, <1>6, <1>7

LEMMA RotateKeeps ==
  ASSUME NEW b, ComboSound(b)
  PROVE  ComboSound(GUI_ComboBox_Rotate(b)) /\ Like(b, GUI_ComboBox_Rotate(b))
<1> DEFINE i == (b.ItemIndex + 1) % b.ItemCount
           w == [b EXCEPT !.ItemIndex = i]
           r == gui_set_prop(w, "CAPTION", i)
<1>1. b \in Combos
  BY DEF ComboSound
<1>2. i \in Nat
  BY <1>1 DEF Combos
<1>3. r = GUI_ComboBox_Rotate(b)
  BY DEF GUI_ComboBox_Rotate
<1> HIDE DEF i
<1>4. w \in Combos /\ w.ItemIndex = i /\ w.kState = b.kState
  BY <1>1, <1>2 DEF Combos
<1> HIDE DEF w
<1>5. r = [w EXCEPT !.kCaption = i]
  BY <1>4 DEF gui_set_prop, Combos
<1> HIDE DEF r
<1>6. r \in Combos /\ r.kCaption = r.ItemIndex /\ r.kState = b.kState
  BY <1>2, <1>4, <1>5 DEF Combos
<1>7. QED
  BY <1>1, <1>3, <1>6 DEF ComboSound, Combos, Like, HasState, Switches

LEMMA TextKeeps ==
  ASSUME NEW e, EditSound(e), NEW t \in BOOLEAN, NEW r,
         r = gui_set_prop([e EXCEPT !.Text = t], "CAPTION", t)
  PROVE  EditSound(r) /\ Like(e, r)
<1> DEFINE w == [e EXCEPT !.Text = t]
<1>1. e \in Edits
  BY DEF EditSound
<1>2. w \in Edits /\ w.Text = t /\ w.kState = e.kState
  BY <1>1 DEF Edits
<1>3. r = gui_set_prop(w, "CAPTION", t)
  OBVIOUS
<1> HIDE DEF w
<1>4. r = [w EXCEPT !.kCaption = t]
  BY <1>2, <1>3 DEF gui_set_prop, Edits
<1>5. r \in Edits /\ r.kCaption = r.Text /\ r.kState = e.kState
  BY <1>2, <1>4 DEF Edits
<1>6. QED
  BY <1>1, <1>5 DEF EditSound, Edits, Like, HasState, Switches

-----------------------------------------------------------------------------
\* Lists that a directory fills

LEMMA LikeItself == ASSUME NEW r PROVE Like(r, r)
  BY DEF Like

LEMMA LikeOn ==
  ASSUME NEW r, NEW s, NEW t, Like(r, s), Like(s, t)
  PROVE  Like(r, t)
  BY DEF Like

\* A set of natural numbers has a least one, and one closed under successor
\* that holds 0 holds them all.
LEMMA NatLeast == ASSUME NEW T, T \subseteq Nat, T # {} PROVE \E n \in T : \A m \in T : n <= m
<1> DEFINE R == {ss \in Nat \X Nat : ss[1] < ss[2]}
<1>1. IsWellFoundedOn(R, Nat)
  BY NatLessThanWellFounded DEF OpToRel
<1>2. \A x, y \in Nat : x < y => <<x, y>> \in R
  OBVIOUS
<1> HIDE DEF R
<1>3. PICK x \in T : \A y \in T : ~ (<<y, x>> \in R)
  BY <1>1, WFMin
<1>4. \A m \in T : ~ (m < x)
  BY <1>2, <1>3
<1>5. QED
  BY <1>4

LEMMA NatSet ==
  ASSUME NEW P, 0 \in P, \A n \in Nat : n \in P => n + 1 \in P
  PROVE  Nat \subseteq P
<1> SUFFICES ASSUME Nat \ P # {} PROVE FALSE
  OBVIOUS
<1>1. PICK n \in Nat \ P : \A m \in Nat \ P : n <= m
  BY NatLeast
<1>2. n # 0 /\ n - 1 \in Nat
  BY <1>1
<1>3. n - 1 \in P
  BY <1>1, <1>2
<1>4. n - 1 + 1 \in P
  BY <1>2, <1>3
<1>5. QED
  BY <1>1, <1>4

\* The lists S with an item more, unless an array has been overrun.
More(S) == UNION {AddItem(r) : r \in {s \in S : s.LVItemCount <= s.room}}

Listing(l, n, g) == g = [k \in 0 .. n |-> IF k = 0 THEN {l} ELSE More(g[k - 1])]

LEMMA ListingExists ==
  ASSUME NEW l, NEW n \in Nat
  PROVE  \E g : Listing(l, n, g)
<1> DEFINE P == {k \in Nat : \E g : Listing(l, k, g)}
<1>1. 0 \in P
  <2> DEFINE g == [k \in 0 .. 0 |-> {l}]
  <2>1. Listing(l, 0, g)
    BY DEF Listing
  <2>2. QED
    BY <2>1
<1>2. ASSUME NEW k \in Nat, k \in P PROVE k + 1 \in P
  <2>1. PICK g : Listing(l, k, g)
    BY <1>2
  <2> DEFINE h == [i \in 0 .. k + 1 |-> IF i = k + 1 THEN More(g[k]) ELSE g[i]]
  <2>2. ASSUME NEW i \in 0 .. k + 1
        PROVE  h[i] = IF i = 0 THEN {l} ELSE More(h[i - 1])
    <3>1. CASE i = k + 1
      <4>1. h[i] = More(g[k]) /\ i # 0 /\ i - 1 = k /\ k \in 0 .. k + 1 /\ k # k + 1
        BY <3>1
      <4>2. h[k] = g[k]
        BY <4>1
      <4>3. QED
        BY <4>1, <4>2
    <3>2. CASE i # k + 1
      <4>1. i \in 0 .. k /\ h[i] = g[i]
        BY <3>2
      <4>2. g[i] = IF i = 0 THEN {l} ELSE More(g[i - 1])
        BY <2>1, <4>1 DEF Listing
      <4>3. i # 0 => i - 1 \in 0 .. k + 1 /\ i - 1 # k + 1
        BY <4>1
      <4>4. i # 0 => h[i - 1] = g[i - 1]
        BY <4>3
      <4>5. QED
        BY <4>1, <4>2, <4>4
    <3>3. QED
      BY <3>1, <3>2
  <2>3. h = [i \in 0 .. k + 1 |-> h[i]]
    OBVIOUS
  <2> HIDE DEF h
  <2>4. Listing(l, k + 1, h)
    BY <2>2, <2>3 DEF Listing
  <2>5. QED
    BY <2>4
<1> HIDE DEF P
<1>3. Nat \subseteq P
  BY <1>1, <1>2, NatSet
<1>4. QED
  BY <1>3 DEF P

LEMMA ListedIs ==
  ASSUME NEW l
  PROVE  \E g : Listing(l, ItemBound, g) /\ Listed(l) = UNION {g[n] : n \in 0 .. ItemBound}
<1>1. \E g : Listing(l, ItemBound, g)
  BY FormsAssumption, ListingExists
<1>2. QED
  BY <1>1 DEF Listed, Listing, More

LEMMA ListedKeeps ==
  ASSUME NEW l, ListSound(l), NEW r \in Listed(l)
  PROVE  ListSound(r) /\ Like(l, r)
<1>1. PICK g : Listing(l, ItemBound, g) /\ Listed(l) = UNION {g[n] : n \in 0 .. ItemBound}
  BY ListedIs
<1> DEFINE P == {n \in Nat : n <= ItemBound => \A s \in g[n] : ListSound(s) /\ Like(l, s)}
<1>2. ItemBound \in Nat
  BY FormsAssumption
<1>3. 0 \in P
  <2>1. g[0] = {l}
    BY <1>1, <1>2 DEF Listing
  <2>2. QED
    BY <2>1, LikeItself
<1>4. ASSUME NEW n \in Nat, n \in P PROVE n + 1 \in P
  <2> SUFFICES ASSUME n + 1 <= ItemBound, NEW s \in g[n + 1]
               PROVE  ListSound(s) /\ Like(l, s)
    OBVIOUS
  <2>1. n + 1 \in 0 .. ItemBound /\ n + 1 # 0 /\ n + 1 - 1 = n /\ n <= ItemBound
    BY <1>2
  <2>2. g[n + 1] = More(g[n])
    <3>1. \A k \in 0 .. ItemBound : g[k] = IF k = 0 THEN {l} ELSE More(g[k - 1])
      BY <1>1 DEF Listing
    <3>2. QED
      BY <2>1, <3>1
  <2>3. PICK t \in g[n] : s \in AddItem(t)
    BY <2>2 DEF More
  <2>4. ListSound(t) /\ Like(l, t)
    BY <1>4, <2>1, <2>3
  <2>5. QED
    BY <2>3, <2>4, AddItemKeeps, LikeOn
<1> HIDE DEF P
<1>5. Nat \subseteq P
  BY <1>3, <1>4, NatSet
<1>6. PICK n \in 0 .. ItemBound : r \in g[n]
  BY <1>1
<1>7. QED
  BY <1>2, <1>5, <1>6 DEF P

-----------------------------------------------------------------------------
\* Forms

\* A form of the program that runs.
Whole(f) ==
  /\ f = [c \in DOMAIN f |-> f[c]] /\ DOMAIN f = DOMAIN Layout[prog]
  /\ \A c \in DOMAIN f : Sound(f[c]) /\ f[c].type = Layout[prog][c].type

\* Controls as they are created.
Created(r, type) ==
  /\ Sound(r) /\ r.type = type
  /\ type \in HasState => r.kState = 0
  /\ type \in Switches => ~r.Checked /\ ~r.kChecked
  /\ type = "list" => r.LVItemCount <= r.room /\ Rests(r)

LEMMA Creations ==
  /\ Created(GUI_CreateButton, "button")
  /\ Created(GUI_CreateLabel, "label")
  /\ Created(GUI_CreateScrollBar, "scrollbar")
  /\ Created(GUI_CreateCheckBox, "checkbox")
  /\ Created(GUI_CreateRadioButton, "radio")
  /\ \A t \in BOOLEAN : Created(GUI_CreateEdit(t), "edit")
  /\ Created(GUI_CreateComboBox, "combo")
  /\ Created(GUI_CreateMemo, "memo")
  /\ Created(GUI_CreateListView, "list")
<1> USE DEF Created, Sound, HasState, Switches, Levels
<1>1. Created(GUI_CreateButton, "button")
  BY DEF GUI_CreateButton, gui_create_button, Buttons
<1>2. Created(GUI_CreateLabel, "label")
  BY DEF GUI_CreateLabel, gui_create_label, Labels
<1>2a. Created(GUI_CreateScrollBar, "scrollbar")
  BY DEF GUI_CreateScrollBar, gui_create_scrollbar, ScrollBars
<1>3. Created(GUI_CreateCheckBox, "checkbox")
  BY DEF GUI_CreateCheckBox, gui_create_checkbox, CheckBoxes
<1>4. Created(GUI_CreateRadioButton, "radio")
  BY DEF GUI_CreateRadioButton, gui_create_radio, RadioButtons
<1>5. ASSUME NEW t \in BOOLEAN PROVE Created(GUI_CreateEdit(t), "edit")
  <2>1. GUI_CreateEdit(t) =
          [[type |-> "edit", Text |-> t, kState |-> 0, kCaption |-> FALSE]
             EXCEPT !.kCaption = t]
    BY DEF GUI_CreateEdit, gui_create_edit, gui_set_prop
  <2>2. QED
    BY <2>1 DEF Edits, EditSound
<1>6. Created(GUI_CreateComboBox, "combo")
  <2>1. GUI_CreateComboBox =
          [[type |-> "combo", ItemIndex |-> 0, ItemCount |-> 2, kState |-> 0,
            kCaption |-> None] EXCEPT !.kCaption = 0]
    BY DEF GUI_CreateComboBox, gui_create_combobox, gui_set_prop
  <2>2. QED
    BY <2>1 DEF Combos, ComboSound
<1>7. Created(GUI_CreateMemo, "memo")
  <2>1. GUI_CreateMemo =
          [[type |-> "memo", Buffer |-> 1, AllocatedSize |-> FirstText, TextLength |-> 0,
            ScrollY |-> 0, kState |-> 0, kTextPointer |-> 0, kScrollY |-> 0]
             EXCEPT !.kTextPointer = 1]
    BY DEF GUI_CreateMemo, gui_create_memo, gui_set_prop
  <2>2. QED
    BY <2>1, FormsAssumption DEF Memos, MemoSound, Fits, Moved
<1>8. Created(GUI_CreateListView, "list")
  <2> DEFINE i == -1
  <2>1. GUI_CreateListView =
          [[type |-> "list", LVItems |-> 1, room |-> FirstItems,
            LVAllocatedItems |-> FirstItems, LVItemCount |-> 0, LVItemIndex |-> i,
            kState |-> 0, kItems |-> 0, kItemCount |-> 0, kItemIndex |-> i]
             EXCEPT !.kItems = 1]
    BY DEF GUI_CreateListView, gui_create_listview, gui_set_prop
  <2>2. i \in Int /\ i \in -1 .. 0 - 1
    OBVIOUS
  <2> HIDE DEF i
  <2>3. QED
    BY <2>1, <2>2, FormsAssumption DEF Lists, ListSound, Moved, Rests
<1>9. QED
  BY <1>1, <1>2, <1>2a, <1>3, <1>4, <1>5, <1>6, <1>7, <1>8

\* The forms of the programs.
New(f) == /\ f = [c \in DOMAIN f |-> f[c]]
          /\ \A c \in DOMAIN f : \E type : Created(f[c], type)

Holds(f, c, type) == c \in DOMAIN f /\ f[c].type = type

LEMMA Forms ==
  /\ \A p \in Programs : New(Layout[p])
  /\ Holds(Layout["temp"], "ExeMemo", "memo") /\ Holds(Layout["temp"], "ExeEdit", "edit")
  /\ Holds(Layout["gfile"], "FileList", "list") /\ Holds(Layout["gfile"], "PathEdit", "edit")
  /\ Holds(Layout["gfile"], "ActionEdit", "edit")
  /\ Holds(Layout["gfile"], "ExecEdit", "edit")
  /\ Holds(Layout["serial"], "memoRx", "memo")
  /\ Holds(Layout["tarefa"], "ExeMemo", "memo") /\ Holds(Layout["tarefa"], "EditPID", "edit")
  /\ Holds(Layout["tarefa"], "EditPath", "edit")
  /\ Holds(Layout["gpci"], "DevMemo", "memo")
  /\ Holds(Layout["terminal"], "TerminalMemo", "memo")
  /\ Programs = {"temp", "gfile", "serial", "tarefa", "gpci", "terminal"}
<1> DEFINE Made == {GUI_CreateButton, GUI_CreateLabel, GUI_CreateCheckBox,
                    GUI_CreateRadioButton, GUI_CreateEdit(TRUE), GUI_CreateEdit(FALSE),
                    GUI_CreateComboBox, GUI_CreateMemo, GUI_CreateListView,
                    GUI_CreateScrollBar}
<1>m. \A r \in Made : \E type : Created(r, type)
  BY Creations
<1>n. /\ GUI_CreateButton \in Made /\ GUI_CreateLabel \in Made
      /\ GUI_CreateCheckBox \in Made /\ GUI_CreateRadioButton \in Made
      /\ GUI_CreateEdit(TRUE) \in Made /\ GUI_CreateEdit(FALSE) \in Made
      /\ GUI_CreateComboBox \in Made /\ GUI_CreateMemo \in Made
      /\ GUI_CreateListView \in Made /\ GUI_CreateScrollBar \in Made
  OBVIOUS
<1> HIDE DEF Made
<1>1. /\ GUI_CreateMemo.type = "memo" /\ GUI_CreateListView.type = "list"
      /\ \A t \in BOOLEAN : GUI_CreateEdit(t).type = "edit"
  BY Creations DEF Created
<1>2. Programs = {"temp", "gfile", "serial", "tarefa", "gpci", "terminal"}
  BY DEF Programs, Layout
<1>3. /\ Layout["temp"] = Temp /\ Layout["gfile"] = Gfile /\ Layout["serial"] = Serial
      /\ Layout["tarefa"] = Tarefa /\ Layout["gpci"] = Gpci /\ Layout["terminal"] = Terminal
  BY DEF Layout
<1>4. New(Temp)
  <2>1. DOMAIN Temp = {"Label", "ExeButton", "ExeEdit", "ExeComboBox", "ExeCheckBox",
                       "ExeRadio1", "ExeRadio2", "CloseButton", "ExeMemo"}
    BY DEF Temp
  <2>2. Temp = [c \in DOMAIN Temp |-> Temp[c]]
    BY DEF Temp
  <2>3. /\ Temp["Label"] \in Made
        /\ Temp["ExeButton"] \in Made
        /\ Temp["ExeEdit"] \in Made
        /\ Temp["ExeComboBox"] \in Made
        /\ Temp["ExeCheckBox"] \in Made
        /\ Temp["ExeRadio1"] \in Made
        /\ Temp["ExeRadio2"] \in Made
        /\ Temp["CloseButton"] \in Made
        /\ Temp["ExeMemo"] \in Made
    BY <1>n DEF Temp
  <2>4. QED
    BY <2>1, <2>2, <2>3, <1>m DEF New
<1>5. New(Gfile)
  <2>1. DOMAIN Gfile = {"Label", "PathEdit", "GoButton", "FileList", "VScrollBar",
                        "ActionEdit", "BtnRename", "BtnDel", "BtnCopy", "ExecEdit",
                        "BtnExecutar"}
    BY DEF Gfile
  <2>2. Gfile = [c \in DOMAIN Gfile |-> Gfile[c]]
    BY DEF Gfile
  <2>3. /\ Gfile["Label"] \in Made
        /\ Gfile["VScrollBar"] \in Made
        /\ Gfile["PathEdit"] \in Made
        /\ Gfile["GoButton"] \in Made
        /\ Gfile["FileList"] \in Made
        /\ Gfile["ActionEdit"] \in Made
        /\ Gfile["BtnRename"] \in Made
        /\ Gfile["BtnDel"] \in Made
        /\ Gfile["BtnCopy"] \in Made
        /\ Gfile["ExecEdit"] \in Made
        /\ Gfile["BtnExecutar"] \in Made
    BY <1>n DEF Gfile
  <2>4. QED
    BY <2>1, <2>2, <2>3, <1>m DEF New
<1>6. New(Serial)
  <2>1. DOMAIN Serial = {"Label", "btnOpen", "btnWrite", "btnRead", "btnClose",
                         "editCmd", "cbBaud", "memoRx"}
    BY DEF Serial
  <2>2. Serial = [c \in DOMAIN Serial |-> Serial[c]]
    BY DEF Serial
  <2>3. /\ Serial["Label"] \in Made
        /\ Serial["btnOpen"] \in Made
        /\ Serial["btnWrite"] \in Made
        /\ Serial["btnRead"] \in Made
        /\ Serial["btnClose"] \in Made
        /\ Serial["editCmd"] \in Made
        /\ Serial["cbBaud"] \in Made
        /\ Serial["memoRx"] \in Made
    BY <1>n DEF Serial
  <2>4. QED
    BY <2>1, <2>2, <2>3, <1>m DEF New
<1>7. New(Tarefa)
  <2>1. DOMAIN Tarefa = {"BtnAtualizar", "ExeMemo", "BtnKillUnico", "EditPID",
                         "BtnExecutar", "EditPath"}
    BY DEF Tarefa
  <2>2. Tarefa = [c \in DOMAIN Tarefa |-> Tarefa[c]]
    BY DEF Tarefa
  <2>3. /\ Tarefa["BtnAtualizar"] \in Made
        /\ Tarefa["ExeMemo"] \in Made
        /\ Tarefa["BtnKillUnico"] \in Made
        /\ Tarefa["EditPID"] \in Made
        /\ Tarefa["BtnExecutar"] \in Made
        /\ Tarefa["EditPath"] \in Made
    BY <1>n DEF Tarefa
  <2>4. QED
    BY <2>1, <2>2, <2>3, <1>m DEF New
<1>8. New(Gpci)
  BY Creations DEF New, Gpci
<1>9. New(Terminal)
  BY Creations DEF New, Terminal
<1>10. Holds(Temp, "ExeMemo", "memo") /\ Holds(Temp, "ExeEdit", "edit")
  BY <1>1 DEF Holds, Temp
<1>11. /\ Holds(Gfile, "FileList", "list") /\ Holds(Gfile, "PathEdit", "edit")
       /\ Holds(Gfile, "ActionEdit", "edit") /\ Holds(Gfile, "ExecEdit", "edit")
  BY <1>1 DEF Holds, Gfile
<1>12. /\ Holds(Serial, "memoRx", "memo") /\ Holds(Tarefa, "ExeMemo", "memo")
       /\ Holds(Tarefa, "EditPID", "edit") /\ Holds(Tarefa, "EditPath", "edit")
       /\ Holds(Gpci, "DevMemo", "memo") /\ Holds(Terminal, "TerminalMemo", "memo")
  BY <1>1 DEF Holds, Serial, Tarefa, Gpci, Terminal
<1>13. QED
  BY <1>2, <1>3, <1>4, <1>5, <1>6, <1>7, <1>8, <1>9, <1>10, <1>11, <1>12

-----------------------------------------------------------------------------
\* What the SDK does to a form

\* It leads from the form f to g.
Leads(f, g) ==
  /\ Whole(g) /\ DOMAIN g = DOMAIN f
  /\ \A c \in DOMAIN f : Like(f[c], g[c])

LEMMA LeadsOn ==
  ASSUME NEW f, NEW g, NEW h, Leads(f, g), Leads(g, h)
  PROVE  Leads(f, h)
<1>1. ASSUME NEW c \in DOMAIN f PROVE Like(f[c], h[c])
  <2>1. c \in DOMAIN g /\ Like(f[c], g[c]) /\ Like(g[c], h[c])
    BY DEF Leads
  <2>2. QED
    BY <2>1, LikeOn
<1>2. QED
  BY <1>1 DEF Leads

LEMMA LeadsItself ==
  ASSUME NEW f, Whole(f)
  PROVE  Leads(f, f)
  BY LikeItself DEF Leads

LEMMA LeadsBy ==
  ASSUME NEW f, Whole(f), NEW c \in DOMAIN f, NEW r, Sound(r), Like(f[c], r)
  PROVE  Leads(f, [f EXCEPT ![c] = r])
<1> DEFINE g == [f EXCEPT ![c] = r]
<1>1. g = [d \in DOMAIN f |-> IF d = c THEN r ELSE f[d]]
  BY DEF Whole
<1> HIDE DEF g
<1>2. g = [d \in DOMAIN g |-> g[d]] /\ DOMAIN g = DOMAIN f
      /\ g[c] = r /\ \A d \in DOMAIN f : d # c => g[d] = f[d]
  BY <1>1
<1>3. r.type = f[c].type
  BY DEF Like
<1>4. Whole(g)
  BY <1>2, <1>3 DEF Whole
<1>5. \A d \in DOMAIN f : Like(f[d], g[d])
  BY <1>2, LikeItself
<1>6. QED
  BY <1>2, <1>4, <1>5 DEF Leads, g

LEMMA HoldsSame ==
  ASSUME NEW f, NEW g, Leads(f, g), NEW c, NEW type, Holds(f, c, type)
  PROVE  Holds(g, c, type)
  BY DEF Leads, Holds, Like

LEMMA MemoOf ==
  ASSUME NEW f, Whole(f), NEW m, Holds(f, m, "memo")
  PROVE  m \in DOMAIN f /\ MemoSound(f[m])
  BY KindOf DEF Whole, Holds

LEMMA ListOf ==
  ASSUME NEW f, Whole(f), NEW m, Holds(f, m, "list")
  PROVE  m \in DOMAIN f /\ ListSound(f[m])
  BY KindOf DEF Whole, Holds

LEMMA EditOf ==
  ASSUME NEW f, Whole(f), NEW m, Holds(f, m, "edit")
  PROVE  m \in DOMAIN f /\ EditSound(f[m])
  BY KindOf DEF Whole, Holds

\* Sets of forms to which the SDK leads from f.
AllFrom(f, F) == \A g \in F : Leads(f, g)

LEMMA SayLeads ==
  ASSUME NEW f, NEW F, AllFrom(f, F), NEW m, Holds(f, m, "memo")
  PROVE  AllFrom(f, Say(F, m))
<1> SUFFICES ASSUME NEW h \in Say(F, m) PROVE Leads(f, h)
  BY DEF AllFrom
<1>1. PICK g \in F : \E r \in AddChar(g[m]) : h = [g EXCEPT ![m] = r]
  BY DEF Say
<1>2. PICK r \in AddChar(g[m]) : h = [g EXCEPT ![m] = r]
  BY <1>1
<1>3. Leads(f, g) /\ Whole(g) /\ Holds(g, m, "memo")
  BY HoldsSame DEF AllFrom, Leads
<1>4. m \in DOMAIN g /\ MemoSound(r) /\ Like(g[m], r)
  BY <1>3, MemoOf, AddCharKeeps
<1>5. Leads(g, h)
  BY <1>2, <1>3, <1>4, LeadsBy DEF Sound
<1>6. QED
  BY <1>3, <1>5, LeadsOn

LEMMA SetTextLeads ==
  ASSUME NEW f, NEW g, Leads(f, g), NEW e, Holds(f, e, "edit"), NEW t \in BOOLEAN
  PROVE  Leads(f, SetText(g, e, t))
<1> DEFINE r == gui_set_prop([g[e] EXCEPT !.Text = t], "CAPTION", t)
<1>1. Whole(g) /\ Holds(g, e, "edit")
  BY HoldsSame DEF Leads
<1>2. e \in DOMAIN g /\ EditSound(g[e])
  BY <1>1, EditOf
<1>3. EditSound(r) /\ Like(g[e], r)
  BY <1>2, TextKeeps
<1>4. SetText(g, e, t) = [g EXCEPT ![e] = r]
  BY DEF SetText
<1> HIDE DEF r
<1>5. Sound(r)
  BY <1>3 DEF Sound
<1>6. Leads(g, [g EXCEPT ![e] = r])
  BY <1>1, <1>2, <1>3, <1>5, LeadsBy
<1>7. QED
  BY <1>4, <1>6, LeadsOn

LEMMA LoadedLeads ==
  ASSUME NEW f, Whole(f), Holds(f, "FileList", "list"), Holds(f, "PathEdit", "edit")
  PROVE  AllFrom(f, Loaded(f))
<1> SUFFICES ASSUME NEW h \in Loaded(f) PROVE Leads(f, h)
  BY DEF AllFrom
<1>1. PICK l \in Listed(ClearList(f["FileList"])), g \in {f, SetText(f, "PathEdit", TRUE)} :
        h = [g EXCEPT !["FileList"] = l]
  BY DEF Loaded
<1>2. Leads(f, g) /\ Whole(g)
  <2>1. Leads(f, f)
    BY LeadsItself
  <2>2. Leads(f, SetText(f, "PathEdit", TRUE))
    BY <2>1, SetTextLeads
  <2>3. QED
    BY <1>1, <2>1, <2>2 DEF Leads
<1>3. "FileList" \in DOMAIN g /\ ListSound(f["FileList"])
  BY <1>2, ListOf DEF Leads
<1>4. /\ ListSound(ClearList(f["FileList"]))
      /\ Like(f["FileList"], ClearList(f["FileList"]))
  BY <1>3, ClearListKeeps
<1>5. ListSound(l) /\ Like(f["FileList"], l)
  BY <1>4, ListedKeeps, LikeOn
<1>6. g["FileList"] = f["FileList"]
  <2>1. CASE g = f
    BY <2>1
  <2>2. CASE g = SetText(f, "PathEdit", TRUE)
    <3>1. "FileList" # "PathEdit" /\ "FileList" \in DOMAIN f
      BY DEF Holds
    <3>2. QED
      BY <2>2, <3>1 DEF SetText
  <2>3. QED
    BY <2>1, <2>2
<1>7. Leads(g, h)
  BY <1>1, <1>2, <1>3, <1>5, <1>6, LeadsBy DEF Sound
<1>8. QED
  BY <1>2, <1>7, LeadsOn

LEMMA AllFromFacts ==
  ASSUME NEW f, Whole(f)
  PROVE  /\ AllFrom(f, {f})
         /\ \A F, G : AllFrom(f, F) /\ AllFrom(f, G) => AllFrom(f, F \cup G)
         /\ \A g, h : Leads(f, g) /\ Leads(f, h) => AllFrom(f, {g, h}) /\ AllFrom(f, {g})
  BY LeadsItself DEF AllFrom

\* The controls that have a callback.
Called == {"button", "combo", "checkbox", "radio"}

LEMMA Callbacks ==
  /\ \A c \in DOMAIN Gfile : Gfile[c].type \in Called =>
       c \in {"GoButton", "BtnRename", "BtnDel", "BtnCopy", "BtnExecutar"}
  /\ \A c \in DOMAIN Serial : Serial[c].type \in Called =>
       c \in {"btnOpen", "btnWrite", "btnRead", "btnClose", "cbBaud"}
<1>1. /\ GUI_CreateMemo.type = "memo" /\ GUI_CreateListView.type = "list"
      /\ GUI_CreateEdit(TRUE).type = "edit" /\ GUI_CreateEdit(FALSE).type = "edit"
      /\ GUI_CreateLabel.type = "label" /\ GUI_CreateScrollBar.type = "scrollbar"
  BY Creations DEF Created
<1>2. DOMAIN Gfile = {"Label", "PathEdit", "GoButton", "FileList", "VScrollBar",
                      "ActionEdit", "BtnRename", "BtnDel", "BtnCopy", "ExecEdit",
                      "BtnExecutar"}
  BY DEF Gfile
<1>3. /\ Gfile["PathEdit"].type = "edit" /\ Gfile["FileList"].type = "list"
      /\ Gfile["ActionEdit"].type = "edit" /\ Gfile["ExecEdit"].type = "edit"
      /\ Gfile["Label"].type = "label" /\ Gfile["VScrollBar"].type = "scrollbar"
  BY <1>1 DEF Gfile
<1>4. DOMAIN Serial = {"Label", "btnOpen", "btnWrite", "btnRead", "btnClose", "editCmd",
                       "cbBaud", "memoRx"}
  BY DEF Serial
<1>5. /\ Serial["editCmd"].type = "edit" /\ Serial["memoRx"].type = "memo"
      /\ Serial["Label"].type = "label"
  BY <1>1 DEF Serial
<1>6. QED
  BY <1>2, <1>3, <1>4, <1>5 DEF Called

\* A callback leads to a form, and may hide the window but never show it.
LEMMA OnClickLeads ==
  ASSUME NEW f, Whole(f), prog \in Programs, NEW c \in DOMAIN f, f[c].type \in Called,
         OnClick(f, c)
  PROVE  Leads(f, ctl') /\ visible' \in {visible, FALSE}
<1> USE AllFromFacts
<1>0. \A F : Stays(F) /\ AllFrom(f, F) => Leads(f, ctl') /\ visible' \in {visible, FALSE}
  BY DEF Stays, AllFrom
<1>a. \A m, type : Holds(Layout[prog], m, type) => Holds(f, m, type)
  BY DEF Whole, Holds
<1>b. \A e, t : Holds(f, e, "edit") /\ t \in BOOLEAN => Leads(f, SetText(f, e, t))
  BY LeadsItself, SetTextLeads
<1>c. f[c].type = Layout[prog][c].type /\ c \in DOMAIN Layout[prog]
  BY DEF Whole
<1>1. CASE prog = "temp" /\ TempOnClick(f, c)
  <2>1. Holds(f, "ExeMemo", "memo")
    BY <1>1, <1>a, Forms
  <2>2. AllFrom(f, Say({f}, "ExeMemo"))
    BY <2>1, SayLeads
  <2>3. AllFrom(f, Say(Say({f}, "ExeMemo"), "ExeMemo"))
    BY <2>1, <2>2, SayLeads
  <2>4. ctl' \in Say({f}, "ExeMemo") /\ Closed =>
          Leads(f, ctl') /\ visible' \in {visible, FALSE}
    BY <2>2 DEF AllFrom, Closed
  <2>5. QED
    BY <1>0, <1>1, <2>2, <2>3, <2>4 DEF TempOnClick
<1>2. CASE prog = "gfile" /\ GfileOnClick(f, c)
  <2>1. /\ Holds(f, "FileList", "list") /\ Holds(f, "PathEdit", "edit")
        /\ Holds(f, "ActionEdit", "edit") /\ Holds(f, "ExecEdit", "edit")
    BY <1>2, <1>a, Forms
  <2>2. c \in {"GoButton", "BtnRename", "BtnDel", "BtnCopy", "BtnExecutar"}
    BY <1>2, <1>c, Callbacks DEF Layout
  <2>3. AllFrom(f, Loaded(f))
    BY <2>1, LoadedLeads
  <2> DEFINE acted == {SetText(g, "ActionEdit", FALSE) : g \in Loaded(f)}
  <2>4. AllFrom(f, acted)
    <3>1. ASSUME NEW g \in Loaded(f) PROVE Leads(f, SetText(g, "ActionEdit", FALSE))
      <4>1. Leads(f, g) /\ FALSE \in BOOLEAN
        BY <2>3 DEF AllFrom
      <4>2. QED
        BY <4>1, <2>1, SetTextLeads
    <3>2. QED
      BY <3>1 DEF AllFrom
  <2>5. AllFrom(f, acted \cup {f}) /\ AllFrom(f, {f})
    BY <2>4
  <2>6. AllFrom(f, {SetText(f, "ExecEdit", FALSE), f})
    BY <2>1, <1>b, LeadsItself
  <2>7. \E F \in {Loaded(f), acted, {f}, acted \cup {f}, {SetText(f, "ExecEdit", FALSE), f}} :
          Stays(F)
    BY <1>2, <2>2 DEF GfileOnClick
  <2> HIDE DEF acted
  <2>8. QED
    BY <1>0, <2>3, <2>4, <2>5, <2>6, <2>7
<1>3. CASE prog = "serial" /\ SerialOnClick(f, c)
  <2>1. Holds(f, "memoRx", "memo")
    BY <1>3, <1>a, Forms
  <2>2. c \in {"btnOpen", "btnWrite", "btnRead", "btnClose", "cbBaud"}
    BY <1>3, <1>c, Callbacks DEF Layout
  <2> DEFINE said == Say({f}, "memoRx")
  <2>3. AllFrom(f, said)
    BY <2>1, SayLeads
  <2>4. AllFrom(f, Say(said, "memoRx"))
    BY <2>1, <2>3, SayLeads
  <2>5. AllFrom(f, {f} \cup said) /\ AllFrom(f, said \cup Say(said, "memoRx"))
    BY <2>3, <2>4
  <2>6. \E F \in {{f} \cup said, said, said \cup Say(said, "memoRx")} : Stays(F)
    BY <1>3, <2>2 DEF SerialOnClick
  <2> HIDE DEF said
  <2>7. QED
    BY <1>0, <2>3, <2>5, <2>6
<1>4. CASE prog = "tarefa" /\ TarefaOnClick(f, c)
  <2>1. /\ Holds(f, "ExeMemo", "memo") /\ Holds(f, "EditPID", "edit")
        /\ Holds(f, "EditPath", "edit")
    BY <1>4, <1>a, Forms
  <2>2. AllFrom(f, Say(Say({f}, "ExeMemo"), "ExeMemo"))
    BY <2>1, SayLeads
  <2>3. Leads(f, SetText(f, "EditPath", FALSE)) /\ Leads(f, SetText(f, "EditPID", FALSE))
    BY <2>1, <1>b
  <2>4. AllFrom(f, Say({SetText(f, "EditPath", FALSE)}, "ExeMemo"))
    BY <2>1, <2>3, SayLeads
  <2>5. AllFrom(f, {f} \cup Say({SetText(f, "EditPath", FALSE)}, "ExeMemo"))
    BY <2>4
  <2>6. AllFrom(f, {f, SetText(f, "EditPID", FALSE)})
    BY <2>3, LeadsItself
  <2>7. ctl' = f /\ UNCHANGED visible => Leads(f, ctl') /\ visible' \in {visible, FALSE}
    BY LeadsItself
  <2>8. \/ \E F \in {Say(Say({f}, "ExeMemo"), "ExeMemo"), {f},
                     {f} \cup Say({SetText(f, "EditPath", FALSE)}, "ExeMemo"),
                     {f, SetText(f, "EditPID", FALSE)}} : Stays(F)
        \/ ctl' = f /\ UNCHANGED visible
    BY <1>4 DEF TarefaOnClick
  <2>9. QED
    BY <1>0, <2>2, <2>5, <2>6, <2>7, <2>8
<1>5. CASE prog = "gpci" /\ GpciOnClick(f, c)
  <2>1. Holds(f, "DevMemo", "memo")
    BY <1>5, <1>a, Forms
  <2>2. AllFrom(f, Say(Say({f}, "DevMemo"), "DevMemo"))
    BY <2>1, SayLeads
  <2>3. QED
    BY <1>0, <1>5, <2>2 DEF GpciOnClick
<1>6. QED
  BY <1>1, <1>2, <1>3, <1>4, <1>5 DEF OnClick

-----------------------------------------------------------------------------
\* What the lower layer does to a form, and the SDK's switches

\* The switches agree, of a group of radio buttons one is on at most.
Agree(f) == \A c \in DOMAIN f : f[c].type \in Switches => f[c].kChecked = f[c].Checked

OneRadio(f) ==
  \A c, d \in DOMAIN f : f[c].type = "radio" /\ f[d].type = "radio" =>
    /\ f[c].Checked /\ f[d].Checked => c = d
    /\ f[c].kChecked /\ f[d].kChecked => c = d

\* The lower layer has been told of a click at a, the SDK not yet.
Pending(f, a) ==
  \A c \in DOMAIN f :
    /\ f[c].type = "checkbox" =>
         f[c].kChecked = IF c = a THEN ~f[c].Checked ELSE f[c].Checked
    /\ f[c].type = "radio" =>
         f[c].kChecked = IF a \in DOMAIN f /\ f[a].type = "radio" THEN c = a
                         ELSE f[c].Checked

\* Nothing is down but a list of two rows.
AllUp(f) ==
  \A c \in DOMAIN f : /\ f[c].type \in HasState => f[c].kState = 0
                      /\ f[c].type = "list" => Rests(f[c])

Room(f) == \A c \in DOMAIN f : f[c].type = "list" => f[c].LVItemCount <= f[c].room

LEMMA LeadsKeeps ==
  ASSUME NEW f, NEW g, Whole(f), Leads(f, g)
  PROVE  /\ DOMAIN g = DOMAIN f /\ \A c \in DOMAIN f : g[c].type = f[c].type
         /\ Agree(f) => Agree(g)
         /\ OneRadio(f) => OneRadio(g)
         /\ AllUp(f) => AllUp(g)
<1>1. /\ DOMAIN g = DOMAIN f /\ \A c \in DOMAIN f : g[c].type = f[c].type
      /\ \A c \in DOMAIN f : f[c].type \in Switches => g[c] = f[c]
      /\ \A c \in DOMAIN f : f[c].type \in HasState => g[c].kState = f[c].kState
      /\ \A c \in DOMAIN f : f[c].type = "list" /\ Rests(f[c]) => Rests(g[c])
  BY DEF Leads, Like
<1>2. Agree(f) => Agree(g)
  BY <1>1 DEF Agree
<1>3. OneRadio(f) => OneRadio(g)
  <2>1. \A c \in DOMAIN f : f[c].type = "radio" => g[c] = f[c]
    BY <1>1 DEF Switches
  <2>2. QED
    BY <1>1, <2>1 DEF OneRadio
<1>4. AllUp(f) => AllUp(g)
  BY <1>1 DEF AllUp
<1>5. QED
  BY <1>1, <1>2, <1>3, <1>4

LEMMA SetKState ==
  ASSUME NEW r, Sound(r), r.type \in HasState \cup {"list"}, NEW s \in Levels
  PROVE  LET q == [r EXCEPT !.kState = s]
         IN /\ Sound(q) /\ q.type = r.type /\ q.kState = s
            /\ r.type = "list" => q.LVItemCount = r.LVItemCount /\ q.room = r.room
<1> DEFINE q == [r EXCEPT !.kState = s]
<1>1. CASE r.type = "button"
  <2>1. q \in Buttons /\ q.type = r.type /\ q.kState = s
    BY <1>1, KindOf DEF Buttons
  <2>2. QED
    BY <2>1 DEF Sound
<1>2. CASE r.type = "label"
  <2>1. q \in Labels /\ q.type = r.type /\ q.kState = s
    BY <1>2, KindOf DEF Labels
  <2>2. QED
    BY <2>1 DEF Sound
<1>3. CASE r.type = "edit"
  <2>1. EditSound(q) /\ q.type = r.type /\ q.kState = s
    BY <1>3, KindOf DEF EditSound, Edits
  <2>2. QED
    BY <2>1 DEF Sound
<1>4. CASE r.type = "combo"
  <2>1. ComboSound(q) /\ q.type = r.type /\ q.kState = s
    BY <1>4, KindOf DEF ComboSound, Combos
  <2>2. QED
    BY <2>1 DEF Sound
<1>5. CASE r.type = "memo"
  <2>1. MemoSound(r) /\ r \in Memos
    BY <1>5, KindOf DEF MemoSound, Fits
  <2>2. q \in Memos /\ q.type = r.type /\ q.kState = s
    BY <2>1 DEF Memos
  <2>3. SameText(r, q) /\ q.kTextPointer = r.kTextPointer
    BY <2>1 DEF Memos, SameText
  <2>4. MemoSound(q)
    BY <2>1, <2>2, <2>3 DEF MemoSound, Fits, SameText
  <2>5. QED
    BY <2>2, <2>4 DEF Sound
<1>6. CASE r.type = "scrollbar"
  <2>1. q \in ScrollBars /\ q.type = r.type /\ q.kState = s
    BY <1>6, KindOf DEF ScrollBars
  <2>2. QED
    BY <1>6, <2>1 DEF Sound
<1>7. CASE r.type = "list"
  <2>1. ListSound(r) /\ r \in Lists
    BY <1>7, KindOf DEF ListSound
  <2>2. q \in Lists /\ q.type = r.type /\ q.kState = s /\ SameRows(r, q)
    BY <2>1 DEF Lists, SameRows
  <2>3. q.kItems = r.kItems /\ q.kItemCount = r.kItemCount /\ q.kItemIndex = r.kItemIndex
    BY <2>1 DEF Lists
  <2>4. ListSound(q)
    BY <2>1, <2>2, <2>3 DEF ListSound, SameRows
  <2>5. QED
    BY <2>2, <2>4 DEF Sound, SameRows
<1>8. QED
  BY <1>1, <1>2, <1>3, <1>4, <1>5, <1>6, <1>7 DEF HasState

LEMMA SetStateKeeps ==
  ASSUME NEW f, Whole(f), NEW s \in Levels, NEW cs, NEW g, g = SetState(f, s, cs)
  PROVE  /\ Whole(g) /\ DOMAIN g = DOMAIN f
         /\ \A c \in DOMAIN f : g[c].type = f[c].type
         /\ \A c \in DOMAIN f : f[c].type \in Switches => g[c] = f[c]
         /\ Room(f) => Room(g)
         /\ DOMAIN f \subseteq cs /\ s = 0 => AllUp(g)
<1> DEFINE Has == HasState \cup {"list"}
<1>1. \A c \in DOMAIN f : Sound(f[c])
  BY DEF Whole
<1>2. \A c \in DOMAIN f : "kState" \in DOMAIN f[c] <=> f[c].type \in Has
  BY <1>1, StateOf
<1>3. /\ g = [c \in DOMAIN g |-> g[c]] /\ DOMAIN g = DOMAIN f
      /\ \A c \in DOMAIN f :
           g[c] = IF c \in cs /\ f[c].type \in Has THEN [f[c] EXCEPT !.kState = s]
                  ELSE f[c]
  BY <1>2 DEF SetState
<1>4. ASSUME NEW c \in DOMAIN f
      PROVE  /\ Sound(g[c]) /\ g[c].type = f[c].type
             /\ f[c].type \notin Has => g[c] = f[c]
             /\ c \in cs /\ f[c].type \in Has => g[c].kState = s
             /\ f[c].type = "list" =>
                  g[c].LVItemCount = f[c].LVItemCount /\ g[c].room = f[c].room
  <2> DEFINE q == [f[c] EXCEPT !.kState = s]
  <2>1. f[c].type \in Has =>
          /\ Sound(q) /\ q.type = f[c].type /\ q.kState = s
          /\ f[c].type = "list" => q.LVItemCount = f[c].LVItemCount /\ q.room = f[c].room
    BY <1>1, SetKState
  <2>2. g[c] = IF c \in cs /\ f[c].type \in Has THEN q ELSE f[c]
    BY <1>3
  <2> HIDE DEF q
  <2>3. QED
    BY <1>1, <2>1, <2>2
<1>5. Whole(g)
  BY <1>3, <1>4 DEF Whole
<1>6. Room(f) => Room(g)
  BY <1>3, <1>4 DEF Room
<1>7. ASSUME DOMAIN f \subseteq cs, s = 0 PROVE AllUp(g)
  <2>1. \A c \in DOMAIN f : f[c].type \in Has => g[c].kState = 0
    BY <1>4, <1>7
  <2>2. QED
    BY <1>3, <1>4, <2>1 DEF AllUp, Rests
<1>8. QED
  BY <1>3, <1>4, <1>5, <1>6, <1>7 DEF Switches, HasState

\* One of a switch's two records is set.
LEMMA SwitchSet ==
  ASSUME NEW r, Sound(r), r.type \in Switches, NEW b \in BOOLEAN
  PROVE  /\ LET q == [r EXCEPT !.kChecked = b]
            IN /\ Sound(q) /\ q.type = r.type /\ q.Checked = r.Checked /\ q.kChecked = b
         /\ LET q == [r EXCEPT !.Checked = b]
            IN /\ Sound(q) /\ q.type = r.type /\ q.Checked = b /\ q.kChecked = r.kChecked
<1>1. CASE r.type = "checkbox"
  <2>1. r \in CheckBoxes
    BY <1>1, KindOf
  <2>2. QED
    BY <2>1 DEF CheckBoxes, Sound
<1>2. CASE r.type = "radio"
  <2>1. r \in RadioButtons
    BY <1>2, KindOf
  <2>2. QED
    BY <2>1 DEF RadioButtons, Sound
<1>3. QED
  BY <1>1, <1>2 DEF Switches

-----------------------------------------------------------------------------
\* The invariant

Typing == {"edit", "memo"}

\* The control that shows the cursor gets the keys, ...
CursorAgrees ==
  focused # None /\ ctl[focused].type \in Typing => ActiveFocus = focused

TypesInv ==
  /\ prog \in Programs /\ Whole(ctl)
  /\ visible \in BOOLEAN /\ timer \in 0 .. 2
  /\ pc = "dispatch" => at \in Places

\* ... unless it was clicked just now, and the SDK does not know yet.
FocusInv ==
  /\ focused \in Controls \cup {None}
  /\ ActiveFocus # None =>
       ActiveFocus \in Controls /\ ctl[ActiveFocus].type \in Typing \cup {"list"}
  /\ CursorAgrees \/ (pc = "dispatch" /\ focused = at.control)

AgreeInv ==
  /\ OneRadio(ctl)
  /\ inStack /\ visible =>
       IF pc = "dispatch" THEN Pending(ctl, at.control) ELSE Agree(ctl)

\* What is down is released at the end of the hold, and a form that has left
\* the stack, which hears of no release, was left with nothing down.
UpInv ==
  /\ ~moved
  /\ timer = 0 => ~buttons /\ ~dragging
  /\ timer = 0 \/ ~inStack => AllUp(ctl)

RoomInv == pc # "ruined" => Room(ctl)

FormInv == TypesInv /\ FocusInv /\ AgreeInv /\ UpInv /\ RoomInv

LEMMA NamesApart ==
  \A p \in Programs : DOMAIN Layout[p] \cap (Bare \cup {None}) = {}
<1>1. DOMAIN Temp \cap (Bare \cup {None}) = {} /\ DOMAIN Gfile \cap (Bare \cup {None}) = {}
  BY DEF Temp, Gfile, Bare, None
<1>2. /\ DOMAIN Serial \cap (Bare \cup {None}) = {}
      /\ DOMAIN Tarefa \cap (Bare \cup {None}) = {}
  BY DEF Serial, Tarefa, Bare, None
<1>3. DOMAIN Gpci \cap (Bare \cup {None}) = {} /\ DOMAIN Terminal \cap (Bare \cup {None}) = {}
  BY DEF Gpci, Terminal, Bare, None
<1>4. /\ Layout["temp"] = Temp /\ Layout["gfile"] = Gfile /\ Layout["serial"] = Serial
      /\ Layout["tarefa"] = Tarefa /\ Layout["gpci"] = Gpci /\ Layout["terminal"] = Terminal
  BY DEF Layout
<1>5. QED
  BY <1>1, <1>2, <1>3, <1>4, Forms

LEMMA ControlsApart ==
  ASSUME prog \in Programs, Whole(ctl)
  PROVE  \A c \in Controls : c \notin Bare /\ c # None
  BY NamesApart DEF Whole, Controls

LEMMA FormInit == Init => FormInv
<1> SUFFICES ASSUME Init PROVE FormInv
  OBVIOUS
<1>1. prog \in Programs /\ ctl = Layout[prog]
  BY DEF Init
<1>2. ctl = [c \in DOMAIN ctl |-> ctl[c]] /\ \A c \in DOMAIN ctl : \E type : Created(ctl[c], type)
  BY <1>1, Forms DEF New
<1>3. ASSUME NEW c \in DOMAIN ctl
      PROVE  /\ Sound(ctl[c])
             /\ ctl[c].type \in HasState => ctl[c].kState = 0
             /\ ctl[c].type \in Switches => ~ctl[c].Checked /\ ~ctl[c].kChecked
             /\ ctl[c].type = "list" => ctl[c].LVItemCount <= ctl[c].room /\ Rests(ctl[c])
  BY <1>2 DEF Created
<1>4. Whole(ctl)
  BY <1>1, <1>2, <1>3 DEF Whole
<1>5. TypesInv
  BY <1>1, <1>4 DEF Init, TypesInv
<1>6. FocusInv
  BY DEF Init, FocusInv, CursorAgrees
<1>7. Agree(ctl) /\ OneRadio(ctl)
  <2>1. ASSUME NEW c \in DOMAIN ctl, ctl[c].type \in Switches
        PROVE  ctl[c].Checked \in BOOLEAN /\ ctl[c].kChecked \in BOOLEAN
    <3>1. ctl[c] \in CheckBoxes \cup RadioButtons
      BY <1>3, <2>1, KindOf DEF Switches
    <3>2. QED
      BY <3>1 DEF CheckBoxes, RadioButtons
  <2>2. Agree(ctl)
    BY <1>3, <2>1 DEF Agree
  <2>3. OneRadio(ctl)
    BY <1>3 DEF OneRadio, Switches
  <2>4. QED
    BY <2>2, <2>3
<1>8. AgreeInv
  BY <1>7 DEF Init, AgreeInv
<1>9. UpInv /\ RoomInv
  BY <1>3 DEF Init, UpInv, RoomInv, AllUp, Room
<1>10. QED
  BY <1>5, <1>6, <1>8, <1>9 DEF FormInv

\* A step that leads from the form to another and has to do with no click.
LEMMA QuietStep ==
  ASSUME FormInv, UNCHANGED <<prog, manager, timer, focused, ActiveFocus>>,
         visible' \in {visible, FALSE}, Leads(ctl, ctl'),
         pc # "dispatch", pc' # "dispatch", pc' # "ruined" => Room(ctl')
  PROVE  FormInv'
<1>1. Whole(ctl)' /\ prog' \in Programs
  BY DEF Leads, Whole, FormInv, TypesInv
<1>2. /\ DOMAIN ctl' = DOMAIN ctl /\ \A c \in DOMAIN ctl : ctl'[c].type = ctl[c].type
      /\ Agree(ctl) => Agree(ctl')
      /\ OneRadio(ctl) => OneRadio(ctl')
      /\ AllUp(ctl) => AllUp(ctl')
  <2>1. Whole(ctl)
    BY DEF FormInv, TypesInv
  <2>2. QED
    BY <2>1, LeadsKeeps
<1>3. TypesInv'
  BY <1>1 DEF FormInv, TypesInv
<1>4. FocusInv'
  BY <1>2 DEF FormInv, FocusInv, CursorAgrees, Controls
<1>5. AgreeInv'
  <2>1. (visible' => visible) /\ inStack' = inStack
    <3>1. inStack' = inStack
      BY DEF manager
    <3>2. CASE visible' = visible
      BY <3>1, <3>2
    <3>3. CASE visible' = FALSE
      BY <3>1, <3>3
    <3>4. QED
      BY <3>2, <3>3
  <2>2. OneRadio(ctl') /\ (inStack /\ visible => Agree(ctl'))
    BY <1>2 DEF FormInv, AgreeInv
  <2>3. QED
    BY <2>1, <2>2 DEF AgreeInv
<1>6. UpInv'
  BY <1>2 DEF FormInv, UpInv, manager
<1>7. RoomInv'
  BY DEF RoomInv
<1>8. QED
  BY <1>3, <1>4, <1>5, <1>6, <1>7 DEF FormInv

\* After an overrun of an array the program is ruined.
LEMMA RoomOrRuin ==
  ASSUME NEW f, Whole(f), ~Overrun(f)
  PROVE  Room(f)
<1> SUFFICES ASSUME NEW c \in DOMAIN f, f[c].type = "list"
             PROVE  f[c].LVItemCount <= f[c].room
  BY DEF Room
<1>1. ListSound(f[c])
  BY KindOf DEF Whole
<1>2. ~(f[c].LVItemCount > f[c].room)
  BY DEF Overrun
<1>3. QED
  BY <1>1, <1>2 DEF ListSound, Lists

LEMMA BeginKeeps ==
  ASSUME FormInv, NEW First, AllFrom(ctl, First), Begin(First)
  PROVE  FormInv'
<1>1. Leads(ctl, ctl')
  BY DEF Begin, AllFrom
<1>2. pc' # "ruined" => Room(ctl')
  BY <1>1, RoomOrRuin DEF Begin, Leads
<1>3. /\ pc # "dispatch" /\ pc' # "dispatch" /\ visible' \in {visible, FALSE}
      /\ UNCHANGED <<prog, manager, timer, focused, ActiveFocus>>
  BY DEF Begin, window
<1>4. QED
  BY <1>1, <1>2, <1>3, QuietStep

LEMMA IdleKeeps ==
  ASSUME FormInv, Leave \/ Head \/ LongText \/ NoClick
  PROVE  FormInv'
<1>1. ctl' = ctl /\ Leads(ctl, ctl')
  BY LeadsItself DEF Leave, Head, LongText, NoClick, FormInv, TypesInv
<1>2. pc # "dispatch" /\ pc # "ruined" /\ pc' # "dispatch"
  BY DEF Leave, Head, LongText, NoClick, Step
<1>3. Room(ctl')
  BY <1>1, <1>2 DEF FormInv, RoomInv
<1>4. visible' \in {visible, FALSE} /\ UNCHANGED <<prog, manager, timer, focused, ActiveFocus>>
  BY DEF Leave, Head, LongText, NoClick, window
<1>5. QED
  BY <1>1, <1>2, <1>3, <1>4, QuietStep

LEMMA CloseKeeps ==
  ASSUME FormInv, Close
  PROVE  FormInv'
  BY DEF Close, FormInv, TypesInv, FocusInv, CursorAgrees, AgreeInv, UpInv, RoomInv, manager,
         Whole, Places, Parts, Controls

\* Keys touch no list.
SameLists(f, g) == \A c \in DOMAIN f : f[c].type = "list" => g[c] = f[c]

LEMMA SameRoom ==
  ASSUME NEW f, NEW g, Leads(f, g), SameLists(f, g), Room(f)
  PROVE  Room(g)
  BY DEF Leads, Like, SameLists, Room

LEMMA TypedLeads ==
  ASSUME Whole(ctl), NEW c, c = None \/ (c \in Controls /\ ctl[c].type \in Typing \cup {"list"}),
         c = None => c \notin Controls, GUI_ProcessKeyboard(c)
  PROVE  Leads(ctl, ctl') /\ SameLists(ctl, ctl')
<1>1. CASE ctl' = ctl
  BY <1>1, LeadsItself DEF SameLists
<1>2. ASSUME c \in DOMAIN ctl, ctl[c].type # "list", NEW r, ctl' = [ctl EXCEPT ![c] = r]
      PROVE  SameLists(ctl, ctl')
  BY <1>2 DEF SameLists
<1>3. CASE c \in Controls /\ ctl[c].type = "edit"
  <2>1. PICK t \in BOOLEAN : ctl' = SetText(ctl, c, t)
    BY <1>3 DEF GUI_ProcessKeyboard
  <2>2. Leads(ctl, ctl')
    BY <2>1, <1>3, LeadsItself, SetTextLeads DEF Holds, Controls
  <2>3. QED
    BY <2>1, <2>2, <1>2, <1>3 DEF SetText, Controls
<1>4. CASE c \in Controls /\ ctl[c].type = "memo"
  <2>0. MemoSound(ctl[c]) /\ c \in DOMAIN ctl
    BY <1>4, KindOf DEF Whole, Controls
  <2>1. \/ ctl' = [ctl EXCEPT ![c] = Backspace(ctl[c])]
        \/ ctl' \in Say({ctl}, c)
    BY <1>4 DEF GUI_ProcessKeyboard
  <2>2. ctl' \in Say({ctl}, c) => \E r \in AddChar(ctl[c]) : ctl' = [ctl EXCEPT ![c] = r]
    BY DEF Say
  <2>3. PICK r : ctl' = [ctl EXCEPT ![c] = r] /\ MemoSound(r) /\ Like(ctl[c], r)
    BY <2>0, <2>1, <2>2, BackspaceKeeps, AddCharKeeps
  <2>4. QED
    BY <2>0, <2>3, <1>2, <1>4, LeadsBy DEF Sound
<1>5. QED
  BY <1>1, <1>3, <1>4 DEF GUI_ProcessKeyboard, Typing

LEMMA TerminalLeads ==
  ASSUME Whole(ctl), prog = "terminal", NEW c, TerminalKey(c)
  PROVE  Leads(ctl, ctl') /\ SameLists(ctl, ctl')
<1> DEFINE m == "TerminalMemo"
           entered == Say({ctl}, m)
           cleared == {[f EXCEPT ![m] = Clear(@)] : f \in entered}
           answered == Say(entered, m) \cup cleared
<1>1. Holds(ctl, m, "memo")
  BY Forms DEF Whole, Holds
<1>2. AllFrom(ctl, {ctl}) /\ AllFrom(ctl, entered)
  BY <1>1, AllFromFacts, SayLeads
<1>3. AllFrom(ctl, Say(entered, m))
  BY <1>1, <1>2, SayLeads
<1>4. ASSUME NEW f, Leads(ctl, f), NEW r, NEW g, g = [f EXCEPT ![m] = r],
             r = Clear(f[m]) \/ r = Backspace(f[m])
      PROVE  Leads(ctl, g)
  <2>1. Whole(f) /\ Holds(f, m, "memo")
    BY <1>1, <1>4, HoldsSame DEF Leads
  <2>2. m \in DOMAIN f /\ MemoSound(r) /\ Like(f[m], r)
    BY <2>1, <1>4, MemoOf, ClearKeeps, BackspaceKeeps
  <2>3. Sound(r)
    BY <2>2 DEF Sound
  <2>4. Leads(f, g)
    BY <2>1, <2>2, <2>3, <1>4, LeadsBy
  <2>5. QED
    BY <2>4, <1>4, LeadsOn
<1>5. AllFrom(ctl, cleared)
  BY <1>2, <1>4 DEF AllFrom
<1>6. AllFrom(ctl, answered)
  BY <1>3, <1>5 DEF AllFrom
<1>7. AllFrom(ctl, Say(answered, m)) /\ AllFrom(ctl, Say(entered, m))
      /\ AllFrom(ctl, entered)
  BY <1>1, <1>2, <1>6, SayLeads
<1>8. \/ ctl' \in Say(answered, m) \/ ctl' \in Say(entered, m) \/ ctl' \in entered
      \/ ctl' = [ctl EXCEPT ![m] = Backspace(ctl[m])]
  BY DEF TerminalKey
<1> HIDE DEF answered, entered, cleared
<1>9. Leads(ctl, ctl')
  BY <1>4, <1>7, <1>8, LeadsItself DEF AllFrom
<1>10. \A d \in DOMAIN ctl : ctl[d].type # "list"
  <2>1. DOMAIN Terminal = {"Label", "TerminalMemo"} /\ Terminal["Label"] = GUI_CreateLabel
        /\ Terminal["TerminalMemo"] = GUI_CreateMemo
    BY DEF Terminal
  <2>2. GUI_CreateLabel.type = "label" /\ GUI_CreateMemo.type = "memo"
    BY Creations DEF Created
  <2>3. Layout[prog] = Terminal
    BY DEF Layout
  <2>4. QED
    BY <2>1, <2>2, <2>3 DEF Whole
<1>11. QED
  BY <1>9, <1>10 DEF SameLists

LEMMA KeyKeeps ==
  ASSUME FormInv, Key
  PROVE  FormInv'
<1>1. Whole(ctl) /\ prog \in Programs
  BY DEF FormInv, TypesInv
<1>2. Leads(ctl, ctl') /\ SameLists(ctl, ctl')
  <2>1. CASE ctl' = ctl
    BY <1>1, <2>1, LeadsItself DEF SameLists
  <2>2. CASE prog = "terminal" /\ TerminalKey(ActiveFocus)
    BY <1>1, <2>2, TerminalLeads
  <2>3. CASE GUI_ProcessKeyboard(ActiveFocus)
    <3>1. /\ \/ ActiveFocus = None
             \/ ActiveFocus \in Controls /\ ctl[ActiveFocus].type \in Typing \cup {"list"}
          /\ ActiveFocus = None => ActiveFocus \notin Controls
      BY <1>1, ControlsApart DEF FormInv, FocusInv
    <3>2. QED
      BY <1>1, <2>3, <3>1, TypedLeads
  <2>4. QED
    BY <2>1, <2>2, <2>3 DEF Key, OnKey
<1>3. pc # "dispatch" /\ pc' # "dispatch" /\ pc # "ruined"
  BY DEF Key, Step
<1>4. Room(ctl')
  BY <1>2, <1>3, SameRoom DEF FormInv, RoomInv
<1>5. visible' \in {visible, FALSE} /\ UNCHANGED <<prog, manager, timer, focused, ActiveFocus>>
  BY DEF Key, window
<1>6. QED
  BY <1>2, <1>3, <1>4, <1>5, QuietStep

LEMMA DrawStepKeeps ==
  ASSUME FormInv, Draw
  PROVE  FormInv'
<1>1. Whole(ctl)
  BY DEF FormInv, TypesInv
<1>2. Leads(ctl, ctl') /\ SameLists(ctl, ctl')
  <2>1. CASE ctl' = ctl
    BY <1>1, <2>1, LeadsItself DEF SameLists
  <2>2. CASE ctl' = [c \in Controls |-> IF ctl[c].type = "memo" THEN gui_draw_memo(ctl[c])
                                        ELSE ctl[c]]
    <3>1. ASSUME NEW c \in DOMAIN ctl
          PROVE  Sound(ctl'[c]) /\ Like(ctl[c], ctl'[c])
      <4>1. CASE ctl[c].type = "memo"
        <5>1. ctl'[c] = gui_draw_memo(ctl[c]) /\ MemoSound(ctl[c])
          BY <1>1, <2>2, <4>1, KindOf DEF Whole, Controls
        <5>2. MemoSound(ctl'[c]) /\ Like(ctl[c], ctl'[c])
          BY <5>1, DrawKeeps
        <5>3. QED
          BY <5>2 DEF Sound
      <4>2. CASE ctl[c].type # "memo"
        <5>1. ctl'[c] = ctl[c] /\ Sound(ctl[c])
          BY <1>1, <2>2, <4>2 DEF Whole, Controls
        <5>2. QED
          BY <5>1, LikeItself
      <4>3. QED
        BY <4>1, <4>2
    <3>2. ctl' = [c \in DOMAIN ctl' |-> ctl'[c]] /\ DOMAIN ctl' = DOMAIN ctl
      BY <2>2 DEF Controls
    <3>3. Whole(ctl')
      BY <1>1, <3>1, <3>2 DEF Whole, Like
    <3>4. \A c \in DOMAIN ctl : ctl[c].type = "list" => ctl'[c] = ctl[c]
      BY <2>2 DEF Controls
    <3>5. QED
      BY <3>1, <3>2, <3>3, <3>4 DEF Leads, SameLists
  <2>3. QED
    BY <2>1, <2>2 DEF Draw
<1>3. pc # "dispatch" /\ pc' # "dispatch" /\ pc # "ruined"
  BY DEF Draw, Step
<1>4. Room(ctl')
  BY <1>2, <1>3, SameRoom DEF FormInv, RoomInv
<1>5. visible' \in {visible, FALSE} /\ UNCHANGED <<prog, manager, timer, focused, ActiveFocus>>
  BY DEF Draw, window
<1>6. QED
  BY <1>2, <1>3, <1>4, <1>5, QuietStep

\* A press in the lower layer: it switches, or presses down, what was clicked.
LEMMA PressKeeps ==
  ASSUME Whole(ctl), Agree(ctl), OneRadio(ctl), NEW p, gui_process_press(p)
  PROVE  /\ Whole(ctl') /\ DOMAIN ctl' = DOMAIN ctl
         /\ \A c \in DOMAIN ctl : ctl'[c].type = ctl[c].type
         /\ Room(ctl) => Room(ctl')
         /\ OneRadio(ctl') /\ Pending(ctl', p.control)
<1> DEFINE a == p.control
<1>0. \A c \in DOMAIN ctl : Sound(ctl[c])
  BY DEF Whole
<1>a. \A c \in DOMAIN ctl : ctl[c].type \in Switches =>
        ctl[c].kChecked = ctl[c].Checked /\ ctl[c].kChecked \in BOOLEAN
  <2>1. \A c \in DOMAIN ctl : ctl[c].type \in Switches =>
          ctl[c] \in CheckBoxes \cup RadioButtons
    BY <1>0, KindOf DEF Switches
  <2>2. QED
    BY <2>1 DEF CheckBoxes, RadioButtons, Agree
<1>1. CASE a \notin Controls
  <2>1. ctl' = ctl
    BY <1>1 DEF gui_process_press, Radios
  <2>2. Pending(ctl, a)
    BY <1>1, <1>a DEF Pending, Switches, Controls
  <2>3. QED
    BY <2>1, <2>2
<1>2. CASE a \in Controls /\ ctl[a].type = "checkbox"
  <2> DEFINE r == [ctl[a] EXCEPT !.kChecked = ~@]
  <2>1. ctl' = [ctl EXCEPT ![a] = r]
    BY <1>2 DEF gui_process_press, Radios
  <2>2. ctl[a] \in CheckBoxes
    BY <1>0, <1>2, KindOf DEF Controls
  <2>3. /\ Sound(r) /\ r.type = ctl[a].type /\ r.Checked = ctl[a].Checked
        /\ r.kChecked = ~ctl[a].kChecked
    <3> DEFINE b == ~ctl[a].kChecked
    <3>1. b \in BOOLEAN /\ r = [ctl[a] EXCEPT !.kChecked = b]
      OBVIOUS
    <3> HIDE DEF b, r
    <3>2. /\ r \in CheckBoxes /\ r.type = ctl[a].type /\ r.Checked = ctl[a].Checked
          /\ r.kChecked = b
      BY <2>2, <3>1 DEF CheckBoxes
    <3>3. QED
      BY <3>2 DEF b, Sound
  <2> HIDE DEF r
  <2>4. /\ ctl' = [c \in DOMAIN ctl' |-> ctl'[c]] /\ DOMAIN ctl' = DOMAIN ctl
        /\ ctl'[a] = r /\ \A c \in DOMAIN ctl : c # a => ctl'[c] = ctl[c]
    BY <1>2, <2>1 DEF Whole, Controls
  <2>5. Whole(ctl')
    BY <1>0, <2>3, <2>4 DEF Whole
  <2>6. OneRadio(ctl')
    BY <1>2, <2>3, <2>4 DEF OneRadio
  <2>7. Pending(ctl', a)
    BY <1>2, <1>a, <2>3, <2>4 DEF Pending, Switches
  <2>8. Room(ctl) => Room(ctl')
    BY <1>2, <2>3, <2>4 DEF Room
  <2>9. QED
    BY <1>2, <2>3, <2>4, <2>5, <2>6, <2>7, <2>8
<1>3. CASE a \in Radios
  <2> DEFINE r(c) == [ctl[c] EXCEPT !.kChecked = (c = a)]
  <2>1. ctl' = [c \in Controls |-> IF c \in Radios THEN r(c) ELSE ctl[c]]
    BY <1>3 DEF gui_process_press, Radios
  <2>2. \A c \in Radios : /\ Sound(r(c)) /\ r(c).type = ctl[c].type
                          /\ r(c).Checked = ctl[c].Checked /\ r(c).kChecked = (c = a)
    <3> SUFFICES ASSUME NEW c \in Radios
                 PROVE  /\ Sound(r(c)) /\ r(c).type = ctl[c].type
                        /\ r(c).Checked = ctl[c].Checked /\ r(c).kChecked = (c = a)
      OBVIOUS
    <3> DEFINE b == (c = a)
    <3>1. b \in BOOLEAN /\ r(c) = [ctl[c] EXCEPT !.kChecked = b]
      OBVIOUS
    <3>2. ctl[c] \in RadioButtons
      BY <1>0, KindOf DEF Controls, Radios
    <3> HIDE DEF b, r
    <3>3. /\ r(c) \in RadioButtons /\ r(c).type = ctl[c].type
          /\ r(c).Checked = ctl[c].Checked /\ r(c).kChecked = b
      BY <3>1, <3>2 DEF RadioButtons
    <3>4. QED
      BY <3>3 DEF b, Sound
  <2> HIDE DEF r
  <2>3. /\ ctl' = [c \in DOMAIN ctl' |-> ctl'[c]] /\ DOMAIN ctl' = DOMAIN ctl
        /\ \A c \in DOMAIN ctl : ctl'[c] = IF ctl[c].type = "radio" THEN r(c) ELSE ctl[c]
    BY <2>1 DEF Controls, Radios
  <2>4. ASSUME NEW c \in DOMAIN ctl
        PROVE  /\ Sound(ctl'[c]) /\ ctl'[c].type = ctl[c].type
               /\ ctl[c].type = "radio" =>
                    ctl'[c].Checked = ctl[c].Checked /\ ctl'[c].kChecked = (c = a)
    BY <1>0, <2>2, <2>3 DEF Radios, Controls
  <2>5. Whole(ctl')
    BY <2>3, <2>4 DEF Whole
  <2>6. OneRadio(ctl')
    <3>1. \A c \in DOMAIN ctl : ctl[c].type = "radio" /\ ctl'[c].kChecked => c = a
      BY <2>4
    <3>2. \A c \in DOMAIN ctl : ctl'[c].type = "radio" =>
            ctl[c].type = "radio" /\ ctl'[c].Checked = ctl[c].Checked
      BY <2>4
    <3>3. QED
      BY <2>3, <3>1, <3>2 DEF OneRadio
  <2>7. Pending(ctl', a)
    <3>1. a \in DOMAIN ctl' /\ ctl'[a].type = "radio"
      BY <1>3, <2>3, <2>4 DEF Radios, Controls
    <3>2. \A c \in DOMAIN ctl : ctl[c].type = "checkbox" =>
            c # a /\ ctl'[c] = ctl[c] /\ ctl[c].kChecked = ctl[c].Checked
      BY <1>3, <1>a, <2>3 DEF Radios, Switches
    <3>3. QED
      BY <2>3, <2>4, <3>1, <3>2 DEF Pending
  <2>8. Room(ctl) => Room(ctl')
    BY <2>3, <2>4 DEF Room
  <2>9. QED
    BY <2>3, <2>4, <2>5, <2>6, <2>7, <2>8
<1>4. CASE a \in Controls /\ ctl[a].type \notin Switches
  <2>1. ctl' = SetState(ctl, 2, {a})
    BY <1>4 DEF gui_process_press, Radios, Switches, Pressed
  <2>2. 2 \in Levels
    BY DEF Levels
  <2>3. /\ Whole(ctl') /\ DOMAIN ctl' = DOMAIN ctl
        /\ \A c \in DOMAIN ctl : ctl'[c].type = ctl[c].type
        /\ \A c \in DOMAIN ctl : ctl[c].type \in Switches => ctl'[c] = ctl[c]
        /\ Room(ctl) => Room(ctl')
    BY <2>1, <2>2, SetStateKeeps
  <2>4. OneRadio(ctl')
    <3>1. \A c \in DOMAIN ctl : ctl[c].type = "radio" => ctl'[c] = ctl[c]
      BY <2>3 DEF Switches
    <3>2. QED
      BY <2>3, <3>1 DEF OneRadio
  <2>5. Pending(ctl', a)
    <3>1. \A c \in DOMAIN ctl : ctl[c].type \in Switches =>
            ctl'[c] = ctl[c] /\ c # a /\ ctl[c].kChecked = ctl[c].Checked
      BY <1>4, <1>a, <2>3
    <3>2. \A c \in DOMAIN ctl' : ctl'[c].type = ctl[c].type
      BY <2>3
    <3>3. ctl'[a].type \notin Switches
      BY <1>4, <2>3 DEF Controls
    <3>4. QED
      BY <2>3, <3>1, <3>2, <3>3 DEF Pending, Switches
  <2>6. QED
    BY <2>3, <2>4, <2>5
<1>5. QED
  BY <1>1, <1>2, <1>3, <1>4 DEF Radios, Switches

LEMMA ClickKeeps ==
  ASSUME FormInv, Click
  PROVE  FormInv'
<1>1. PICK p \in Places : at' = p /\ events_process_mouse(p)
  BY DEF Click
<1>2. /\ pc = "click" /\ pc' = "dispatch" /\ timer = 0 /\ timer' = 2
      /\ UNCHANGED <<prog, open, visible, ActiveFocus>>
  BY DEF Click, Step, window
<1>3. /\ Whole(ctl) /\ prog \in Programs /\ OneRadio(ctl)
      /\ ~buttons /\ ~dragging /\ AllUp(ctl) /\ Room(ctl)
      /\ inStack /\ visible => Agree(ctl)
  BY <1>2 DEF FormInv, TypesInv, AgreeInv, UpInv, RoomInv
<1>4. UNCHANGED moved /\ MouseDown(p)
  BY <1>1, <1>3 DEF events_process_mouse
<1>5. ASSUME \A c \in DOMAIN ctl : ctl'[c].type = ctl[c].type,
             Whole(ctl'), DOMAIN ctl' = DOMAIN ctl, Room(ctl'),
             OneRadio(ctl'), inStack' /\ visible => Pending(ctl', p.control),
             inStack' \/ AllUp(ctl'),
             \/ focused' = focused
             \/ focused' = p.control /\ p.control \in Controls
             \/ focused' = None
      PROVE  FormInv'
  <2>1. TypesInv'
    <3>1. Whole(ctl)' /\ Places' = Places
      BY <1>2, <1>5 DEF Whole, Places, Parts, Controls
    <3>2. QED
      BY <1>1, <1>2, <3>1 DEF FormInv, TypesInv
  <2>2. FocusInv'
    <3>1. CursorAgrees /\ focused \in Controls \cup {None}
      BY <1>2 DEF FormInv, FocusInv
    <3>2. CursorAgrees' \/ focused' = at'.control
      BY <1>1, <1>2, <1>5, <3>1 DEF CursorAgrees, Controls
    <3>3. QED
      BY <1>2, <1>5, <3>1, <3>2 DEF FormInv, FocusInv, Controls
  <2>3. AgreeInv'
    BY <1>1, <1>2, <1>5 DEF AgreeInv
  <2>4. UpInv'
    BY <1>2, <1>4, <1>5 DEF FormInv, UpInv
  <2>5. RoomInv'
    BY <1>5 DEF RoomInv
  <2>6. QED
    BY <2>1, <2>2, <2>3, <2>4, <2>5 DEF FormInv
<1>6. ASSUME p.control \in Bare, inStack /\ visible => Agree(ctl)
      PROVE  inStack /\ visible => Pending(ctl, p.control)
  <2>1. p.control \notin DOMAIN ctl
    BY <1>3, <1>6, ControlsApart DEF Controls
  <2>2. QED
    BY <2>1, <1>6 DEF Pending, Agree, Switches
<1>7. CASE /\ ~inStack \/ ~visible \/ p.control = "outside"
           /\ UNCHANGED <<inStack, dragging, focused, ctl>>
  <2>1. inStack /\ visible => Pending(ctl, p.control)
    BY <1>3, <1>6, <1>7 DEF Bare
  <2>2. QED
    BY <1>3, <1>5, <1>7, <2>1
<1>8. CASE inStack' = FALSE /\ UNCHANGED <<focused, ctl>>
  BY <1>3, <1>5, <1>8
<1>9. CASE p.control = "title" /\ UNCHANGED <<inStack, focused, ctl>>
  <2>1. inStack /\ visible => Pending(ctl, p.control)
    BY <1>3, <1>6, <1>9 DEF Bare
  <2>2. QED
    BY <1>3, <1>5, <1>9, <2>1
<1>10. CASE inStack /\ visible /\ gui_process_press(p) /\ UNCHANGED inStack
  <2>1. /\ Whole(ctl') /\ DOMAIN ctl' = DOMAIN ctl
        /\ \A c \in DOMAIN ctl : ctl'[c].type = ctl[c].type
        /\ Room(ctl') /\ OneRadio(ctl') /\ Pending(ctl', p.control)
    BY <1>3, <1>10, PressKeeps
  <2>2. \/ focused' = p.control /\ p.control \in Controls
        \/ focused' = None
    BY <1>10 DEF gui_process_press
  <2>3. QED
    BY <1>5, <1>10, <2>1, <2>2
<1>11. QED
  BY <1>4, <1>7, <1>8, <1>9, <1>10 DEF MouseDown

\* MOUSE_UP: what was pressed comes up, if the form still hears of it.
LEMMA HoldKeeps ==
  ASSUME FormInv, Hold
  PROVE  FormInv'
<1>1. /\ pc = "hold" /\ pc' = "draw" /\ UNCHANGED <<prog, visible, inStack, moved, focused,
                                                   ActiveFocus>>
  BY DEF Hold, Step, window
<1>2. /\ Whole(ctl) /\ timer \in 0 .. 2 /\ prog \in Programs
  BY DEF FormInv, TypesInv
<1>3. timer' \in 0 .. 2 /\ (timer' = 0 => timer \in {0, 1})
  BY <1>2 DEF Hold
<1>4. ASSUME Whole(ctl'), DOMAIN ctl' = DOMAIN ctl,
             \A c \in DOMAIN ctl : ctl'[c].type = ctl[c].type,
             \A c \in DOMAIN ctl : ctl[c].type \in Switches => ctl'[c] = ctl[c],
             Room(ctl) => Room(ctl'),
             timer' = 0 \/ ~inStack => AllUp(ctl'),
             timer' = 0 => ~buttons' /\ ~dragging'
      PROVE  FormInv'
  <2>1. TypesInv'
    <3>1. Whole(ctl)'
      BY <1>1, <1>4 DEF Whole
    <3>2. QED
      BY <1>1, <1>3, <3>1 DEF FormInv, TypesInv
  <2>2. FocusInv'
    BY <1>1, <1>4 DEF FormInv, FocusInv, CursorAgrees, Controls
  <2>3. AgreeInv'
    <3>1. OneRadio(ctl) /\ (inStack /\ visible => Agree(ctl))
      BY <1>1 DEF FormInv, AgreeInv
    <3>2. \A c \in DOMAIN ctl : ctl[c].type \in Switches => ctl'[c] = ctl[c]
      BY <1>4
    <3>3. Agree(ctl) => Agree(ctl')
      BY <1>4, <3>2 DEF Agree
    <3>4. OneRadio(ctl')
      <4>1. \A c \in DOMAIN ctl : ctl[c].type = "radio" => ctl'[c] = ctl[c]
        BY <3>2 DEF Switches
      <4>2. QED
        BY <1>4, <3>1, <4>1 DEF OneRadio
    <3>5. QED
      BY <1>1, <3>1, <3>3, <3>4 DEF AgreeInv
  <2>4. UpInv'
    BY <1>1, <1>4 DEF FormInv, UpInv
  <2>5. RoomInv'
    BY <1>1, <1>4 DEF FormInv, RoomInv
  <2>6. QED
    BY <2>1, <2>2, <2>3, <2>4, <2>5 DEF FormInv
<1>5. CASE timer = 1 /\ inStack
  <2>1. ctl' = SetState(ctl, 0, Controls) /\ dragging' = FALSE /\ buttons' = FALSE
    BY <1>5 DEF Hold, gui_process_release
  <2>2. /\ Whole(ctl') /\ DOMAIN ctl' = DOMAIN ctl /\ AllUp(ctl')
        /\ \A c \in DOMAIN ctl : ctl'[c].type = ctl[c].type
        /\ \A c \in DOMAIN ctl : ctl[c].type \in Switches => ctl'[c] = ctl[c]
        /\ Room(ctl) => Room(ctl')
    BY <1>2, <2>1, SetStateKeeps DEF Levels, Controls
  <2>3. QED
    BY <1>4, <2>1, <2>2
<1>6. CASE timer = 1 /\ ~inStack
  <2>1. ctl' = ctl /\ dragging' = FALSE /\ buttons' = FALSE /\ AllUp(ctl)
    BY <1>6 DEF Hold, FormInv, UpInv
  <2>2. QED
    BY <1>2, <1>4, <2>1
<1>7. CASE timer # 1
  <2>1. ctl' = ctl /\ dragging' = dragging /\ buttons' = buttons
    BY <1>7 DEF Hold
  <2>2. timer' = 0 => timer = 0
    BY <1>3, <1>7
  <2>3. QED
    BY <1>2, <1>4, <2>1, <2>2 DEF FormInv, UpInv
<1>8. QED
  BY <1>5, <1>6, <1>7

\* The SDK answers a click: f is the form that the callback, if any, is given.
LEMMA DispatchFrom ==
  ASSUME FormInv, Dispatch, NEW f, Whole(f), DOMAIN f = DOMAIN ctl,
         \A c \in DOMAIN ctl : f[c].type = ctl[c].type,
         AllUp(ctl) => AllUp(f), OneRadio(f), inStack /\ visible => Agree(f),
         Leads(f, ctl'), visible' \in {visible, FALSE},
         \/ /\ UNCHANGED <<focused, ActiveFocus>>
            /\ at.control \in Controls /\ ctl[at.control].type \in Called
         \/ /\ ActiveFocus' = focused'
            /\ \/ focused' = None
               \/ focused' \in Controls /\ ctl[focused'].type \in Typing \cup {"list"}
  PROVE  FormInv'
<1>1. /\ pc' # "dispatch" /\ (pc' # "ruined" => ~Overrun(ctl'))
      /\ UNCHANGED <<prog, manager, timer>>
  BY DEF Dispatch
<1>2. /\ DOMAIN ctl' = DOMAIN ctl /\ Whole(ctl')
      /\ \A c \in DOMAIN ctl : ctl'[c].type = ctl[c].type
      /\ OneRadio(ctl') /\ (Agree(f) => Agree(ctl')) /\ (AllUp(f) => AllUp(ctl'))
  BY LeadsKeeps DEF Leads
<1>3. AllUp(ctl) => AllUp(f)
  OBVIOUS
<1>4. TypesInv'
  <2>1. Whole(ctl)'
    BY <1>1, <1>2 DEF Whole
  <2>2. QED
    BY <1>1, <2>1 DEF FormInv, TypesInv
<1>5. FocusInv'
  <2>1. CASE /\ UNCHANGED <<focused, ActiveFocus>>
             /\ at.control \in Controls /\ ctl[at.control].type \in Called
    <3>1. CursorAgrees
      BY <2>1 DEF FormInv, FocusInv, CursorAgrees, Called, Typing
    <3>2. CursorAgrees'
      BY <1>2, <2>1, <3>1 DEF FormInv, FocusInv, CursorAgrees, Controls
    <3>3. QED
      BY <1>2, <2>1, <3>2 DEF FormInv, FocusInv, Controls
  <2>2. CASE /\ ActiveFocus' = focused'
             /\ \/ focused' = None
                \/ focused' \in Controls /\ ctl[focused'].type \in Typing \cup {"list"}
    BY <1>2, <2>2 DEF FocusInv, CursorAgrees, Controls
  <2>3. QED
    BY <2>1, <2>2
<1>6. AgreeInv'
  <2>1. inStack' = inStack
    BY <1>1 DEF manager
  <2>2. CASE visible' = visible
    BY <1>1, <1>2, <2>1, <2>2 DEF AgreeInv
  <2>3. CASE visible' = FALSE
    BY <1>1, <1>2, <2>3 DEF AgreeInv
  <2>4. QED
    BY <2>2, <2>3
<1>7. UpInv'
  BY <1>1, <1>2, <1>3 DEF FormInv, UpInv, manager
<1>8. RoomInv'
  BY <1>1, <1>2, RoomOrRuin DEF RoomInv
<1>9. QED
  BY <1>4, <1>5, <1>6, <1>7, <1>8 DEF FormInv

LEMMA DispatchKeeps ==
  ASSUME FormInv, Dispatch
  PROVE  FormInv'
<1> DEFINE a == at.control
<1>1. /\ Whole(ctl) /\ prog \in Programs /\ OneRadio(ctl) /\ at \in Places
      /\ inStack /\ visible => Pending(ctl, a)
      /\ GUI_ProcessMouseClick(at)
  BY DEF Dispatch, FormInv, TypesInv, AgreeInv
<1>2. \A c \in DOMAIN ctl : Sound(ctl[c])
  BY <1>1 DEF Whole
<1>3. \A c \in DOMAIN ctl : ctl[c].type \in Switches =>
        ctl[c].Checked \in BOOLEAN /\ ctl[c].kChecked \in BOOLEAN
  <2>1. \A c \in DOMAIN ctl : ctl[c].type \in Switches =>
          ctl[c] \in CheckBoxes \cup RadioButtons
    BY <1>2, KindOf DEF Switches
  <2>2. QED
    BY <2>1 DEF CheckBoxes, RadioButtons
\* Nothing is switched: the layers agree already.
<1>4. ASSUME a \notin Controls \/ ctl[a].type \notin Switches, Pending(ctl, a)
      PROVE  Agree(ctl)
  <2>1. ASSUME NEW c \in DOMAIN ctl, ctl[c].type \in Switches
        PROVE  ctl[c].kChecked = ctl[c].Checked
    <3>1. c # a /\ ~(a \in DOMAIN ctl /\ ctl[a].type = "radio")
      BY <1>4, <2>1 DEF Controls, Switches
    <3>2. QED
      BY <1>4, <2>1, <3>1 DEF Pending, Switches
  <2>2. QED
    BY <2>1 DEF Agree
<1>5. ASSUME a \notin Controls \/ ctl[a].type \notin Switches,
             Leads(ctl, ctl'), visible' \in {visible, FALSE},
             \/ /\ UNCHANGED <<focused, ActiveFocus>>
                /\ a \in Controls /\ ctl[a].type \in Called
             \/ /\ ActiveFocus' = focused'
                /\ \/ focused' = None
                   \/ focused' \in Controls /\ ctl[focused'].type \in Typing \cup {"list"}
      PROVE  FormInv'
  BY <1>1, <1>4, <1>5, DispatchFrom
<1>6. CASE a \in Controls /\ ctl[a].type = "button"
  <2>1. OnClick(ctl, a) /\ UNCHANGED <<focused, ActiveFocus>>
    BY <1>1, <1>6 DEF GUI_ProcessMouseClick
  <2>2. Leads(ctl, ctl') /\ visible' \in {visible, FALSE}
    BY <1>1, <1>6, <2>1, OnClickLeads DEF Called, Controls
  <2>3. QED
    BY <1>5, <1>6, <2>1, <2>2 DEF Switches, Called
<1>7. CASE a \in Controls /\ ctl[a].type = "combo"
  <2> DEFINE r == GUI_ComboBox_Rotate(ctl[a])
             f == [ctl EXCEPT ![a] = r]
  <2>1. OnClick(f, a) /\ UNCHANGED <<focused, ActiveFocus>>
    BY <1>1, <1>7 DEF GUI_ProcessMouseClick
  <2>2. Sound(r) /\ Like(ctl[a], r)
    <3>1. ComboSound(ctl[a])
      BY <1>2, <1>7, KindOf DEF Controls
    <3>2. QED
      BY <3>1, RotateKeeps DEF Sound
  <2> HIDE DEF r
  <2>3. Leads(ctl, f)
    BY <1>1, <1>7, <2>2, LeadsBy DEF Controls
  <2> HIDE DEF f
  <2>4. Whole(f) /\ a \in DOMAIN f /\ f[a].type \in Called
    BY <1>1, <1>7, <2>3, LeadsKeeps DEF Leads, Controls, Called
  <2>5. Leads(f, ctl') /\ visible' \in {visible, FALSE}
    BY <1>1, <2>1, <2>4, OnClickLeads
  <2>6. Leads(ctl, ctl')
    BY <2>3, <2>5, LeadsOn
  <2>7. QED
    BY <1>5, <1>7, <2>1, <2>5, <2>6 DEF Switches, Called
<1>8. CASE a \in Controls /\ ctl[a].type = "checkbox"
  <2> DEFINE r == [ctl[a] EXCEPT !.Checked = ~@]
             f == [ctl EXCEPT ![a] = r]
  <2>1. OnClick(f, a) /\ UNCHANGED <<focused, ActiveFocus>>
    BY <1>1, <1>8 DEF GUI_ProcessMouseClick, GUI_CheckBox_Toggle
  <2>2. /\ Sound(r) /\ r.type = "checkbox" /\ r.kChecked = ctl[a].kChecked
        /\ r.Checked = ~ctl[a].Checked
    <3> DEFINE b == ~ctl[a].Checked
    <3>1. b \in BOOLEAN /\ r = [ctl[a] EXCEPT !.Checked = b]
      OBVIOUS
    <3>2. ctl[a] \in CheckBoxes
      BY <1>2, <1>8, KindOf DEF Controls
    <3> HIDE DEF b, r
    <3>3. r \in CheckBoxes /\ r.kChecked = ctl[a].kChecked /\ r.Checked = b
      BY <3>1, <3>2 DEF CheckBoxes
    <3>4. QED
      BY <3>3 DEF b, Sound, CheckBoxes
  <2> HIDE DEF r
  <2>3. /\ f = [c \in DOMAIN f |-> f[c]] /\ DOMAIN f = DOMAIN ctl
        /\ f[a] = r /\ \A c \in DOMAIN ctl : c # a => f[c] = ctl[c]
    BY <1>1, <1>8 DEF Whole, Controls
  <2> HIDE DEF f
  <2>4. /\ \A c \in DOMAIN ctl : f[c].type = ctl[c].type
        /\ \A c \in DOMAIN ctl : ctl[c].type # "checkbox" => f[c] = ctl[c]
        /\ \A c \in DOMAIN ctl : Sound(f[c])
    BY <1>2, <1>8, <2>2, <2>3
  <2>u. AllUp(ctl) => AllUp(f)
    BY <2>3, <2>4 DEF AllUp, HasState
  <2>5. Whole(f)
    BY <1>1, <2>3, <2>4 DEF Whole
  <2>6. OneRadio(f)
    BY <1>1, <1>8, <2>2, <2>3, <2>4 DEF OneRadio
  <2>7. ASSUME Pending(ctl, a) PROVE Agree(f)
    <3>1. ASSUME NEW c \in DOMAIN ctl, ctl[c].type \in Switches
          PROVE  f[c].kChecked = f[c].Checked
      <4>1. CASE c = a
        BY <1>8, <2>2, <2>3, <2>7, <3>1, <4>1 DEF Pending
      <4>2. CASE c # a
        BY <1>8, <2>3, <2>7, <3>1, <4>2 DEF Pending, Switches
      <4>3. QED
        BY <4>1, <4>2
    <3>2. QED
      BY <2>3, <2>4, <3>1 DEF Agree
  <2>8. Leads(f, ctl') /\ visible' \in {visible, FALSE}
    BY <1>1, <1>8, <2>1, <2>2, <2>3, <2>5, OnClickLeads DEF Controls, Called
  <2>9. QED
    BY <1>1, <1>8, <2>1, <2>3, <2>4, <2>5, <2>6, <2>7, <2>8, <2>u, DispatchFrom DEF Called
<1>9. CASE a \in Controls /\ ctl[a].type = "radio" /\ ~ctl[a].Checked
  <2> DEFINE r(c) == [ctl[c] EXCEPT !.Checked = (c = a)]
             f == [c \in Controls |-> IF c \in Radios THEN r(c) ELSE ctl[c]]
  <2>1. OnClick(f, a) /\ UNCHANGED <<focused, ActiveFocus>>
    BY <1>1, <1>9 DEF GUI_ProcessMouseClick, GUI_RadioButton_Select
  <2>2. \A c \in Radios : /\ Sound(r(c)) /\ r(c).type = "radio"
                          /\ r(c).kChecked = ctl[c].kChecked /\ r(c).Checked = (c = a)
    <3> SUFFICES ASSUME NEW c \in Radios
                 PROVE  /\ Sound(r(c)) /\ r(c).type = "radio"
                        /\ r(c).kChecked = ctl[c].kChecked /\ r(c).Checked = (c = a)
      OBVIOUS
    <3> DEFINE b == (c = a)
    <3>1. b \in BOOLEAN /\ r(c) = [ctl[c] EXCEPT !.Checked = b]
      OBVIOUS
    <3>2. ctl[c] \in RadioButtons
      BY <1>2, KindOf DEF Controls, Radios
    <3> HIDE DEF b, r
    <3>3. r(c) \in RadioButtons /\ r(c).kChecked = ctl[c].kChecked /\ r(c).Checked = b
      BY <3>1, <3>2 DEF RadioButtons
    <3>4. QED
      BY <3>3 DEF b, Sound, RadioButtons
  <2> HIDE DEF r
  <2>3. /\ f = [c \in DOMAIN f |-> f[c]] /\ DOMAIN f = DOMAIN ctl
        /\ \A c \in DOMAIN ctl : f[c] = IF ctl[c].type = "radio" THEN r(c) ELSE ctl[c]
    BY DEF Controls, Radios
  <2> HIDE DEF f
  <2>4. ASSUME NEW c \in DOMAIN ctl
        PROVE  /\ Sound(f[c]) /\ f[c].type = ctl[c].type
               /\ ctl[c].type # "radio" => f[c] = ctl[c]
               /\ ctl[c].type = "radio" =>
                    f[c].kChecked = ctl[c].kChecked /\ f[c].Checked = (c = a)
    BY <1>2, <2>2, <2>3 DEF Radios, Controls
  <2>5. Whole(f)
    BY <1>1, <2>3, <2>4 DEF Whole
  <2>6. OneRadio(f)
    <3>1. \A c \in DOMAIN ctl : f[c].type = "radio" =>
            /\ ctl[c].type = "radio" /\ f[c].kChecked = ctl[c].kChecked
            /\ f[c].Checked => c = a
      BY <2>4
    <3>2. QED
      BY <1>1, <2>3, <3>1 DEF OneRadio
  <2>7. ASSUME Pending(ctl, a) PROVE Agree(f)
    <3>1. ASSUME NEW c \in DOMAIN ctl, ctl[c].type \in Switches
          PROVE  f[c].kChecked = f[c].Checked
      <4>1. CASE ctl[c].type = "radio"
        <5>1. ctl[c].kChecked = (c = a)
          BY <1>9, <2>7, <4>1 DEF Pending, Controls
        <5>2. QED
          BY <2>4, <4>1, <5>1
      <4>2. CASE ctl[c].type = "checkbox"
        <5>1. c # a /\ ctl[c].kChecked = ctl[c].Checked
          BY <1>9, <2>7, <4>2 DEF Pending
        <5>2. QED
          BY <2>4, <4>2, <5>1
      <4>3. QED
        BY <3>1, <4>1, <4>2 DEF Switches
    <3>2. QED
      BY <2>3, <2>4, <3>1 DEF Agree
  <2>8. Leads(f, ctl') /\ visible' \in {visible, FALSE}
    <3>1. a \in DOMAIN f /\ f[a].type \in Called
      BY <1>9, <2>3, <2>4 DEF Controls, Called
    <3>2. QED
      BY <1>1, <2>1, <2>5, <3>1, OnClickLeads
  <2>9. AllUp(ctl) => AllUp(f)
    BY <2>3, <2>4 DEF AllUp, HasState
  <2>10. QED
    BY <1>1, <1>9, <2>1, <2>3, <2>4, <2>5, <2>6, <2>7, <2>8, <2>9, DispatchFrom DEF Called
<1>10. CASE a \in Controls /\ ctl[a].type = "radio" /\ ctl[a].Checked
  <2>1. ctl' = ctl /\ visible' = visible /\ UNCHANGED <<focused, ActiveFocus>>
    BY <1>1, <1>10 DEF GUI_ProcessMouseClick, Stays
  <2>2. ASSUME Pending(ctl, a) PROVE Agree(ctl)
    <3>1. ASSUME NEW c \in DOMAIN ctl, ctl[c].type \in Switches
          PROVE  ctl[c].kChecked = ctl[c].Checked
      <4>1. CASE ctl[c].type = "radio"
        <5>1. ctl[c].kChecked = (c = a)
          BY <1>10, <2>2, <4>1 DEF Pending, Controls
        <5>2. ctl[c].Checked => c = a
          BY <1>1, <1>10, <4>1 DEF OneRadio, Controls
        <5>3. QED
          BY <1>3, <1>10, <3>1, <5>1, <5>2
      <4>2. CASE ctl[c].type = "checkbox"
        BY <1>10, <2>2, <4>2 DEF Pending
      <4>3. QED
        BY <3>1, <4>1, <4>2 DEF Switches
    <3>2. QED
      BY <3>1 DEF Agree
  <2>3. Leads(ctl, ctl')
    BY <1>1, <2>1, LeadsItself
  <2>4. QED
    BY <1>1, <1>10, <2>1, <2>2, <2>3, DispatchFrom DEF Called
<1>11. CASE a \in Controls /\ ctl[a].type = "edit"
  <2>1. ctl' = ctl /\ visible' = visible /\ ActiveFocus' = a /\ focused' = a
    BY <1>1, <1>11 DEF GUI_ProcessMouseClick, Stays, Wants
  <2>2. Leads(ctl, ctl')
    BY <1>1, <2>1, LeadsItself
  <2>3. QED
    BY <1>5, <1>11, <2>1, <2>2 DEF Typing, Switches
<1>12. CASE a \in Controls /\ ctl[a].type = "memo"
  <2> DEFINE r == Scrolled(ctl[a], at.part)
  <2>1. /\ ctl' = [ctl EXCEPT ![a] = r] /\ visible' = visible
        /\ ActiveFocus' = a /\ focused' = a
    BY <1>1, <1>12 DEF GUI_ProcessMouseClick, Stays, Wants
  <2>2. at.part \in {0, Up, Down}
    <3>1. a \notin Bare
      BY <1>1, <1>12, ControlsApart
    <3>2. PICK c \in Controls : at \in [control : {c}, part : Parts(c)]
      BY <1>1, <3>1 DEF Places
    <3>3. c = a /\ at.part \in Parts(a)
      BY <3>2
    <3>4. QED
      BY <1>12, <3>3 DEF Parts
  <2>3. MemoSound(ctl[a])
    BY <1>2, <1>12, KindOf DEF Controls
  <2>4. Sound(r) /\ Like(ctl[a], r)
    BY <2>2, <2>3, ScrollKeeps DEF Sound
  <2> HIDE DEF r
  <2>5. Leads(ctl, ctl')
    BY <1>1, <1>12, <2>1, <2>4, LeadsBy DEF Controls
  <2>6. QED
    BY <1>5, <1>12, <2>1, <2>5 DEF Typing, Switches
<1>13. CASE a \in Controls /\ ctl[a].type = "list"
  <2> DEFINE r == Chosen(ctl[a], at.part)
  <2>1. /\ ctl' = [ctl EXCEPT ![a] = r] /\ visible' = visible
        /\ ActiveFocus' = a /\ focused' = a
    BY <1>1, <1>13 DEF GUI_ProcessMouseClick, Stays, Wants
  <2>2. at.part \in Nat
    <3>1. a \notin Bare
      BY <1>1, <1>13, ControlsApart
    <3>2. PICK c \in Controls : at \in [control : {c}, part : Parts(c)]
      BY <1>1, <3>1 DEF Places
    <3>3. c = a /\ at.part \in Parts(a)
      BY <3>2
    <3>4. QED
      BY <1>13, <3>3 DEF Parts
  <2>3. ListSound(ctl[a])
    BY <1>2, <1>13, KindOf DEF Controls
  <2>4. Sound(r) /\ Like(ctl[a], r)
    BY <2>2, <2>3, ChosenKeeps DEF Sound
  <2> HIDE DEF r
  <2>5. Leads(ctl, ctl')
    BY <1>1, <1>13, <2>1, <2>4, LeadsBy DEF Controls
  <2>6. QED
    BY <1>5, <1>13, <2>1, <2>5 DEF Typing, Switches
<1>13a. CASE a \in Controls /\ ctl[a].type = "scrollbar"
  <2>1. PICK l \in Controls :
          /\ ctl[l].type = "list" /\ Wants(l)
          /\ Stays({[ctl EXCEPT ![l] = Chosen(ctl[l], at.part)]})
    BY <1>1, <1>13a DEF GUI_ProcessMouseClick
  <2> DEFINE r == Chosen(ctl[l], at.part)
  <2>2. /\ ctl' = [ctl EXCEPT ![l] = r] /\ visible' = visible
        /\ ActiveFocus' = l /\ focused' = l
    BY <2>1 DEF Stays, Wants
  <2>3. at.part \in Nat
    <3>1. a \notin Bare
      BY <1>1, <1>13a, ControlsApart
    <3>2. PICK c \in Controls : at \in [control : {c}, part : Parts(c)]
      BY <1>1, <3>1 DEF Places
    <3>3. c = a /\ at.part \in Parts(a)
      BY <3>2
    <3>4. QED
      BY <1>13a, <3>3 DEF Parts
  <2>4. ListSound(ctl[l])
    BY <1>2, <2>1, KindOf DEF Controls
  <2>5. Sound(r) /\ Like(ctl[l], r)
    BY <2>3, <2>4, ChosenKeeps DEF Sound
  <2> HIDE DEF r
  <2>6. Leads(ctl, ctl')
    BY <1>1, <2>1, <2>2, <2>5, LeadsBy DEF Controls
  <2>7. QED
    BY <1>5, <1>13a, <2>1, <2>2, <2>6 DEF Typing, Switches
<1>14. CASE a \notin Controls \/ ctl[a].type \notin Called \cup Typing \cup {"list", "scrollbar"}
  <2>1. ctl' = ctl /\ visible' = visible /\ ActiveFocus' = None /\ focused' = None
    BY <1>1, <1>14 DEF GUI_ProcessMouseClick, Stays, Nobody, Called, Typing
  <2>2. Leads(ctl, ctl')
    BY <1>1, <2>1, LeadsItself
  <2>3. QED
    BY <1>5, <1>14, <2>1, <2>2 DEF Switches, Called
<1>15. QED
  BY <1>6, <1>7, <1>8, <1>9, <1>10, <1>11, <1>12, <1>13, <1>13a, <1>14 DEF Called, Typing

-----------------------------------------------------------------------------
\* Every step of every program

LEMMA LoopKeeps ==
  ASSUME FormInv, NEW First, AllFrom(ctl, First), Loop(First)
  PROVE  FormInv'
  BY BeginKeeps, IdleKeeps, KeyKeeps, ClickKeeps, DispatchKeeps, HoldKeeps, DrawStepKeeps
  DEF Loop

LEMMA FormNext ==
  ASSUME FormInv, [Next]_vars
  PROVE  FormInv'
<1>1. Whole(ctl) /\ AllFrom(ctl, {ctl})
  BY AllFromFacts DEF FormInv, TypesInv
<1>2. \A m, type : Holds(Layout[prog], m, type) => Holds(ctl, m, type)
  BY <1>1 DEF Whole, Holds
<1>3. \A m : Holds(ctl, m, "memo") =>
        AllFrom(ctl, Say({ctl}, m)) /\ AllFrom(ctl, Say(Say({ctl}, m), m))
  <2>1. \A m : Holds(ctl, m, "memo") => AllFrom(ctl, Say({ctl}, m))
    BY <1>1, SayLeads
  <2>2. QED
    BY <2>1, SayLeads
<1>4. CASE TempMain
  <2>1. Holds(ctl, "ExeMemo", "memo")
    BY <1>2, <1>4, Forms DEF TempMain
  <2>2. QED
    BY <1>3, <1>4, <2>1, LoopKeeps DEF TempMain
<1>5. CASE GfileMain
  <2>1. Holds(ctl, "FileList", "list") /\ Holds(ctl, "PathEdit", "edit")
    BY <1>2, <1>5, Forms DEF GfileMain
  <2>2. AllFrom(ctl, Loaded(ctl))
    BY <1>1, <2>1, LoadedLeads
  <2>3. QED
    BY <1>5, <2>2, LoopKeeps DEF GfileMain
<1>6. CASE SerialMain
  <2>1. Holds(ctl, "memoRx", "memo")
    BY <1>2, <1>6, Forms DEF SerialMain
  <2>2. QED
    BY <1>3, <1>6, <2>1, LoopKeeps DEF SerialMain
<1>7. CASE TarefaMain
  <2>1. Holds(ctl, "ExeMemo", "memo")
    BY <1>2, <1>7, Forms DEF TarefaMain
  <2>2. QED
    BY <1>3, <1>7, <2>1, LoopKeeps DEF TarefaMain
<1>8. CASE GpciMain
  <2>1. Holds(ctl, "DevMemo", "memo")
    BY <1>2, <1>8, Forms DEF GpciMain
  <2>2. QED
    BY <1>3, <1>8, <2>1, LoopKeeps DEF GpciMain
<1>9. CASE TerminalMain
  <2>1. Holds(ctl, "TerminalMemo", "memo")
    BY <1>2, <1>9, Forms DEF TerminalMain
  <2>2. QED
    BY <1>3, <1>9, <2>1, LoopKeeps DEF TerminalMain
<1>10. CASE Close
  BY <1>10, CloseKeeps
<1>11. CASE UNCHANGED vars
  BY <1>11 DEF vars, window, manager, FormInv, TypesInv, FocusInv, CursorAgrees, AgreeInv,
               UpInv, RoomInv, Whole, Places, Parts, Controls
<1>12. QED
  BY <1>4, <1>5, <1>6, <1>7, <1>8, <1>9, <1>10, <1>11 DEF Next

-----------------------------------------------------------------------------
\* The theorems

\* The two records of every control are whole and their switches agree but for
\* the click the SDK has not seen; what is down will be released; of the
\* focus, only the cursor of that click may be ahead of the keys.
THEOREM FormInvariant == Spec => []FormInv
<1>1. Init => FormInv
  BY FormInit
<1>2. FormInv /\ [Next]_vars => FormInv'
  BY FormNext
<1>3. QED
  BY <1>1, <1>2, PTL DEF Spec

\* An edit or a memo that shows the cursor is the one that gets the keys
\* (wm.c and gui_interaction.c against libgui.c).
THEOREM CursorIsTrue == Spec => []CursorTellsTruth
<1>1. FormInv => CursorTellsTruth
  BY DEF FormInv, FocusInv, CursorAgrees, CursorTellsTruth, Settled, Typing
<1>2. QED
  BY <1>1, FormInvariant, PTL

\* Check boxes and radio buttons, which both layers switch on their own, agree
\* once both have seen a click; at most one radio button is on; and an edit and
\* a combo show what the SDK holds.
THEOREM LayersStayAgreed == Spec => []LayersAgree
<1>1. ASSUME FormInv PROVE LayersAgree
  <2>1. /\ OneRadio(ctl) /\ \A c \in Controls : Sound(ctl[c])
        /\ Settled /\ inStack /\ visible => Agree(ctl)
    BY <1>1 DEF FormInv, TypesInv, AgreeInv, Whole, Settled, Controls
  <2>2. \A c \in Controls : /\ ctl[c].type = "edit" => ctl[c].kCaption = ctl[c].Text
                            /\ ctl[c].type = "combo" => ctl[c].kCaption = ctl[c].ItemIndex
    BY <2>1, KindOf DEF EditSound, ComboSound
  <2>3. QED
    BY <2>1, <2>2 DEF LayersAgree, OneRadio, Agree, Switches, Controls
<1>2. QED
  BY <1>1, FormInvariant, PTL

\* Every press is released (mouse_hold_timer), no click drags the form, and between
\* clicks no control is down but a list of two rows, whose State is their number.
THEOREM NothingStaysStuck == Spec => []NothingStuck
<1>1. ASSUME FormInv PROVE NothingStuck
  <2>1. /\ Whole(ctl) /\ ~moved
        /\ timer = 0 => ~buttons /\ ~dragging /\ AllUp(ctl)
    BY <1>1 DEF FormInv, TypesInv, UpInv
  <2>2. ASSUME timer = 0, NEW c \in Controls, "kState" \in DOMAIN ctl[c],
               ctl[c].kState = Pressed
        PROVE  ctl[c].type = "list" /\ ctl[c].kItemCount = Pressed
    <3>1. Sound(ctl[c]) /\ AllUp(ctl) /\ c \in DOMAIN ctl
      BY <2>1, <2>2 DEF Whole, Controls
    <3>2. ctl[c].type \in HasState \cup {"list"}
      BY <2>2, <3>1, StateOf
    <3>3. ctl[c].type \notin HasState
      BY <2>2, <3>1 DEF AllUp, Pressed
    <3>4. ctl[c].type = "list" /\ Rests(ctl[c])
      BY <3>1, <3>2, <3>3 DEF AllUp
    <3>5. ListSound(ctl[c])
      BY <3>1, <3>4, KindOf
    <3>6. QED
      BY <2>2, <3>4, <3>5 DEF Rests, Pressed, ListSound
  <2>3. QED
    BY <2>1, <2>2 DEF NothingStuck
<1>2. QED
  BY <1>1, FormInvariant, PTL

\* The lower layer's pointers follow the SDK's blocks through every realloc,
\* and what they show lies inside the block, until an array is overrun.
THEOREM ViewsStaySound == Spec => []ViewsSound
<1>1. ASSUME FormInv PROVE ViewsSound
  <2> SUFFICES ASSUME pc # "ruined", NEW c \in Controls
               PROVE  /\ ctl[c].type = "memo" => MemoSound(ctl[c])
                      /\ ctl[c].type = "list" =>
                           ListSound(ctl[c]) /\ ctl[c].LVItemCount <= ctl[c].room
    BY DEF ViewsSound, MemoSound, Fits, ListSound
  <2>1. Sound(ctl[c]) /\ Room(ctl)
    BY <1>1 DEF FormInv, TypesInv, RoomInv, Whole, Controls
  <2>2. QED
    BY <2>1, KindOf DEF Room, Controls
<1>2. QED
  BY <1>1, FormInvariant, PTL

=============================================================================

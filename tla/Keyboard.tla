------------------------------ MODULE Keyboard ------------------------------
(***************************************************************************)
(* drivers/keyboard.c and its readers.  IRQ1 translates a scancode with    *)
(* the flags of Shift and Caps Lock and puts the character in a ring, if   *)
(* some process has the focus; the shell, the programs (SYS_GET_KEY) and   *)
(* reads of stdin take characters out of the same ring, whoever they were  *)
(* typed for, and task_c and task_d empty it when they give the focus to a *)
(* program.                                                                *)
(*                                                                         *)
(* keyboard_pop_char() masks interrupts and the handler runs with them     *)
(* masked, so each is one step.  A read of stdin is as many steps as it    *)
(* takes characters: it gives the processor away while the ring is empty.  *)
(***************************************************************************)
EXTENDS Integers, Sequences

CONSTANTS
    KEYBOARD_BUFFER_SIZE,  \* cells of the ring, one of which stays empty
    Readers,               \* processes in a read of stdin
    ReadSize               \* how many characters such a read asks for

ASSUME KeyboardAssumption ==
    KEYBOARD_BUFFER_SIZE \in Nat \ {0} /\ ReadSize \in Nat \ {0}

VARIABLES
    circular_buffer, buffer_head, buffer_tail,
    shift_pressed, caps_lock_active,
    foreground,            \* foreground_process is not NULL
    down,                  \* external: the scancodes 2A and 36 that are down
    wanted                 \* how much each read of stdin still waits for, or NoRead

ring == <<circular_buffer, buffer_head, buffer_tail>>
flags == <<shift_pressed, caps_lock_active>>
keyboardVars == <<ring, flags, foreground, down, wanted>>

Cells == 0 .. KEYBOARD_BUFFER_SIZE - 1
Shifts == {"2A", "36"}
NoRead == -1
Enter == "enter"

\* Of the two tables, one key of each sort: a letter, a digit, and ENTER,
\* which is the same character with and without Shift.
abnt2_map == [letter |-> "a", digit |-> "1", return |-> Enter]
abnt2_shift_map == [letter |-> "A", digit |-> "!", return |-> Enter]
Keys == DOMAIN abnt2_map
Upper(c) == IF c = "a" THEN "A" ELSE c

Translated(k) ==
    LET c == IF shift_pressed THEN abnt2_shift_map[k] ELSE abnt2_map[k]
    IN  IF caps_lock_active THEN Upper(c) ELSE c

NextCell(i) == (i + 1) % KEYBOARD_BUFFER_SIZE

\* The test for a full ring that forgets that the last cell is followed by
\* the first.
Mut_keyboard_push_char(c) ==
    IF buffer_head + 1 # buffer_tail
    THEN /\ circular_buffer' = [circular_buffer EXCEPT ![buffer_head] = c]
         /\ buffer_head' = NextCell(buffer_head)
         /\ UNCHANGED buffer_tail
    ELSE UNCHANGED ring

\* keyboard_push_char
keyboard_push_char(c) ==
    IF NextCell(buffer_head) # buffer_tail
    THEN /\ circular_buffer' = [circular_buffer EXCEPT ![buffer_head] = c]
         /\ buffer_head' = NextCell(buffer_head)
         /\ UNCHANGED buffer_tail
    ELSE UNCHANGED ring

\* keyboard_handler, make code of a key of the tables
KeyDown(k) ==
    /\ IF foreground THEN keyboard_push_char(Translated(k)) ELSE UNCHANGED ring
    /\ UNCHANGED <<flags, foreground, down, wanted>>

\* keyboard_handler, make code of a Shift.  A key that is held repeats.  The
\* codes 2A that extended keys send after an E0, which the handler takes for
\* a release of nothing, are in no way different.
ShiftDown(s) ==
    /\ shift_pressed' = TRUE
    /\ down' = down \union {s}
    /\ UNCHANGED <<ring, caps_lock_active, foreground, wanted>>

\* Only one of the two codes is known on the way up.
Mut_ShiftUp(s) ==
    /\ s \in down
    /\ shift_pressed' = (shift_pressed /\ s # "2A")
    /\ down' = down \ {s}
    /\ UNCHANGED <<ring, caps_lock_active, foreground, wanted>>

ShiftUp(s) ==
    /\ s \in down
    /\ shift_pressed' = FALSE
    /\ down' = down \ {s}
    /\ UNCHANGED <<ring, caps_lock_active, foreground, wanted>>

CapsLock ==
    /\ caps_lock_active' = ~caps_lock_active
    /\ UNCHANGED <<ring, shift_pressed, foreground, down, wanted>>

Waiting == buffer_head # buffer_tail

\* keyboard_pop_char, with something in the ring
Pop ==
    /\ Waiting
    /\ buffer_tail' = NextCell(buffer_tail)
    /\ UNCHANGED <<circular_buffer, buffer_head>>

\* The shell that has the focus, a program that calls SYS_GET_KEY, or a turn
\* of the loops with which task_c and task_d empty the ring
GetKey == Pop /\ UNCHANGED <<flags, foreground, down, wanted>>

\* foreground_process is set and cleared by the process manager.
FocusMoves ==
    /\ foreground' = ~foreground
    /\ UNCHANGED <<ring, flags, down, wanted>>

\* sys_read of descriptor 0
sys_read(r) ==
    /\ wanted[r] = NoRead
    /\ wanted' = [wanted EXCEPT ![r] = ReadSize]
    /\ UNCHANGED <<ring, flags, foreground, down>>

\* A turn of the loop of keyboard_vfs_read that finds a character; ENTER ends
\* the read
keyboard_vfs_read(r) ==
    /\ wanted[r] > 0
    /\ Pop
    /\ wanted' = [wanted EXCEPT ![r] =
                    IF circular_buffer[buffer_tail] = Enter THEN 0 ELSE @ - 1]
    /\ UNCHANGED <<flags, foreground, down>>

ReadReturns(r) ==
    /\ wanted[r] = 0
    /\ wanted' = [wanted EXCEPT ![r] = NoRead]
    /\ UNCHANGED <<ring, flags, foreground, down>>

KeyboardInit ==
    /\ circular_buffer = [i \in Cells |-> "0"]
    /\ buffer_head = 0 /\ buffer_tail = 0
    /\ shift_pressed = FALSE /\ caps_lock_active = FALSE
    /\ foreground = FALSE
    /\ down = {}
    /\ wanted = [r \in Readers |-> NoRead]

KeyboardNext ==
    \/ \E k \in Keys : KeyDown(k)
    \/ \E s \in Shifts : ShiftDown(s) \/ ShiftUp(s)
    \/ CapsLock \/ GetKey \/ FocusMoves
    \/ \E r \in Readers : sys_read(r) \/ keyboard_vfs_read(r) \/ ReadReturns(r)

KeyboardSpec == KeyboardInit /\ [][KeyboardNext]_keyboardVars
-----------------------------------------------------------------------------
\* A letter is never changed by a Shift that nobody holds: however the codes
\* of two Shifts and of the repetition mix, the flag that the handler keeps
\* (keyboard.c:139-148) is up only while one of them is down.
ShiftHeld == shift_pressed => down # {}

Count == (buffer_head - buffer_tail) % KEYBOARD_BUFFER_SIZE
Content == [i \in 1 .. Count |->
              circular_buffer[(buffer_tail + i - 1) % KEYBOARD_BUFFER_SIZE]]

KeyQ == INSTANCE KeyQueue WITH
    Chars <- {"a", "A", "1", "!", Enter},
    Room <- KEYBOARD_BUFFER_SIZE - 1,
    queue <- Content

\* The ring with its two indices, filled by the interrupt and emptied by any
\* number of readers, is a queue: what was typed comes out once, in order,
\* and only what finds it full is lost (keyboard.c:111-132).
KeysInOrder == KeyQ!QueueSpec
=============================================================================

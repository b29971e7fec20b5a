------------------------------- MODULE Mouse --------------------------------
(***************************************************************************)
(* drivers/mouse.c: the initialisation of the mouse and the handler of     *)
(* IRQ12, which puts packets of four bytes together and moves the pointer. *)
(*                                                                         *)
(* init_idt() ends with interrupts on and IRQ12 open, so the bytes with    *)
(* which the mouse acknowledges the commands of mouse_init() are read      *)
(* either by mouse_read() or by the handler, which takes them for the      *)
(* beginning of a packet; which of the two is a race.  The mouse is not    *)
(* moved while it is initialised.  The command byte that mouse_init()      *)
(* reads back (mouse.c:89-91) can be taken by an interrupt in the same     *)
(* way; bit 1, which lets IRQ12 come, is set in whatever is read, and the  *)
(* other bits are taken to be as they were.                                *)
(***************************************************************************)
EXTENDS Integers, Sequences

CONSTANTS
    Width, Height,   \* screen_width, screen_height
    Movements        \* what the user does: <<buttons, dx, dy, wheel>>

ASSUME MouseAssumption ==
    /\ Width \in Nat \ {0} /\ Height \in Nat \ {0}
    /\ Movements \subseteq (0 .. 7) \X (-256 .. 255) \X (-256 .. 255) \X (-8 .. 7)

VARIABLES
    command,         \* the next command of mouse_init, AllSent after the last
    mouse_byte,      \* the bytes of the packet so far; mouse_cycle is its length
    mouse_x, mouse_y, mouse_buttons,
    sending,         \* external: the packet that the mouse is sending
    sent             \* external: how many of its bytes it has sent

position == <<mouse_x, mouse_y, mouse_buttons>>
device == <<sending, sent>>
mouseVars == <<command, mouse_byte, position, device>>

\* 0xF6, 0xF4 and three times 0xF3 with its argument
AllSent == 9
ACK == 250                                     \* 0xFA

mouse_cycle == Len(mouse_byte)
Bit(n, mask) == (n \div mask) % 2 = 1         \* n & mask
Signed(n) == IF n < 128 THEN n ELSE n - 256     \* (int8_t)

\* `rel |= 0xFFFFFF00' leaves a negative number as it is.
Mut_Relative(n, negative) == Signed(n)
Relative(n, negative) == IF negative /\ n < 128 THEN n - 256 ELSE Signed(n)

Clamped(v, size) == IF v < 0 THEN 0 ELSE IF v >= size THEN size - 1 ELSE v

\* What the mouse sends for a movement: its two deltas have nine bits, the
\* ninth with the buttons.
Encoded(m) == << 8 + m[1] + (IF m[2] < 0 THEN 16 ELSE 0) + (IF m[3] < 0 THEN 32 ELSE 0),
                 m[2] % 256, m[3] % 256, m[4] % 256 >>

Mut_InSync(data) == TRUE
\* Bit 3, always set in the first byte of a packet
InSync(data) == Bit(data, 8)

\* mouse_handler, past the tests of the status port
mouse_handler(data) ==
    IF mouse_cycle = 0 /\ ~InSync(data) THEN UNCHANGED <<mouse_byte, position>>
    ELSE IF mouse_cycle < 3
    THEN mouse_byte' = Append(mouse_byte, data) /\ UNCHANGED position
    ELSE LET first == mouse_byte[1]
         IN  /\ mouse_byte' = <<>>
             /\ mouse_buttons' = first % 8
             /\ mouse_x' = Clamped(mouse_x + Relative(mouse_byte[2], Bit(first, 16)), Width)
             /\ mouse_y' = Clamped(mouse_y - Relative(mouse_byte[3], Bit(first, 32)), Height)

\* mouse_write and mouse_read of one command, when mouse_read gets the answer
Acknowledged ==
    /\ command < AllSent
    /\ command' = command + 1
    /\ UNCHANGED <<mouse_byte, position, device>>

\* The same when IRQ12 comes first: mouse_wait runs out, and mouse_read reads
\* the port again for nothing.
AnswerTaken ==
    /\ command < AllSent
    /\ command' = command + 1
    /\ mouse_handler(ACK)
    /\ UNCHANGED device

Initialised == command = AllSent

\* The user moves, turns the wheel, presses or releases.
Move(m) ==
    /\ Initialised /\ sent = Len(sending)
    /\ sending' = Encoded(m) /\ sent' = 0
    /\ UNCHANGED <<command, mouse_byte, position>>

\* The next byte of the packet, and IRQ12 for it
IRQ12 ==
    /\ Initialised /\ sent < Len(sending)
    /\ mouse_handler(sending[sent + 1])
    /\ sent' = sent + 1
    /\ UNCHANGED <<command, sending>>

MouseInit ==
    /\ command = 1
    /\ mouse_byte = <<>>
    /\ mouse_x = Width \div 2 /\ mouse_y = Height \div 2     \* mouse_set_screen_size
    /\ mouse_buttons = 0
    /\ sending = <<>> /\ sent = 0

MouseNext ==
    \/ Acknowledged \/ AnswerTaken
    \/ \E m \in Movements : Move(m)
    \/ IRQ12

MouseSpec == MouseInit /\ [][MouseNext]_mouseVars

\* The mouse sends what it has begun.
MouseFair == MouseSpec /\ WF_mouseVars(IRQ12)
-----------------------------------------------------------------------------
\* The handler and the mouse are at the same byte of a packet.
InStep == Initialised /\ mouse_cycle = sent % 4

Near(p, v) == IF p < v THEN v - p ELSE p - v
\* The place on the screen closest to v
Closest(v, size) ==
    CHOOSE p \in 0 .. size - 1 : \A q \in 0 .. size - 1 : Near(p, v) <= Near(q, v)

\* A packet that the handler has read from its first byte moves the pointer
\* as far as the user moved the mouse, up to the edges of the screen, and
\* shows the buttons as they are (mouse.c:134-159).  Past 127 in the positive
\* direction it does not: the ninth bit is only used to make a number
\* negative, and the cast has already done that to numbers that are not.
PacketsTrue ==
    [][ \A m \in Movements :
          ( /\ IRQ12 /\ InStep /\ sent = 3 /\ sending = Encoded(m)
            /\ m[2] < 128 /\ m[3] < 128 )
          => /\ mouse_buttons' = m[1]
             /\ mouse_x' = Closest(mouse_x + m[2], Width)
             /\ mouse_y' = Closest(mouse_y - m[3], Height) ]_mouseVars

\* Whoever won the race for the answers, a user who goes on making small
\* movements gets a pointer that follows them: sooner or later the handler
\* is in step with the packets, for good (mouse.c:118).
QuietPacket == IRQ12 /\ sent = 3 /\ \A i \in 2 .. 4 : ~Bit(sending[i], 8)
RegainsStep == []<><<QuietPacket>>_mouseVars => <>[]InStep
=============================================================================

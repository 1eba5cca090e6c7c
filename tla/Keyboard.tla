------------------------------ MODULE Keyboard ------------------------------
(***************************************************************************)
(* The keyboard of NapalmOS: the PS/2 interrupt (hal/ps2.c), the key map,   *)
(* and the consumer that _kbd.state points to, with its modifiers and its   *)
(* line buffer (hal/devices/kbd.c).  The person who types and the           *)
(* controller's queue of codes are the environment.                         *)
(*                                                                          *)
(* A key is a string.  A code is a key and whether it went down (make) or   *)
(* up (break).  A character in a line carries the number of its delivery,   *)
(* so that no two are equal.                                                *)
(***************************************************************************)
EXTENDS Integers, Sequences, FiniteSets, SequencesExt

CONSTANTS
  Keys,       \* the keys the person uses
  Consumers,  \* the kbd_state_t records
  Buffered,   \* the consumers with a line buffer (data # NULL)
  NULL,       \* no consumer
  QueueMax,   \* how many codes keyboard and controller can hold
  MaxEvents   \* bound: how often keys go down or up

LSHIFT == "lshift"
RSHIFT == "rshift"
CAPS == "caps"
ENTER == "enter"
BACKSPACE == "backspace"
F12 == "f12"

Shifts == {LSHIFT, RSHIFT}
\* The keys below KBD_CHAR_MAX that have a branch of their own, and F12, which
\* is above it, put no character into a line.
Letters == Keys \ (Shifts \cup {CAPS, ENTER, BACKSPACE, F12})

ASSUME KeyboardAssumption ==
  /\ NULL \notin Consumers
  /\ Buffered \subseteq Consumers
  /\ QueueMax \in Nat
  /\ MaxEvents \in Nat

VARIABLES
  down,    \* the keys that are held
  queue,   \* codes the interrupt handler has not fetched
  events,  \* how often keys went down or up
  keymap,  \* the keys _kbd.keymap says are down
  state,   \* _kbd.state
  mods,    \* per consumer: l_shift and r_shift (as a set), caps
  line,    \* per consumer: the text in data
  seen,    \* how many characters went into lines
  lost,    \* history: keys whose latest code found the queue full
  missed   \* history, per consumer: shift keys whose latest code went elsewhere

person == <<down, queue, events, lost>>
kbd == <<keymap, state, mods, line, seen, missed>>
keyboardVars == <<down, queue, events, keymap, state, mods, line, seen, lost, missed>>

Codes == [key : Keys, make : BOOLEAN]
Chars == [key : Keys, upper : BOOLEAN, n : Nat]

KeyboardTypeOK ==
  /\ down \subseteq Keys
  /\ queue \in Seq(Codes)
  /\ Len(queue) <= QueueMax
  /\ keymap \subseteq Keys
  /\ state \in Consumers \cup {NULL}
  /\ mods \in [Consumers -> [shift : SUBSET Shifts, caps : BOOLEAN]]
  /\ line \in [Consumers -> Seq(Chars)]
  /\ lost \subseteq Keys
  /\ missed \in [Consumers -> SUBSET Shifts]

\* kbd_start clears the key map; kbd_state_create clears the modifiers.
KeyboardInit ==
  /\ down = {}
  /\ queue = <<>>
  /\ events = 0
  /\ keymap = {}
  /\ state = NULL
  /\ mods = [c \in Consumers |-> [shift |-> {}, caps |-> FALSE]]
  /\ line = [c \in Consumers |-> <<>>]
  /\ seen = 0
  /\ lost = {}
  /\ missed = [c \in Consumers |-> {}]

-----------------------------------------------------------------------------
(* The person and the controller. *)

\* Part of the bound: letters and Enter, of which the long sequences are made, count
\* once, the other keys twice.
Cost(k) == IF k \in Letters \cup {ENTER} THEN 1 ELSE 2

Send(k, make) ==
  /\ events' = events + Cost(k)
  /\ events' <= MaxEvents
  /\ IF Len(queue) < QueueMax
     THEN /\ queue' = Append(queue, [key |-> k, make |-> make])
          /\ lost' = lost \ {k}
     ELSE /\ queue' = queue
          /\ lost' = lost \cup {k}
  /\ UNCHANGED kbd

\* A key that is held goes on sending make codes.
Press(k) ==
  /\ Send(k, TRUE)
  /\ down' = down \cup {k}

Release(k) ==
  /\ k \in down
  /\ Send(k, FALSE)
  /\ down' = down \ {k}

-----------------------------------------------------------------------------
(* The interrupt handler. *)

KeymapAfter_NoRelease(c) == IF c.make THEN keymap \cup {c.key} ELSE keymap

\* kbd_update_keymap: the code of F12's release, 0xD8, is not below 0xD8.
KeymapAfter(c) ==
  IF c.make THEN keymap \cup {c.key}
  ELSE IF c.key = F12 THEN keymap
  ELSE keymap \ {c.key}

\* Any key taken for a shift key.
ShiftAfter_AnyKey(held, c) == IF c.make THEN held \cup {c.key} ELSE held \ {c.key}

ShiftAfter(held, c) ==
  IF c.key \in Shifts
  THEN IF c.make THEN held \cup {c.key} ELSE held \ {c.key}
  ELSE held

\* Caps lock toggles on every make code, also on those of a key held down.
CapsAfter(caps, c) == IF c = [key |-> CAPS, make |-> TRUE] THEN ~caps ELSE caps

\* The text after a code: strback on a text that is not empty, stradd of a
\* printable character, in upper case when shift and caps lock differ.
LineAfter(who, c) ==
  LET text == line[who]
      upper == (mods[who].shift # {}) # mods[who].caps
  IN IF ~c.make \/ who \notin Buffered THEN text
     ELSE IF c.key = BACKSPACE THEN IF text = <<>> THEN text ELSE Front(text)
     ELSE IF c.key \in Letters
          THEN Append(text, [key |-> c.key, upper |-> upper, n |-> seen])
     ELSE text

Typed(who, c) == c.make /\ c.key \in Letters /\ who \in Buffered

\* ps2_callback for a code of the keyboard: fetch it, kbd_handle.  With nothing
\* in the controller's buffer, or a byte of the mouse, it returns early.
KeyIrq ==
  /\ queue # <<>>
  /\ LET c == Head(queue) IN
     /\ queue' = Tail(queue)
     /\ keymap' = KeymapAfter(c)
     /\ missed' = [w \in Consumers |->
                     IF w = state THEN missed[w] \ {c.key}
                     ELSE missed[w] \cup ({c.key} \cap Shifts)]
     /\ IF state = NULL
        THEN UNCHANGED <<mods, line, seen>>
        ELSE /\ mods' = [mods EXCEPT ![state] = [shift |-> ShiftAfter(@.shift, c),
                                                 caps |-> CapsAfter(@.caps, c)]]
             /\ line' = [line EXCEPT ![state] = LineAfter(state, c)]
             /\ seen' = IF Typed(state, c) THEN seen + 1 ELSE seen
  /\ UNCHANGED <<down, events, state, lost>>

SetState(c) ==
  /\ state' = c
  /\ UNCHANGED <<person, keymap, mods, line, seen, missed>>

Person == \E k \in Keys : Press(k) \/ Release(k)

-----------------------------------------------------------------------------
(* Properties. *)

Pending == {queue[i].key : i \in 1..Len(queue)}

\* Once the codes of a key are fetched and none was lost, kbd_keydown and
\* kbd_keyup say what the key is doing, whatever consumers come and go.  F12 is
\* the exception: its release is not recognised.
KeymapFollows ==
  \A k \in Keys \ (Pending \cup lost \cup {F12}) : k \in keymap <=> k \in down

\* A consumer's shift bits are those of the key map, unless the shift key moved
\* while another consumer had the keyboard: the bits are kept per consumer and
\* kbd_setstate does not bring them up to date.
ShiftFollows ==
  \A c \in Consumers : \A s \in Shifts \ missed[c] : s \in mods[c].shift <=> s \in keymap

\* Keys, key map and modifiers agree, with the stated exceptions, although codes are
\* lost and the consumer changes between a key's two codes (kbd.c:67-113).
KeyboardFollows == KeymapFollows /\ ShiftFollows

=============================================================================

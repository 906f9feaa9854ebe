--------------------------- MODULE TerminalInput ---------------------------
(***************************************************************************)
(* From the keyboard to a program's stdin: the keyboard decoder and its    *)
(* event queue (keyboard.rs), the terminal thread's loop (main.rs), and    *)
(* the terminal endpoint's input queue (terminal.rs).                      *)
(*                                                                         *)
(* The terminal thread polls the controller until it is empty, turns the   *)
(* events into bytes and yields; only then does a program run and read.    *)
(* Keys are struck at any time.                                            *)
(***************************************************************************)
EXTENDS Ring, SequencesExt

CONSTANTS
  EventCapacity,   \* EVENT_QUEUE_CAPACITY
  InputCapacity,   \* TERMINAL_INPUT_CAPACITY
  MaxWire,         \* bytes the keyboard controller holds
  MaxStrokes       \* bound: keyboard and mouse actions of one behaviour

ASSUME TerminalInputAssumption ==
  /\ EventCapacity \in Nat \ {0} /\ InputCapacity \in Nat \ {0}
  /\ MaxWire \in Nat \ {0} /\ MaxStrokes \in Nat

VARIABLES
  controller,   \* bytes the controller has for the kernel
  keyboard,     \* KeyboardState: the shifts and the extended prefix
  events,       \* KeyboardState.queue
  input,        \* TerminalEndpointState.input
  pc,           \* "poll", "dispatch": the terminal thread; "user": a program
  down,         \* shift keys the user holds
  prefixed,     \* the keyboard has sent a prefix and owes its second byte
  strokes,      \* actions of the user so far
  typed,        \* what the user's keystrokes mean
  got,          \* what programs have read
  dropped       \* some event or byte met a full queue

inputVars == <<controller, keyboard, events, input, pc, down, prefixed, strokes, typed, got, dropped>>

Shifts == {"lshift", "rshift"}
Keys == Shifts \cup {"letter", "enter"}
WireByte(key, released, aux) == [key |-> key, released |-> released, aux |-> aux]
Event(key, released, shift) == [key |-> key, released |-> released, shift |-> shift]
NoByte == "none"

(* key_event_to_input_byte: the character of a pressed key; a letter       *)
(* stands for every key that shift changes, enter for those it does not.   *)
InputByte(e) ==
  CASE e.released \/ e.key \in Shifts -> NoByte
    [] ~e.released /\ e.key = "enter" -> "newline"
    [] ~e.released /\ e.key = "letter" -> IF e.shift THEN "upper" ELSE "lower"
Given(bytes, byte) == IF byte = NoByte THEN bytes ELSE Append(bytes, byte)

-----------------------------------------------------------------------------
(* The user and the PS/2 hardware.                                         *)
Send(byte) == Len(controller) < MaxWire /\ controller' = Append(controller, byte)
Stroke == strokes < MaxStrokes /\ strokes' = strokes + 1
KernelState == <<keyboard, events, input, pc, got, dropped>>

PressKey(key) ==
  /\ Stroke /\ ~prefixed /\ key \notin down
  /\ Send(WireByte(key, FALSE, FALSE))
  /\ down' = down \cup (Shifts \cap {key})
  /\ typed' = Given(typed, InputByte(Event(key, FALSE, down # {})))
  /\ UNCHANGED <<prefixed, KernelState>>

ReleaseKey(key) ==
  /\ Stroke /\ ~prefixed /\ (key \in Shifts => key \in down)
  /\ Send(WireByte(key, TRUE, FALSE))
  /\ down' = down \ {key}
  /\ UNCHANGED <<prefixed, typed, KernelState>>

(* A key with a two-byte code, the second byte of which may be that of     *)
(* another key: arrows, or the fake shifts around them.                    *)
SendPrefix ==
  /\ Stroke /\ ~prefixed
  /\ Send(WireByte("prefix", FALSE, FALSE))
  /\ prefixed' = TRUE
  /\ UNCHANGED <<down, typed, KernelState>>
SendSecondByte(key, released) ==
  /\ prefixed
  /\ Send(WireByte(key, released, FALSE))
  /\ prefixed' = FALSE
  /\ UNCHANGED <<down, strokes, typed, KernelState>>

MoveMouse ==
  /\ Stroke
  /\ Send(WireByte("letter", FALSE, TRUE))
  /\ UNCHANGED <<down, prefixed, typed, KernelState>>

-----------------------------------------------------------------------------
(* KeyboardState::process_byte.                                            *)
AfterDecode(kb, byte) ==
  CASE byte.key = "prefix" -> [kb EXCEPT !.extended = TRUE]
    [] byte.key # "prefix" /\ kb.extended -> [kb EXCEPT !.extended = FALSE]
    [] byte.key \in Shifts /\ ~kb.extended -> [kb EXCEPT !.shift =
         IF byte.released THEN @ \ {byte.key} ELSE @ \cup {byte.key}]
    [] OTHER -> kb
DecodeWithoutPrefix(kb, byte) ==
  IF byte.key = "prefix" THEN <<>>
  ELSE <<Event(byte.key, byte.released, AfterDecode(kb, byte).shift # {})>>
Decode(kb, byte) ==
  IF byte.key = "prefix" \/ kb.extended THEN <<>>
  ELSE <<Event(byte.key, byte.released, AfterDecode(kb, byte).shift # {})>>

(* The shift state changes even if the event queue has no room.            *)
NextKeyboard(kb, byte) == AfterDecode(kb, byte)

UserState == <<down, prefixed, strokes, typed>>

(* keyboard::poll: a byte of the mouse ends it.                            *)
PollByte ==
  /\ pc = "poll"
  /\ IF controller = <<>>
     THEN pc' = "dispatch" /\ UNCHANGED <<controller, keyboard, events, dropped>>
     ELSE LET byte == Head(controller)
              new == Decode(keyboard, byte)
          IN  /\ controller' = Tail(controller)
              /\ IF byte.aux
                 THEN pc' = "dispatch" /\ UNCHANGED <<keyboard, events, dropped>>
                 ELSE /\ keyboard' = NextKeyboard(keyboard, byte)
                      /\ events' = IF new = <<>> THEN events ELSE Push(events, new[1])
                      /\ dropped' = (dropped \/ (new # <<>> /\ IsFull(events)))
                      /\ UNCHANGED pc
  /\ UNCHANGED <<input, got, UserState>>

(* pop_event and handle_key_event; after the last event the thread yields. *)
DispatchEvent ==
  /\ pc = "dispatch"
  /\ IF IsEmpty(events)
     THEN pc' = "user" /\ UNCHANGED <<events, input, dropped>>
     ELSE LET byte == InputByte(Oldest(events))
          IN  /\ events' = Pop(events)
              /\ input' = IF byte = NoByte THEN input ELSE Push(input, byte)
              /\ dropped' = (dropped \/ (byte # NoByte /\ IsFull(input)))
              /\ UNCHANGED pc
  /\ UNCHANGED <<controller, keyboard, got, UserState>>

(* Process::read on fd 0, one byte, and the Yield of a program that finds  *)
(* nothing to read or has done its work.                                   *)
ReadByte ==
  /\ pc = "user" /\ ~IsEmpty(input)
  /\ got' = Append(got, Oldest(input))
  /\ input' = Pop(input)
  /\ UNCHANGED <<controller, keyboard, events, pc, dropped, UserState>>
ProgramYields ==
  /\ pc = "user"
  /\ pc' = "poll"
  /\ UNCHANGED <<controller, keyboard, events, input, got, dropped, UserState>>

-----------------------------------------------------------------------------
InputInit ==
  /\ controller = <<>>
  /\ keyboard = [shift |-> {}, extended |-> FALSE]
  /\ events = NewRing(EventCapacity, Event("enter", TRUE, FALSE))
  /\ input = NewRing(InputCapacity, NoByte)
  /\ pc = "poll"
  /\ down = {} /\ prefixed = FALSE /\ strokes = 0 /\ typed = <<>>
  /\ got = <<>> /\ dropped = FALSE

Hardware ==
  \/ \E key \in Keys : PressKey(key) \/ ReleaseKey(key)
  \/ SendPrefix
  \/ \E key \in Keys, released \in BOOLEAN : SendSecondByte(key, released)
  \/ MoveMouse
TerminalThread == PollByte \/ DispatchEvent
Program == ReadByte \/ ProgramYields

InputNext == Hardware \/ TerminalThread \/ Program

-----------------------------------------------------------------------------
BytesOf(es) ==
  LET bytes[n \in 0..Len(es)] ==
        IF n = 0 THEN <<>> ELSE Given(bytes[n - 1], InputByte(es[n]))
  IN  bytes[Len(es)]
Underway == got \o Contents(input) \o BytesOf(Contents(events))

IsSubsequence(s, t) ==
  \E f \in [DOMAIN s -> DOMAIN t] :
    /\ \A i \in DOMAIN s : s[i] = t[f[i]]
    /\ \A i, j \in DOMAIN s : i < j => f[i] < f[j]

(* Programs read what was typed, in order, upper case exactly where a      *)
(* shift key was held: nothing is invented, repeated or reordered, and     *)
(* nothing is missing unless a queue was full (the wrap-around of the      *)
(* rings, prefix bytes and mouse bytes included).                          *)
InputFaithful ==
  /\ IsSubsequence(Underway, typed)
  /\ (controller = <<>> /\ ~dropped) => Underway = typed
=============================================================================

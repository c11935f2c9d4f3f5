------------------------------ MODULE Console -------------------------------
(***************************************************************************)
(* The console: the receive ring of src/bsp/uart/uart_drv.c, the keys and   *)
(* input fields of src/ui/ui_lib.c and the command line of                  *)
(* src/ui/ui_cli_main.c.                                                   *)
(*                                                                         *)
(* uart_polling is called by uart_scanc alone, so one character is moved    *)
(* from the chip's FIFO to the ring each time one is taken from the ring.   *)
(* Screen output is left out.                                              *)
(***************************************************************************)
EXTENDS Integers, Sequences

CONSTANTS
  Letter,       \* printable keys other than the space
  RxSize,       \* UART_RXBUF_SIZE
  FifoSize,     \* characters the chip keeps
  MaxHistory,   \* CLI_MAX_HISTORY
  MaxChars,     \* CLI_MAX_CHARS
  FieldSize     \* the size argument of ui_gets

ASSUME ConsoleAssumption ==
  /\ RxSize \in Nat \ {0} /\ FifoSize \in Nat \ {0}
  /\ MaxHistory \in Nat \ {0} /\ MaxChars \in Nat \ {0, 1}
  /\ FieldSize \in Nat \ {0}

VARIABLES
  fifo,     \* the chip's receive FIFO
  ring,     \* uart_info.rxbuf
  esc,      \* ui_getc: what of an arrow key has been read
  line,     \* cli->buf up to cli->total
  hist,     \* cli->history
  cur,      \* current_history
  field,    \* ui_gets in a command's handler, or NoField
  entered   \* history: the commands entered, the last MaxHistory of them

consoleVars == <<fifo, ring, esc, line, hist, cur, field, entered>>

Raw == Letter \cup {"sp", "bs", "enter", "esc", "[", "A", "B", "C", "D", "^U"}

\* The characters of an arrow key that stand alone are printable; in a line
\* they are not told from other letters.
Printable(c) == IF c \in {"[", "A", "B", "C", "D"} THEN CHOOSE l \in Letter : TRUE
                ELSE c

NoField == [on |-> FALSE, text |-> <<>>, first |-> FALSE]

\* uart_init, uart_init_channel, the memset of cli_main
ConsoleInit ==
  /\ fifo = <<>> /\ esc = "no"
  /\ ring = [total |-> 0, in |-> 0, out |-> 0, buf |-> [i \in 0 .. RxSize - 1 |-> ""]]
  /\ line = <<>> /\ cur = 0 /\ entered = <<>>
  /\ hist = [index |-> 0, total |-> 0, buf |-> [i \in 0 .. MaxHistory - 1 |-> <<>>]]
  /\ field = NoField

-----------------------------------------------------------------------------
(* uart_drv.c *)

\* uart_polling: one character from the FIFO, dropped when the ring is full.
Polled(r) ==
  IF fifo = <<>> \/ r.total = RxSize THEN r
  ELSE [r EXCEPT !.buf[r.in] = Head(fifo), !.in = (@ + 1) % RxSize,
                 !.total = @ + 1]

\* uart_scanc: found is whether there is a character, c the character.  (The
\* slot is blanked here, which nothing reads.)
Scanned(r) ==
  IF r.total = 0 THEN [found |-> FALSE, c |-> "", ring |-> r]
  ELSE [found |-> TRUE, c |-> r.buf[r.out],
        ring  |-> [r EXCEPT !.buf[r.out] = "", !.out = (@ + 1) % RxSize,
                           !.total = @ - 1]]

Type ==
  /\ Len(fifo) < FifoSize
  /\ \E c \in Raw : fifo' = Append(fifo, c)
  /\ UNCHANGED <<ring, esc, line, hist, cur, field, entered>>

-----------------------------------------------------------------------------
(* The consumers of ui_getc. *)

\* cli_parse_enter calls the handler of the one command the line names, which
\* may ask for a value with ui_gets: the default is offered first.
ParseEnter == \/ field' = NoField
              \/ \E default \in {<<>>, <<CHOOSE c \in Letter : TRUE>>} :
                   field' = [on |-> TRUE, text |-> default, first |-> TRUE]

\* A mutant of NextSlot: it sticks at the last one.
NextSlot_Stick(i) == IF i + 1 >= MaxHistory THEN i ELSE i + 1

\* The slot after i in the history.
NextSlot(i) == IF i + 1 >= MaxHistory THEN 0 ELSE i + 1

Enter ==
  IF line = <<>> THEN UNCHANGED <<hist, entered, field>> /\ cur' = hist.index
  ELSE /\ hist' = [index |-> NextSlot(hist.index),
                   total |-> IF hist.total < MaxHistory THEN hist.total + 1
                             ELSE hist.total,
                   buf   |-> [hist.buf EXCEPT ![hist.index] = line]]
       /\ cur' = NextSlot(hist.index)
       /\ LET all == Append(entered, line)
          IN  entered' = IF Len(all) > MaxHistory THEN Tail(all) ELSE all
       /\ ParseEnter

\* One command back (ARROW_U, ctrl-U) and one forward (ARROW_D).
Back(c)    == IF c = 0 THEN hist.total - 1 ELSE c - 1
Forward(c) == IF c + 1 >= hist.total THEN 0 ELSE c + 1

Recall(c) ==
  IF hist.total = 0 THEN UNCHANGED <<line, cur>>
  ELSE cur' = c /\ line' = hist.buf[c]

\* cli_main.  A space is stored without a look at the length, past the end of
\* the buffer too; the model follows it as far as the buffer goes.
CliKey(key) ==
  \/ /\ key = "bs" /\ line' = IF line = <<>> THEN line ELSE SubSeq(line, 1, Len(line) - 1)
     /\ UNCHANGED <<hist, cur, entered, field>>
  \/ /\ key = "sp" /\ Len(line) < MaxChars /\ line' = Append(line, "sp")
     /\ UNCHANGED <<hist, cur, entered, field>>
  \/ key = "enter" /\ line' = <<>> /\ Enter
  \/ key = "esc" /\ line' = <<>> /\ cur' = hist.index /\ UNCHANGED <<hist, entered, field>>
  \/ key \in {"up", "^U"} /\ Recall(Back(cur)) /\ UNCHANGED <<hist, entered, field>>
  \/ key = "down" /\ Recall(Forward(cur)) /\ UNCHANGED <<hist, entered, field>>
  \/ key = "right" /\ UNCHANGED <<line, hist, cur, entered, field>>
  \/ /\ key \in Letter
     /\ line' = IF Len(line) + 1 >= MaxChars - 1 THEN <<>> ELSE Append(line, key)
     /\ UNCHANGED <<hist, cur, entered, field>>

\* ui_gets: the first printable key replaces the default.
FieldKey(key) ==
  LET old == IF field.first THEN <<>> ELSE field.text
  IN  \/ key \in {"enter", "esc"} /\ field' = NoField
      \/ /\ key = "bs"
         /\ field' = [field EXCEPT !.first = FALSE,
                        !.text = IF @ = <<>> THEN @ ELSE SubSeq(@, 1, Len(@) - 1)]
      \/ /\ key \in Letter \cup {"sp"}
         /\ field' = [field EXCEPT !.first = FALSE,
                        !.text = IF Len(old) < FieldSize THEN Append(old, key) ELSE old]
      \/ key \in {"up", "down", "right", "^U"} /\ UNCHANGED field

Key(key) ==
  IF field.on THEN FieldKey(key) /\ UNCHANGED <<line, hist, cur, entered>>
  ELSE CliKey(key)

NoKey == UNCHANGED <<line, hist, cur, field, entered>>

-----------------------------------------------------------------------------
(* ui_getc *)

Arrow(c) == CASE c = "A" -> "up" [] c = "B" -> "down" [] c = "C" -> "right"
              [] c = "D" -> "bs" [] OTHER -> "esc"

\* One uart_scanc.  After ESC the next 200 ms wait for '[', and what else
\* comes then is dropped; after '[' the next character decides.
Getc ==
  LET got == Scanned(Polled(ring))
  IN  /\ fifo' = IF fifo = <<>> THEN fifo ELSE Tail(fifo)
      /\ ring' = got.ring
      /\ got.found
      /\ \/ /\ esc = "no" /\ got.c # "esc" /\ esc' = "no" /\ Key(Printable(got.c))
         \/ /\ esc = "no" /\ got.c = "esc" /\ esc' = "esc" /\ NoKey
         \/ /\ esc = "esc" /\ esc' = IF got.c = "[" THEN "[" ELSE "esc"
            /\ NoKey
         \/ /\ esc = "[" /\ esc' = "no" /\ Key(Arrow(got.c))

\* The wait is over: a lone ESC.
EscTimeout ==
  /\ esc # "no" /\ esc' = "no"
  /\ Key("esc")
  /\ UNCHANGED <<fifo, ring>>

ConsoleNext == Type \/ Getc \/ EscTimeout

ConsoleSpec == ConsoleInit /\ [][ConsoleNext]_consoleVars

-----------------------------------------------------------------------------
\* The history ring of cli_main, walked back from its index, holds the last
\* commands entered, newest first, and current_history never points behind
\* them: an arrow key recalls what was entered and in its order.
HistoryIsRecent ==
  /\ hist.total = Len(entered) /\ cur <= hist.total
  /\ \A i \in 1 .. hist.total :
       hist.buf[(hist.index - i) % MaxHistory] = entered[Len(entered) - i + 1]
=============================================================================

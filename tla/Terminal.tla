--------------------------------- MODULE Terminal ---------------------------------
(***************************************************************************)
(* The terminal of `nemr attach`: what its ModeTracker (engine/tty.rs)     *)
(* makes of the bytes a program in the session writes, and what the client *)
(* (bin/nemr.rs, attach_client) writes after them when the attach ends.    *)
(*                                                                         *)
(* A program switches a private mode n of the terminal on with ESC [ ? n h *)
(* and off with ESC [ ? n l, several at once with semicolons; one that is  *)
(* killed leaves them on in a terminal that outlives it.  The bytes come   *)
(* in chunks cut anywhere.  A byte is its code.                            *)
(***************************************************************************)
EXTENDS Integers, Sequences
LOCAL INSTANCE SequencesExt

Esc == 27
Bracket == 91
Question == 63
Semicolon == 59
SetMode == 104      \* h
ResetMode == 108    \* l
IsDigit(b) == b \in 48 .. 57

Cursor == 25
Alternate == <<1049, 1047, 47>>
Reporting == <<1000, 1002, 1003, 1006, 2004>>
Tracked == ToSet(Alternate \o Reporting)
Widest == 65535     \* of a u16

-----------------------------------------------------------------------------------
(* ModeTracker *)

NewTracker == [state |-> "Ground", params |-> <<>>, digits |-> <<>>, private |-> FALSE,
               enabled |-> {}, cursor_hidden |-> FALSE]

\* digits.parse: no digits, or a number too wide, is no parameter.
Value(digits) == FoldLeft(LAMBDA v, b : 10 * v + b - 48, 0, digits)
TakeParam(t) ==
    IF t.digits # <<>> /\ Value(t.digits) <= Widest
    THEN [t EXCEPT !.params = Append(@, Value(t.digits)), !.digits = <<>>]
    ELSE [t EXCEPT !.digits = <<>>]

\* The cursor's mode is the other way round: set shows it.
Record(t, mode, set) ==
    IF mode = Cursor THEN [t EXCEPT !.cursor_hidden = ~set]
    ELSE IF mode \notin Tracked THEN t
    ELSE [t EXCEPT !.enabled = IF set THEN @ \cup {mode} ELSE @ \ {mode}]

\* h or l: the last parameter, then all of them if the sequence was private.
EndCsi(t, set) ==
    LET taken == TakeParam(t)
        applied == FoldLeft(LAMBDA u, mode : Record(u, mode, set), taken, taken.params)
    IN  IF t.private THEN [applied EXCEPT !.params = <<>>, !.state = "Ground"]
        ELSE [taken EXCEPT !.state = "Ground"]

InCsi(t, byte) ==
    CASE byte = Question -> [t EXCEPT !.private = TRUE]
      [] IsDigit(byte) -> [t EXCEPT !.digits = Append(@, byte)]
      [] byte = Semicolon -> TakeParam(t)
      [] byte \in {SetMode, ResetMode} -> EndCsi(t, byte = SetMode)
      [] OTHER -> [t EXCEPT !.state = "Ground"]

\* ESC begins a sequence in any state, also within another that was cut short.
ObserveByte(t, byte) ==
    CASE byte = Esc -> [t EXCEPT !.state = "Escape"]
      [] byte # Esc /\ t.state = "Ground" -> t
      [] byte # Esc /\ t.state = "Escape" ->
           IF byte = Bracket
           THEN [t EXCEPT !.state = "Csi", !.params = <<>>, !.digits = <<>>, !.private = FALSE]
           ELSE [t EXCEPT !.state = "Ground"]
      [] byte # Esc /\ t.state = "Csi" -> InCsi(t, byte)

Observe(t, bytes) == FoldLeft(ObserveByte, t, bytes)

Decimal[n \in Nat] == IF n < 10 THEN <<48 + n>> ELSE Append(Decimal[n \div 10], 48 + (n % 10))
Switch(mode, final) == <<Esc, Bracket, Question>> \o Decimal[mode] \o <<final>>

\* restore_sequence: the alternate screens first, for leaving one moves the cursor;
\* the attributes only after something else.
RestoreSequence(t) ==
    LET left == SelectSeq(Alternate \o Reporting, LAMBDA mode : mode \in t.enabled)
        modes == FlattenSeq([i \in DOMAIN left |-> Switch(left[i], ResetMode)])
                 \o (IF t.cursor_hidden THEN Switch(Cursor, SetMode) ELSE <<>>)
    IN  IF modes = <<>> THEN <<>> ELSE modes \o <<Esc, Bracket, 48, 109>>

-----------------------------------------------------------------------------------
(* attach_client *)

\* What it has written to the terminal once the attach is over: an exit code or the
\* end of the stream is followed by the restores, an error is not, and neither is
\* anything where stdin is no terminal.
Rendered(chunks, interactive, end) ==
    FlattenSeq(chunks)
    \o (IF interactive /\ end \in {"exit_code", "closed"}
        THEN RestoreSequence(FoldLeft(Observe, NewTracker, chunks)) ELSE <<>>)

-----------------------------------------------------------------------------------
(* The terminal itself, as a definition to check the tracker against.      *)

\* A complete private sequence from ESC at i to its final byte at j.
IsSwitch(bytes, i, j) ==
    /\ i + 2 < j /\ bytes[i] = Esc /\ bytes[i + 1] = Bracket
    /\ bytes[j] \in {SetMode, ResetMode}
    /\ \A k \in i + 2 .. j - 1 : bytes[k] \in {Question, Semicolon} \/ IsDigit(bytes[k])
    /\ \E k \in i + 2 .. j - 1 : bytes[k] = Question

\* One of the fields between its semicolons is the mode.
Mentions(bytes, i, j, mode) ==
    LET bounds == {i + 1, j} \cup {k \in i + 2 .. j - 1 : bytes[k] = Semicolon} IN
    \E a, b \in bounds :
       /\ a < b /\ \A c \in bounds : c <= a \/ b <= c
       /\ LET digits == SelectSeq(SubSeq(bytes, a + 1, b - 1), IsDigit)
          IN  digits # <<>> /\ Value(digits) = mode

\* The final bytes of the sequences that switched the mode, and the last of them.
Switches(bytes, mode) ==
    {j \in DOMAIN bytes : \E i \in 1 .. j : IsSwitch(bytes, i, j) /\ Mentions(bytes, i, j, mode)}
LastIs(bytes, mode, final) ==
    \E j \in Switches(bytes, mode) :
       bytes[j] = final /\ \A k \in Switches(bytes, mode) : k <= j

\* What the bytes leave switched away from a terminal's own state.
LeftOn(bytes) ==
    {mode \in Tracked : LastIs(bytes, mode, SetMode)}
    \cup {mode \in {Cursor} : LastIs(bytes, mode, ResetMode)}

===================================================================================

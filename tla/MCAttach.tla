---- MODULE MCAttach ----
EXTENDS Attach, Terminal, FiniteSets

\* What a program writes at once: modes switched one by one or together, a switch cut
\* short anywhere and its rest, one that is not private, a number that only a mode
\* narrower than a u16 would take for 1049, and a byte of text.
Fragment ==
    {Switch(1049, SetMode), Switch(1049, ResetMode), Switch(25, ResetMode), Switch(25, SetMode),
     <<Esc, Bracket, Question, 52, 55, Semicolon, 50, 53, ResetMode>>,
     <<Esc, Bracket, Question>> \o Decimal[1047] \o <<Semicolon>> \o Decimal[1000] \o <<SetMode>>,
     <<Esc, Bracket, Question, 50>>, <<53, ResetMode>>, <<Esc>>, <<Bracket, Question, 50>>,
     <<Esc, Bracket, 49, 48, 52, 57, ResetMode>>, Switch(66585, SetMode), <<Semicolon>>, <<65>>}
Output == {<<a>> : a \in Fragment} \cup (Fragment \X Fragment) \cup (Fragment \X Fragment \X Fragment)

\* However the output is cut: when an attach with a terminal ends, every mode the
\* session left switched is switched back, and a session that left none is not touched;
\* the alternate screen is left before anything else is written.
ASSUME TerminalIsRestored ==
    \A chunks \in Output :
       LET written == Rendered(chunks, FALSE, "exit_code")
           rest == Rendered(chunks, TRUE, "exit_code")
       IN  /\ LeftOn(rest) = {}
           /\ LeftOn(written) = {} => rest = written
           /\ 1049 \in LeftOn(written) =>
                SubSeq(rest, 1, Len(written) + 8) = written \o Switch(1049, ResetMode)
====

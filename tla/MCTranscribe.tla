---------------------------- MODULE MCTranscribe ----------------------------
(* TLC instance of Transcribe with integers of 8 and 11 bits for 32 and 64,  *)
(* ten milliseconds to the second, and a window and stamps on each side of   *)
(* every comparison: absent, negative, zero, inside, at the end, past it, at *)
(* the end of the integers and beyond them.                                  *)
EXTENDS Transcribe

W(from, to) == [startMs |-> from, endMs |-> to]

MCWindows ==
    {W(0, 1), W(0, 50), W(40, 90), W(0, 289), W(40, 1023), W(0, 1023), W(1022, 1023)}

Stamp(form, value) == [form |-> form, value |-> value]

MCRawStamps ==
    {Stamp("absent", 0), Stamp("fraction", 0), Stamp("string", 30)}
    \cup {Stamp("number", n) : n \in {-5, 0, 1, 30, 50, 51, 1000, 1023, 1024}}

MCCertainties == {{}, {0}, {90}}

(* Utterances are rebased one by one: the optional fields vary only in a     *)
(* lone one, all stamps in pairs, and a few in threes.                       *)
MCUtterances ==
    [startMs : MCRawStamps, endMs : MCRawStamps, confidence : MCCertainties,
     isSpeech : {{}, {TRUE}, {FALSE}}]

Plain(start, end) ==
    [startMs |-> start, endMs |-> end, confidence |-> {}, isSpeech |-> {}]

Few == {Stamp("absent", 0), Stamp("number", 1), Stamp("number", 30), Stamp("number", 51)}

MCTexts ==
    {<<u>> : u \in MCUtterances}
    \cup {<<Plain(a, b), Plain(c, c)>> : a \in MCRawStamps, b \in MCRawStamps, c \in MCRawStamps}
    \cup {<<Plain(a, a), Plain(a, b), Plain(c, c)>> : a \in Few, b \in Few, c \in Few}

=============================================================================

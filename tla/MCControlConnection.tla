-------------------------- MODULE MCControlConnection --------------------------
(* ControlConnection with one reply of each shape.                         *)
EXTENDS ControlConnection

Crlf == <<CR, LF>>

SomeReplies ==
    {<<Word(220, " ")>> \o Crlf,
     <<Word(421, " ")>> \o Crlf,
     \* three digits and nothing else; a bare LF
     <<Word(200, ""), LF>>,
     \* a line that begins like the end, and is not; a bare CR
     <<Word(230, "-")>> \o Crlf \o <<Word(220, " "), CR, Word(230, " ")>> \o Crlf,
     \* one more than the buffer takes; far too long
     <<Word(211, " "), Text, Text>> \o Crlf,
     <<Word(212, "-"), LF, Word(212, " "), Text, Text, Text>> \o Crlf}
================================================================================

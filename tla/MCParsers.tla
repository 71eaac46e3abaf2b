------------------------------- MODULE MCParsers -------------------------------
(* Parsers on answers and endpoints at the limits of their types.          *)
EXTENDS Parsers

\* around each limit, and past all of them
SomeNumbers ==
    (0..12) \union UNION {m - 2 .. m + 12 : m \in {Max8, Max16, Max32, Max64}}
    \union {Max64 * 10 + d : d \in 0..9} \union {10 ^ 7 - 1}

SomeTexts ==
    {<<>>, <<Space>>, <<Word>>} \union
    UNION {{to_string(n), <<0>> \o to_string(n), to_string(n) \o <<Space>>,
            <<Word>> \o to_string(n)} : n \in SomeNumbers}

SomePorts == {0, 1, 20, Max8 - 1, Max8, Max8 + 1, 6446, Max16 - 1, Max16}

Code(code) == to_string(code) \o <<Space>>

Numbers == {[kind |-> "number", text |-> t] : t \in SomeTexts}

\* The text of an answer, with a word before it and perhaps one after it; the
\* word before may stand in parentheses.
Answers(code, inside) ==
    {Code(code) \o head \o <<Open>> \o inside \o <<Close>> \o tail :
        head \in {<<Word>>, <<Open, Word, Close, Space>>},
        tail \in {<<>>, <<Dot>>, <<Space, Word>>}}

\* Three delimiters before the port and one after it, the same ones or not.
Delimiters == {<<d, d, d, d>> : d \in {Bar, Comma}} \union {<<Comma, Bar, Dot, Bar>>}

Epsv ==
    {[kind |-> "epsv", text |-> t] :
        t \in UNION {Answers(229, SubSeq(d, 1, 3) \o to_string(p) \o SubSeq(d, 4, 4)) :
                        p \in SomePorts \union {Max16 + 1}, d \in Delimiters}}
    \union
    {[kind |-> "epsv", text |-> Code(229) \o t] :
        t \in {<<Word>>, <<Open>>, <<Open, Close>>, <<Close, Bar, Bar, Bar, 2, 1, Bar, Open>>,
               <<Open, Bar, Bar, Bar, Bar, Close>>, <<Open, Bar, Bar, Close>>}}

\* Numbers one after another, separated by commas or dots.
Numerals(fields, del) ==
    FoldLeft(LAMBDA text, n :
                (IF text = <<>> THEN <<>> ELSE Append(text, del)) \o to_string(n),
             <<>>, fields)

SomeFields ==
    {<<127, 0, 0, 1>>, <<0, 10, Max8, 9>>} \X SomePorts

Pasv ==
    UNION {{[kind |-> "pasv", fields |-> fields, text |-> t] :
                t \in Answers(227, Numerals(fields, Comma))} :
        fields \in {f[1] \o Halves(f[2]) : f \in SomeFields} \union
                   {<<127, 0, 0, 1, 2>>, <<127, 0, 0, 1, 2, 3, 4>>, <<>>,
                    <<127, 0, 0, 1, Max8 + 1, 1>>}}

Sizes ==
    {[kind |-> "size", code |-> 213, size |-> n, text |-> Code(213) \o to_string(n)] :
        n \in SomeNumbers \intersect (0..Max64)}
    \union
    {[kind |-> "size", code |-> a[1], size |-> Refused, text |-> Code(a[1]) \o a[2]] :
        a \in {<<550, <<Word>>>>, <<550, <<7>>>>, <<213, <<>>>>, <<213, <<7, Space>>>>}}

SomeDigits ==
    {<<2, 0, 2, 4, 1, 1, 0, 4, 1, 7, 0, 7, 4, 9>>,
     <<1, 9, 9, 8, 0, 6, 1, 5, 1, 0, 0, 0, 4, 5>>,
     <<9, 9, 9, 9, 1, 2, 3, 1, 2, 3, 5, 9, 6, 0>>,
     <<2, 0, 2, 4, 1, 3, 0, 4, 1, 7, 0, 7, 4, 9>>}    \* the thirteenth month

Fractions ==
    {<<>>, <<Dot>>, <<Word, 7>>, <<Dot, 0, 1, 4>>, <<Dot, Word>>} \union
    {<<Dot>> \o to_string(n) : n \in {Max32, Max32 + 1}}

Times ==
    {[kind |-> "time", code |-> code, text |-> Code(code) \o d \o f] :
        code \in {213, 550}, d \in SomeDigits, f \in Fractions}
    \union
    {[kind |-> "time", code |-> 213, text |-> Code(213) \o t] :
        t \in {<<>>, <<1, 2, 3, 4>>, <<1, 9, 9, 8, 0, 6, 1, 5, 1, 0, 0, 0, 4>>} \union
              {[d EXCEPT ![i] = Word] : d \in SomeDigits, i \in 1..14}}

SomeNames == {<<>>, <<<<Word>>>>, <<<<Word>>, <<Word, Space, 1>>>>, <<<<1>>, <<>>, <<CR, 2>>>>}

\* Every line ended, the last one perhaps not (an empty one has to be).
Lists ==
    UNION {{[kind |-> "list", names |-> names,
             text |-> FoldLeft(LAMBDA text, n : text \o n \o eol, <<>>, names)] :
                names \in SomeNames} \union
           {[kind |-> "list", names |-> names,
             text |-> FoldLeft(LAMBDA text, n : text \o n \o eol, <<>>, Front(names))
                        \o Last(names)] :
                names \in SomeNames \ {<<>>}} :
           eol \in {<<LF>>, <<CR, LF>>}}

SomeOctets == {<<127, 0, 0, 1>>, <<0, 10, Max8, 9>>}

Endpoints ==
    {[protocol |-> 1, address |-> Numerals(o, Dot), port |-> p] : o \in SomeOctets, p \in SomePorts}

Ports ==
    UNION {{[kind |-> "port", octets |-> o,
             endpoint |-> [protocol |-> 1, address |-> Numerals(o, Dot), port |-> p]] :
                p \in SomePorts} : o \in SomeOctets}

Endpoints6 == {[protocol |-> 2, address |-> <<Word, 1>>, port |-> p] : p \in SomePorts}

CommandNames == {<<Word>>, <<Word, 1>>}

\* An operand as it may be typed: in quotes, and as it is if it needs none.
InQuotes(arg) ==
    FoldLeft(LAMBDA text, ch :
                IF ch \in {Quote, Back} THEN text \o <<Back, ch>> ELSE Append(text, ch),
             <<Quote>>, arg) \o <<Quote>>

Typed(arg) ==
    {InQuotes(arg)} \union
    IF arg # <<>> /\ Space \notin ToSet(arg) /\ arg[1] # Quote THEN {arg} ELSE {}

SomeArgs ==
    {<<>>, <<2>>, <<Word, Space, 2>>, <<2, Quote, Word>>, <<Quote>>, <<Back>>,
     <<Slash, Word, Space, Slash, 2>>, <<Word, Back, 2>>, <<Word, Slash>>,
     <<Slash, Word, Back, 2, Slash, 3>>}

\* What may be typed of a last operand without its closing quote.
Unclosed ==
    {<<>>, <<Space, Space>>, <<Space, Quote>>, <<Space, Quote, Word, Space, 2>>,
     <<Space, Quote, Word, Back, Quote>>, <<Space, Quote, 2, Back>>}

\* A line begins with blanks and a word, and has operands.
Line(before, word, command, args, operands) ==
    {[kind |-> "line", command |-> command, args |-> args, answer |-> answer,
      word |-> word, operands |-> operands, rest |-> rest,
      text |-> before \o word \o FoldLeft(\o, <<>>, operands) \o rest] :
        rest \in Unclosed, answer \in {<<>>, <<Slash, Word, Slash, 2, Space, 3>>}}

Lines ==
    Line(<<>>, <<Word>>, <<Word>>, <<>>, <<>>)
    \union
    UNION {UNION {Line(<<Space>>, <<Large, 1>>, <<Word, 1>>, <<a>>, <<<<Space, Space>> \o typed>>) :
                     typed \in Typed(a)} : a \in SomeArgs}
    \union
    UNION {UNION {Line(<<>>, <<Large>>, <<Word>>, <<a, b>>,
                       <<<<Space>> \o typed[1], <<Space>> \o typed[2]>>) :
                     typed \in Typed(a) \X Typed(b)} : a, b \in SomeArgs}
    \union
    UNION {Line(<<Space>>, word, <<>>, <<>>, <<>>) :
              word \in {<<1>>, <<Word, 2>>, <<Word, 1, 1>>, <<Quote, Word, Quote>>,
                         <<Word, Quote, Quote>>, <<Quote>>, <<Quote, Word>>, <<Back>>}}
    \union
    {[kind |-> "line", command |-> <<>>, args |-> <<>>, answer |-> <<>>,
      word |-> <<>>, operands |-> <<>>, rest |-> <<>>, text |-> text] :
        text \in {<<>>, <<Space>>, <<Space, Space>>}}

WellSaid ==
    Numbers \union Epsv \union Pasv \union Sizes \union Times \union Lists \union Lines
    \union Ports
    \union {[kind |-> "eprt", endpoint |-> e] : e \in Endpoints \union Endpoints6}
================================================================================

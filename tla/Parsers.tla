-------------------------------- MODULE Parsers --------------------------------
(***************************************************************************)
(* What the client reads out of a reply, and writes into a command: the    *)
(* numbers of utils.cpp, the addresses of EPSV, PASV, EPRT and PORT, the   *)
(* values of SIZE and MDTM, the lines of a listing; and what the command   *)
(* line application reads out of the line its user types.  Pure functions: *)
(* each action applies one of them to one input.                           *)
(*                                                                         *)
(* A character is a number: a digit is itself, the others that a parser    *)
(* tells apart have a name, and Word is any run of the rest.               *)
(***************************************************************************)
EXTENDS Integers, Sequences, SequencesExt

CONSTANTS
    Max8, Max16, Max32, Max64,  \* the largest value of each unsigned type
    Names,                      \* the application's command names, in small letters
    Inputs                      \* what is read and written: see MCParsers

ASSUME ParsersAssumption ==
    /\ Max64 \in Nat /\ {Max8, Max16, Max32} \subseteq 0..Max64
    /\ \A input \in Inputs : input.kind \notin {"port", "eprt"} => input.text \in Seq(Nat)

\* uint8_t holds two digits, and uint16_t two of uint8_t.
ASSUME WidthsAssumption == Max8 >= 99 /\ Max16 + 1 = (Max8 + 1) * (Max8 + 1)

VARIABLES
    said,           \* the text, with what its author means by it
    understood      \* << >> before the code has run, then << its result >>

vars == <<said, understood>>

Open  == 10
Close == 11
Comma == 12
Bar   == 13
Dot   == 14
Space == 15
CR    == 16
LF    == 17
Word  == 18
Quote == 19
Back  == 20     \* a backslash
Slash == 21
Large == 22     \* Word in capitals

Digits == 0..9

\* false from a function that returns a bool and a number
Refused == -1

-----------------------------------------------------------------------------
(* utils.cpp                                                               *)

\* Absorb without the second test: the sum may pass Max64.
AbsorbAnyDigit(value, ch) ==
    IF value = Refused \/ ch \notin Digits \/ value > Max64 \div 10
    THEN Refused
    ELSE (value * 10 + ch) % (Max64 + 1)

\* The loop of try_parse_uint64 on one character; arithmetic is modulo 2^64.
Absorb(value, ch) ==
    LET tens == (value * 10) % (Max64 + 1)
    IN  IF \/ value = Refused
           \/ ch \notin Digits
           \/ value > Max64 \div 10
           \/ tens > Max64 - ch
        THEN Refused
        ELSE tens + ch

try_parse_uint64(str) ==
    LET value[i \in 0..Len(str)] ==
            IF i = 0 THEN 0 ELSE Absorb(value[i - 1], str[i])
    IN  IF str = <<>> THEN Refused ELSE value[Len(str)]

\* try_parse_uint without its test of the range
Unbounded(str, max) == try_parse_uint64(str)

\* try_parse_uint8, 16 and 32
try_parse_uint(str, max) ==
    LET value == try_parse_uint64(str)
    IN  IF value > max THEN Refused ELSE value

\* One round of the loop of split_string: a part ends at del, and at the end.
Split(split, ch, del, last) ==
    LET part == Append(split.part, ch)
    IN  IF ch = del THEN [parts |-> Append(split.parts, split.part), part |-> <<>>]
        ELSE IF last THEN [parts |-> Append(split.parts, part), part |-> <<>>]
        ELSE [parts |-> split.parts, part |-> part]

split_string(str, del) ==
    LET split[i \in 0..Len(str)] ==
            IF i = 0 THEN [parts |-> <<>>, part |-> <<>>]
            ELSE Split(split[i - 1], str[i], del, i = Len(str))
    IN  split[Len(str)].parts

\* std::to_string
to_string(n) ==
    LET decimal[k \in Nat] ==
            IF k < 10 THEN <<k>> ELSE Append(decimal[k \div 10], k % 10)
    IN  decimal[n]

-----------------------------------------------------------------------------
(* client.cpp                                                              *)

\* find() of the first '(' and rfind() of the last ')': 0 when there is none
Begin(text) == SelectInSeq(text, LAMBDA ch : ch = Open)
End(text)   == SelectLastInSeq(text, LAMBDA ch : ch = Close)

\* What stands between the parentheses, less skip characters and drop ones.
Inside(text, skip, drop) ==
    IF Begin(text) = 0 \/ End(text) = 0 \/ Begin(text) + skip >= End(text) - drop
    THEN <<>>
    ELSE SubSeq(text, Begin(text) + skip, End(text) - drop - 1)

\* Three characters skipped, where "(|||" is four.
EpsvFromThree(text) == try_parse_uint(Inside(text, 3, 1), Max16)

try_parse_epsv_reply(text) == try_parse_uint(Inside(text, 4, 1), Max16)

\* The fields of an address are joined as they stand; a port of two of them.
try_parse_pasv_reply(text) ==
    LET token == split_string(Inside(text, 1, 0), Comma)
        high  == try_parse_uint(token[5], Max16)
        low   == try_parse_uint(token[6], Max16)
    IN  IF Len(token) # 6 \/ high = Refused \/ low = Refused
        THEN [ip |-> <<>>, port |-> Refused]
        ELSE [ip |-> token[1] \o <<Dot>> \o token[2] \o <<Dot>> \o
                     token[3] \o <<Dot>> \o token[4],
              port |-> (high * (Max8 + 1) + low) % (Max16 + 1)]

\* after "EPRT "
make_eprt_command(endpoint) ==
    <<Bar, endpoint.protocol, Bar>> \o endpoint.address \o
    <<Bar>> \o to_string(endpoint.port) \o <<Bar>>

\* A port split by the largest byte instead of by the number of bytes.
HalvesByMax(port) == <<port \div Max8, port % Max8>>

Halves(port) == <<port \div (Max8 + 1), port % (Max8 + 1)>>

\* after "PORT "
make_port_command(endpoint) ==
    [i \in DOMAIN endpoint.address |->
        IF endpoint.address[i] = Dot THEN Comma ELSE endpoint.address[i]]
    \o <<Comma>> \o to_string(Halves(endpoint.port)[1])
    \o <<Comma>> \o to_string(Halves(endpoint.port)[2])

-----------------------------------------------------------------------------
(* file_size_reply.cpp, file_modified_time_reply.cpp, file_list_reply.cpp  *)

\* One character late.
LateValue(text) == SubSeq(text, 6, Len(text))

\* After the code and a space.
Value(text) == SubSeq(text, 5, Len(text))

parse_size(code, text) ==
    IF code # 213 THEN Refused ELSE try_parse_uint64(Value(text))

\* << year, month, day, hour, minute, second, fractions >>, or << >>
parse_datetime(code, text) ==
    LET time_val == Value(text)
        At(pos, n, max) == try_parse_uint(SubSeq(time_val, pos + 1, pos + n), max)
        fractions ==
            IF Len(time_val) > 15 THEN At(15, Len(time_val) - 15, Max32) ELSE 0
        datetime ==
            <<At(0, 4, Max16), At(4, 2, Max8), At(6, 2, Max8), At(8, 2, Max8),
              At(10, 2, Max8), At(12, 2, Max8), fractions>>
    IN  IF code # 213 \/ Len(time_val) < 14 \/ Refused \in ToSet(datetime)
        THEN <<>> ELSE datetime

\* Lines with the CR they may end with
parse_lf_list(text) == split_string(text, LF)

parse_file_list(text) ==
    LET lines == split_string(text, LF)
        Uncarried(line) ==
            IF line # <<>> /\ Last(line) = CR THEN Front(line) ELSE line
    IN  [i \in DOMAIN lines |-> Uncarried(lines[i])]

-----------------------------------------------------------------------------
(* The command line application: command_parser.cpp, utils.cpp             *)

\* boost::iequals compares letters without their case.
Lower(str) == [i \in DOMAIN str |-> IF str[i] = Large THEN Word ELSE str[i]]

\* the exception "Invalid command."
Invalid == <<>>

get_command_from_string(str) ==
    IF Lower(str) \in Names THEN Lower(str) ELSE Invalid

\* The character belongs to the operand, which stands in a word or in quotes.
Keep(scan, ch, in) == [args |-> scan.args, arg |-> Append(scan.arg, ch), in |-> in]

Push(scan) == [args |-> Append(scan.args, scan.arg), arg |-> <<>>, in |-> "gap"]

Closes(scan, ch) ==
    \/ scan.in = "word" /\ ch = Space
    \/ scan.in = "quotes" /\ ch = Quote

\* iss >> std::quoted(arg), over and over, on one character.  A quote is only
\* special where an operand begins and within quotes.
Extract(scan, ch) ==
    CASE scan.in = "gap" /\ ch = Space                -> scan
      [] scan.in = "gap" /\ ch = Quote                -> [scan EXCEPT !.in = "quotes"]
      [] scan.in = "gap" /\ ch \notin {Space, Quote}  -> Keep(scan, ch, "word")
      [] Closes(scan, ch)                             -> Push(scan)
      [] scan.in = "quotes" /\ ch = Back              -> [scan EXCEPT !.in = "escape"]
      [] scan.in = "escape"                           -> Keep(scan, ch, "quotes")
      [] OTHER                                        -> Keep(scan, ch, scan.in)

\* iss >> arg, without std::quoted
OperandsUnquoted(text) == SelectSeq(split_string(text, Space), LAMBDA arg : arg # <<>>)

\* The end of the line ends a word; what no quote has closed is dropped.
Operands(text) ==
    LET scan[i \in 0..Len(text)] ==
            IF i = 0 THEN [args |-> <<>>, arg |-> <<>>, in |-> "gap"]
            ELSE Extract(scan[i - 1], text[i])
        end == scan[Len(text)]
    IN  IF end.in = "word" THEN Append(end.args, end.arg) ELSE end.args

\* iss >> command_str takes the first word as it stands, quotes included.
parse_command(line) ==
    LET begin == SelectInSeq(line, LAMBDA ch : ch # Space)
        text  == IF begin = 0 THEN <<>> ELSE SubSeq(line, begin, Len(line))
        blank == SelectInSeq(text, LAMBDA ch : ch = Space)
        end   == IF blank = 0 THEN Len(text) ELSE blank - 1
    IN  [command |-> get_command_from_string(SubSeq(text, 1, end)),
         args    |-> Operands(SubSeq(text, end + 1, Len(text)))]

\* Only the separator of the system it was written on.
NameAfterSlash(path) ==
    SubSeq(path, SelectLastInSeq(path, LAMBDA ch : ch = Slash) + 1, Len(path))

get_filename(path) ==
    SubSeq(path, SelectLastInSeq(path, LAMBDA ch : ch \in {Slash, Back}) + 1, Len(path))

\* put and get: the file to be read and the one to be written.  Without an
\* operand they ask for the first; answer is the whole line of the answer.
FilePair(args, answer) ==
    CASE Len(args) = 0 -> <<answer, get_filename(answer)>>
      [] Len(args) = 1 -> <<args[1], get_filename(args[1])>>
      [] Len(args) = 2 -> args
      [] OTHER         -> <<>>

-----------------------------------------------------------------------------
(* What is said, and what its author means by it.                          *)

IsNumber(text) == text # <<>> /\ ToSet(text) \subseteq Digits

\* The number a text of digits stands for, place by place.
Power[n \in Nat] == IF n = 0 THEN 1 ELSE 10 * Power[n - 1]

Meaning(text) ==
    LET sum[i \in 0..Len(text)] ==
            IF i = 0 THEN 0 ELSE sum[i - 1] + text[i] * Power[Len(text) - i]
    IN  sum[Len(text)]

\* Parts one after another, with del between any two
Separated(parts, del) ==
    FlattenSeq([i \in DOMAIN parts |->
                    parts[i] \o IF i = Len(parts) THEN <<>> ELSE <<del>>])

Decimals(numbers) == [i \in DOMAIN numbers |-> to_string(numbers[i])]

\* "(<d><d><d><tcp-port><d>)" from i to j, where d is any character but a digit
IsEpsvAnswer(text, i, j) ==
    /\ i + 5 < j /\ text[i] = Open /\ text[j] = Close
    /\ text[i + 1] \notin Digits
    /\ \A k \in {i + 2, i + 3, j - 1} : text[k] = text[i + 1]
    /\ IsNumber(SubSeq(text, i + 4, j - 2))

EpsvPort(text, i, j) == Meaning(SubSeq(text, i + 4, j - 2))

\* "(h1,h2,h3,h4,p1,p2)" from i to j, with as many fields as there are
IsPasvAnswer(fields, text, i, j) ==
    /\ i < j /\ text[i] = Open /\ text[j] = Close
    /\ SubSeq(text, i + 1, j - 1) = Separated(Decimals(fields), Comma)

\* The words before and after have no parentheses of their own.
OnlyAt(text, i, j) ==
    \A k \in DOMAIN text : text[k] \in {Open, Close} => k \in {i, j}

\* "213 <decimal>"
IsSizeAnswer(size, code, text) ==
    LET digits == SubSeq(text, 5, Len(text))
    IN  IF code = 213 /\ IsNumber(digits) /\ Meaning(digits) <= Max64
        THEN size = Meaning(digits) ELSE size = Refused

\* time-val = 14DIGIT [ "." 1*DIGIT ], after the code and a space
IsTimeVal(text) ==
    /\ Len(text) >= 18 /\ \A i \in 5..18 : text[i] \in Digits
    /\ Len(text) > 18 => text[19] = Dot /\ IsNumber(SubSeq(text, 20, Len(text)))

\* The digits of a time-val as numbers: what they stand for
TimeMeant(text) ==
    LET Stands(i, j) == Meaning(SubSeq(text, i, j))
    IN  <<Stands(5, 8), Stands(9, 10), Stands(11, 12), Stands(13, 14),
          Stands(15, 16), Stands(17, 18), Stands(20, Len(text))>>

\* 1000--9999, 01--12, 01--31, 00--23, 00--59 and 00--60
InRange(time) ==
    /\ time[1] \in 1000..9999 /\ time[2] \in 1..12 /\ time[3] \in 1..31
    /\ time[4] \in 0..23 /\ time[5] \in 0..59 /\ time[6] \in 0..60

ASSUME AnswersAssumption ==
    \A input \in Inputs :
        /\ input.kind = "pasv" =>
            /\ input.fields \in Seq(Nat)
            /\ \E i, j \in DOMAIN input.text : IsPasvAnswer(input.fields, input.text, i, j)
        /\ input.kind = "size" => IsSizeAnswer(input.size, input.code, input.text)

\* The listing of some names: CR LF or LF ends a line, the last one perhaps nothing.
IsListing(names, text) ==
    /\ names \in Seq(Seq(Nat \ {LF}))
    /\ \A i \in DOMAIN names : names[i] # <<>> => Last(names[i]) # CR
    /\ \E ends \in [DOMAIN names -> {<<LF>>, <<CR, LF>>, <<>>}] :
        /\ text = FlattenSeq([i \in DOMAIN names |-> names[i] \o ends[i]])
        /\ \A i \in DOMAIN names : ends[i] = <<>> => i = Len(names) /\ names[i] # <<>>

ASSUME ListingAssumption ==
    \A input \in Inputs : input.kind = "list" => IsListing(input.names, input.text)

\* The endpoint the client listens at: an IPv4 address for PORT, any for EPRT.
ASSUME EndpointsAssumption ==
    \A input \in Inputs :
        /\ input.kind \in {"port", "eprt"} => input.endpoint.port \in 0..Max16
        /\ input.kind = "port" =>
            /\ input.octets \in Seq(0..Max8) /\ Len(input.octets) = 4
            /\ input.endpoint.address = Separated(Decimals(input.octets), Dot)
        /\ input.kind = "eprt" =>
            /\ input.endpoint.protocol \in Nat \ {Bar}
            /\ input.endpoint.address \in Seq(Nat \ {Bar})

IsBlank(text) == ToSet(text) \subseteq {Space}

Escaped(arg) ==
    FlattenSeq([i \in DOMAIN arg |->
        IF arg[i] \in {Quote, Back} THEN <<Back, arg[i]>> ELSE <<arg[i]>>])

\* Blanks, and an operand: in quotes, or as it is if it needs none
IsTyped(operand, arg) ==
    \E n \in 1..Len(operand) :
        LET written == SubSeq(operand, n + 1, Len(operand))
        IN  /\ IsBlank(SubSeq(operand, 1, n))
            /\ \/ written = <<Quote>> \o Escaped(arg) \o <<Quote>>
               \/ written = arg /\ arg # <<>> /\ Space \notin ToSet(arg) /\ arg[1] # Quote

\* Blanks, and perhaps a quote that no other one closes: each that follows is escaped.
IsRest(rest) ==
    \/ IsBlank(rest)
    \/ \E n \in 1..Len(rest) - 1 :
        /\ IsBlank(SubSeq(rest, 1, n)) /\ rest[n + 1] = Quote
        /\ \E escaped \in [n + 1..Len(rest) -> BOOLEAN] :
            \A i \in n + 2..Len(rest) :
                /\ escaped[i] <=> rest[i - 1] = Back /\ ~escaped[i - 1]
                /\ rest[i] = Quote => escaped[i]

\* A word that may be a command, and what follows it; none in a blank line
IsLine(line) ==
    LET after == FlattenSeq(line.operands) \o line.rest
    IN  /\ line.operands \in Seq(Seq(Nat)) /\ {line.word, line.rest, line.answer} \subseteq Seq(Nat)
        /\ line.args \in Seq(Seq(Nat)) /\ Len(line.operands) = Len(line.args)
        /\ \E n \in 0..Len(line.text) :
            IsBlank(SubSeq(line.text, 1, n))
            /\ line.text = SubSeq(line.text, 1, n) \o line.word \o after
        /\ Space \notin ToSet(line.word)
        /\ after # <<>> => line.word # <<>> /\ after[1] = Space
        /\ IF Lower(line.word) \notin Names
           THEN line.command = Invalid
           ELSE /\ line.command = Lower(line.word)
                /\ \A i \in DOMAIN line.args : IsTyped(line.operands[i], line.args[i])
                /\ IsRest(line.rest)

ASSUME LinesAssumption == \A input \in Inputs : input.kind = "line" => IsLine(input)

-----------------------------------------------------------------------------
(* One input, one call.                                                    *)

Hear(kind, result) ==
    /\ said.kind = kind /\ understood = <<>>
    /\ understood' = <<result>>
    /\ UNCHANGED said

ReadNumber ==
    Hear("number", [w \in {Max8, Max16, Max32, Max64} |->
                        try_parse_uint(said.text, w)])
ReadEpsv == Hear("epsv", try_parse_epsv_reply(said.text))
ReadPasv == Hear("pasv", try_parse_pasv_reply(said.text))
ReadSize == Hear("size", parse_size(said.code, said.text))
ReadTime == Hear("time", parse_datetime(said.code, said.text))
ReadList == Hear("list", parse_file_list(said.text))
ReadLine ==
    Hear("line",
         LET line == parse_command(said.text)
         IN  IF line.command = Invalid THEN Invalid
             ELSE <<line.command, line.args, FilePair(line.args, said.answer)>>)
WriteEprt == Hear("eprt", make_eprt_command(said.endpoint))
WritePort == Hear("port", make_port_command(said.endpoint))

Init == said \in Inputs /\ understood = <<>>

Next ==
    \/ ReadNumber \/ ReadEpsv \/ ReadPasv \/ ReadSize
    \/ ReadTime \/ ReadList \/ ReadLine \/ WriteEprt \/ WritePort

Spec == Init /\ [][Next]_vars

-----------------------------------------------------------------------------
(* What the functions should do.                                           *)

Done(kind) == said.kind = kind /\ understood # <<>>
Result == understood[1]

(* No result is larger than the type that holds it (utils.cpp: a value    *)
(* above the limit is not stored).                                        *)
ResultsFit ==
    /\ Done("number") => \A w \in DOMAIN Result : Result[w] \in -1..w
    /\ Done("epsv") => Result \in -1..Max16
    /\ Done("pasv") => Result.port \in -1..Max16
    /\ Done("size") => Result \in -1..Max64
    /\ Done("time") =>
        \A i \in DOMAIN Result :
            Result[i] \in 0..(CASE i = 1 -> Max16 [] i = 7 -> Max32 [] OTHER -> Max8)

(* try_parse_uint8 to 64 accept a text exactly when it is a number that    *)
(* the type can hold, and return that number: no overflow, no wrap around, *)
(* no refusal at the limit itself, whatever zeros the number begins with.  *)
NumberIsExact ==
    Done("number") =>
        \A w \in DOMAIN Result :
            Result[w] = IF IsNumber(said.text) /\ Meaning(said.text) <= w
                        THEN Meaning(said.text) ELSE Refused

(* A server that answers EPSV, PASV or SIZE in the form that the comments  *)
(* of client.cpp and file_size_reply.cpp give is understood, whatever words *)
(* without parentheses it puts around the address, and fields of eight bits *)
(* never make another port.  A port above the largest and a PASV answer of  *)
(* more or fewer fields are refused, and a port that is read stands between *)
(* parentheses, digit by digit.  The code accepts more than these forms: an *)
(* EPSV answer with any delimiters, and PASV fields above 255, with which a *)
(* port wraps around; and it refuses an EPSV answer in its form when the    *)
(* words around it have parentheses.  Of these it says where a port stands. *)
AnswersAreRead ==
    /\ Done("epsv") =>
        /\ \A i, j \in DOMAIN said.text :
              IsEpsvAnswer(said.text, i, j) /\ OnlyAt(said.text, i, j) =>
                LET port == EpsvPort(said.text, i, j)
                IN  Result = IF port <= Max16 THEN port ELSE Refused
        /\ Result # Refused =>
              \E i, j \in DOMAIN said.text :
                /\ IsNumber(SubSeq(said.text, i, j)) /\ Result = Meaning(SubSeq(said.text, i, j))
                /\ \E k \in 1..i - 1 : said.text[k] = Open
                /\ \E k \in j + 1..Len(said.text) : said.text[k] = Close
    /\ Done("pasv") =>
        \A i, j \in DOMAIN said.text :
            IsPasvAnswer(said.fields, said.text, i, j) /\ OnlyAt(said.text, i, j) =>
              /\ Len(said.fields) # 6 => Result.port = Refused
              /\ Len(said.fields) = 6 /\ ToSet(said.fields) \subseteq 0..Max8 =>
                    /\ Result.port = said.fields[5] * (Max8 + 1) + said.fields[6]
                    /\ split_string(Result.ip, Dot) =
                          [n \in 1..4 |-> to_string(said.fields[n])]
    /\ Done("size") => Result = said.size

(* A server that splits PORT's or EPRT's argument gets the address and the *)
(* port that the client is listening on (client.cpp, make_port_command and *)
(* make_eprt_command).                                                     *)
CommandsNameTheListener ==
    /\ Done("port") =>
        LET field == split_string(Result, Comma)
        IN  /\ Len(field) = 6
            /\ SubSeq(field, 1, 4) = split_string(said.endpoint.address, Dot)
            /\ Meaning(field[5]) <= Max8 /\ Meaning(field[6]) <= Max8
            /\ Meaning(field[5]) * (Max8 + 1) + Meaning(field[6]) = said.endpoint.port
    /\ Done("eprt") =>
        split_string(Result, Bar) =
            <<<<>>, <<said.endpoint.protocol>>, said.endpoint.address,
              to_string(said.endpoint.port)>>

(* An answer to MDTM that is a time-val of RFC 3659, with its fields in     *)
(* their ranges and a fraction that the field can hold, is understood; and   *)
(* whatever is understood has fourteen digits behind the code 213, and the   *)
(* fields are the numbers these and the fraction's digits stand for, each    *)
(* from its own place (file_modified_time_reply.cpp).  That includes more    *)
(* than time-vals: any character stands for the dot, there may be nothing    *)
(* after it, and no range is enforced.                                       *)
TimeIsRead ==
    Done("time") =>
        LET meant == TimeMeant(said.text)
        IN  /\ said.code = 213 /\ IsTimeVal(said.text) /\ InRange(meant) /\ meant[7] <= Max32 =>
                   Result = meant
            /\ Result # <<>> =>
                   /\ said.code = 213 /\ Len(said.text) >= 18
                   /\ IsNumber(SubSeq(said.text, 5, 18))
                   /\ Result = meant

(* A listing is cut into the names the server sent, whether it ends its    *)
(* lines with CR LF or with LF, and whether it ends the last one or not    *)
(* (file_list_reply.cpp).                                                  *)
ListingIsLines == Done("list") => Result = said.names

(* The user's words arrive as they were meant, in whatever case the command *)
(* is typed, however many blanks stand between, and in quotes with anything *)
(* in them; an operand whose quote is never closed is none, and nor is what *)
(* follows it.  A word that is not a command, or begins like one, is none   *)
(* (command_parser.cpp, parse_command).                                     *)
WordsAreRead ==
    Done("line") =>
        IF said.command = Invalid
        THEN Result = Invalid
        ELSE SubSeq(Result, 1, 2) = <<said.command, said.args>>

(* The file that a put or a get writes, when only the other one is named,   *)
(* is that one without the directories, of either kind of path, so that it  *)
(* is a file in the current directory (command_handler.cpp, put and get).   *)
FileIsWrittenHere ==
    Done("line") /\ said.command # Invalid /\ Len(said.args) < 2 =>
        LET read == Result[3][1]
            written == Result[3][2]
        IN  /\ read = Append(said.args, said.answer)[1]
            /\ ToSet(written) \intersect {Slash, Back} = {}
            /\ IsSuffix(written, read)
            /\ written # read => read[Len(read) - Len(written)] \in {Slash, Back}
================================================================================

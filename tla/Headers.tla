------------------------------- MODULE Headers -------------------------------
(***************************************************************************)
(* HTTP::Header (Header.cpp) and the text helpers it uses: what the server *)
(* reads in a header line.                                                 *)
(*                                                                         *)
(* A text is a sequence of symbols.  A symbol is a character, or a word in *)
(* which nothing is looked for; Capital(w) is the word w written with      *)
(* capital letters.                                                        *)
(***************************************************************************)
EXTENDS Integers, Sequences, SequencesExt, TLC

CONSTANTS Words,        \* the words that have capital letters
          Years         \* the years of the dates that are sent

ASSUME HeaderAssumption == Words \subseteq STRING /\ Years \subseteq Nat \ {0}

Capital(w) == "^" \o w
Small == [c \in {Capital(w) : w \in Words} |-> CHOOSE w \in Words : c = Capital(w)]
tolower(text) ==
  [i \in DOMAIN text |-> IF text[i] \in DOMAIN Small THEN Small[text[i]] ELSE text[i]]

IsWS(c) == c \in {"CR", "LF", " ", "TAB"}
IsNewLine(c) == c \in {"CR", "LF"}

\* CmpI() and CompareLowercaseSimple(): lower is written in small letters.
CmpI(text, lower) == tolower(text) = lower

\* The header names that have a number of their own.
HeaderNames ==
  {"host", "connection", "content-disposition", "content-type", "content-length",
   "content-encoding", "user-agent", "if-modified-since", "origin", "upgrade",
   "sec-websocket-key", "sec-websocket-version", "sec-websocket-protocol",
   "last-modified", "location", "sec-websocket-accept",
   "access-control-request-method", "access-control-request-headers"}
ParseHeader(name) == IF name \in HeaderNames THEN name ELSE "unknown"

-----------------------------------------------------------------------------
(* Header::Header() and ExtractHeader().                                   *)

\* The first place of text, from the place from on, whose symbol passes Test; the
\* place behind the text if there is none.
Find(text, from, Test(_)) ==
  LET found == SelectInSubSeq(text, from, Len(text), Test)
  IN IF from > Len(text) \/ found = 0 THEN Len(text) + 1 ELSE found

\* A line up to its LF.  The value begins behind the blanks; a line without a
\* colon or a CR has no number.
ExtractHeader(line) ==
  LET colon == Find(line, 1, LAMBDA c : c = ":")
      begin == Find(line, colon + 1, LAMBDA c : c # " ")
      end   == Find(line, begin, LAMBDA c : c = "CR")
      name  == tolower(SubSeq(line, 1, colon - 1))
  IN [IntName |-> IF Len(name) = 1 /\ end <= Len(line) THEN ParseHeader(name[1])
                  ELSE "unknown",
      Value |-> SubSeq(line, begin, end - 1)]

\* The values of the headers with a name, in the order of their lines.
Values(HeaderA, name) ==
  LET mine == SelectSeq(HeaderA, LAMBDA h : h.IntName = name)
  IN [i \in DOMAIN mine |-> mine[i].Value]
Has(HeaderA, name) == Values(HeaderA, name) # << >>

-----------------------------------------------------------------------------
(* ParseDelimitedKeyValue(): the calls of the consumer, in order.          *)

NoValue == "nullptr"
Quote == "\""
Told(s, key, value) ==
  [s EXCEPT !.told = Append(@, [key |-> key, value |-> value]), !.state = "ZERO"]

InZero(s, c) ==
  IF IsWS(c) \/ c = ";" THEN s ELSE [s EXCEPT !.key = <<c>>, !.state = "KEY"]
InKey(s, c) ==
  CASE IsWS(c) -> [s EXCEPT !.state = "SEPSEARCH"]
    [] c = "=" -> [s EXCEPT !.state = "VALSEARCH"]
    [] c = ";" -> Told(s, s.key, NoValue)
    [] OTHER   -> [s EXCEPT !.key = Append(@, c)]
InSepSearch(s, c) ==
  CASE c = "=" -> [s EXCEPT !.state = "VALSEARCH"]
    [] c = ";" -> Told(s, s.key, NoValue)
    [] IsWS(c) -> s
    [] OTHER   -> [s EXCEPT !.key = <<c>>, !.state = "KEY"]
InValSearch(s, c) ==
  IF c = Quote THEN [s EXCEPT !.value = << >>, !.state = "QUOTEDVAL"]
  ELSE IF IsNewLine(c) THEN Told(s, s.key, << >>)
  ELSE IF IsWS(c) THEN s
  ELSE [s EXCEPT !.value = <<c>>, !.state = "VAL"]
InVal(s, c) ==
  IF IsWS(c) \/ c = ";" THEN Told(s, s.key, s.value)
  ELSE [s EXCEPT !.value = Append(@, c)]
\* A slip: a quoted value ends at a ";", too.
InQuotedValOpen(s, c) ==
  IF c \in {Quote, ";"} THEN Told(s, s.key, s.value)
  ELSE [s EXCEPT !.value = Append(@, c)]
InQuotedVal(s, c) ==
  IF c = Quote THEN Told(s, s.key, s.value) ELSE [s EXCEPT !.value = Append(@, c)]

ParseDelimitedKeyValue(text) ==
  LET step(s, c) ==
        CASE s.state = "ZERO"      -> InZero(s, c)
          [] s.state = "KEY"       -> InKey(s, c)
          [] s.state = "SEPSEARCH" -> InSepSearch(s, c)
          [] s.state = "VALSEARCH" -> InValSearch(s, c)
          [] s.state = "VAL"       -> InVal(s, c)
          [] s.state = "QUOTEDVAL" -> InQuotedVal(s, c)
      end == FoldLeft(step, [state |-> "ZERO", key |-> << >>, value |-> << >>,
                             told |-> << >>], text)
  IN IF end.state \in {"VAL", "QUOTEDVAL"} THEN Told(end, end.key, end.value).told
     ELSE end.told

\* SingleKeyExtractor and ContentDisposExtractor: the last value of a key.
Extracted(told, key) ==
  LET mine == SelectSeq(told, LAMBDA t : t.key = <<key>> /\ t.value # NoValue)
  IN IF mine = << >> THEN << >> ELSE Last(mine).value
IsTold(told, key) == \E i \in DOMAIN told : told[i].key = <<key>> /\ told[i].value # NoValue

-----------------------------------------------------------------------------
(* What is read in the values.                                             *)

GetContentType(value) ==
  LET semi == Find(value, 1, LAMBDA c : c = ";")
      type == SubSeq(value, 1, semi - 1)
      boundary == Extracted(ParseDelimitedKeyValue(SubSeq(value, semi, Len(value))),
                            "boundary")
  IN CASE CmpI(type, <<"multipart/form-data">>) /\ boundary # << >> ->
            [type |-> "FORM_MULTIPART", boundary |-> boundary]
       [] CmpI(type, <<"application/x-www-form-urlencoded">>) ->
            [type |-> "URL_ENCODED", boundary |-> << >>]
       [] OTHER -> [type |-> "UNKNOWN", boundary |-> << >>]

ParseContentDisposition(value) ==
  LET told == ParseDelimitedKeyValue(value)
  IN [name |-> Extracted(told, "name"), filename |-> Extracted(told, "filename"),
      isFile |-> IsTold(told, "filename")]

\* ExtractTrimWSTokens(): the parts between separators, trimmed, without the
\* empty ones.
TrimWS(text) ==
  LET black == SelectInSeq(text, LAMBDA c : ~IsWS(c))
  IN IF black = 0 THEN << >>
     ELSE SubSeq(text, black, SelectLastInSeq(text, LAMBDA c : ~IsWS(c)))
ExtractTokens(text, separator) ==
  LET step(s, c) == IF c = separator THEN Append(s, << >>)
                    ELSE [s EXCEPT ![Len(s)] = Append(@, c)]
  IN SelectSeq(FoldLeft(step, << << >> >>, text), LAMBDA t : t # << >>)
ExtractTrimWSTokens(text, separator) ==
  LET all == ExtractTokens(text, separator)
  IN SelectSeq([i \in DOMAIN all |-> TrimWS(all[i])], LAMBDA t : t # << >>)

-----------------------------------------------------------------------------
(* Dates, in months: month 0 of year 1 is 12.  A date is written as its year *)
(* and the letters of its month.                                           *)

Months == << <<"J", "a", "n">>, <<"F", "e", "b">>, <<"M", "a", "r">>,
             <<"A", "p", "r">>, <<"M", "a", "y">>, <<"J", "u", "n">>,
             <<"J", "u", "l">>, <<"A", "u", "g">>, <<"S", "e", "p">>,
             <<"O", "c", "t">>, <<"N", "o", "v">>, <<"D", "e", "c">> >>

FormatDateTime(t) == <<ToString(t \div 12)>> \o Months[(t % 12) + 1]

\* A slip: the last letter is not looked at.
MonthOfTwo(l) ==
  CASE l[1] = "A" /\ l[2] = "p" -> 3   [] l[1] = "A" /\ l[2] = "u" -> 7
    [] l[1] = "D" -> 11                [] l[1] = "F" -> 2
    [] l[1] = "J" /\ l[2] = "a" -> 0   [] l[1] = "J" /\ l[2] # "a" -> 6
    [] l[1] = "M" -> 2                 [] l[1] = "N" -> 10
    [] l[1] = "O" -> 9                 [] l[1] = "S" -> 8
    [] OTHER -> -1
\* tm_mon: three letters are looked at, and only where they tell months apart.
\* February is read as March; what is no month is -1, the December before.
MonthOf(l) ==
  CASE l[1] = "A" /\ l[2] = "p" -> 3   [] l[1] = "A" /\ l[2] = "u" -> 7
    [] l[1] = "D" -> 11                [] l[1] = "F" -> 2
    [] l[1] = "J" /\ l[2] = "a" -> 0
    [] l[1] = "J" /\ l[2] # "a" /\ l[3] = "l" -> 6
    [] l[1] = "J" /\ l[2] # "a" /\ l[3] = "n" -> 5
    [] l[1] = "M" /\ l[3] = "r" -> 2   [] l[1] = "M" /\ l[3] = "y" -> 4
    [] l[1] = "N" -> 10                [] l[1] = "O" -> 9
    [] l[1] = "S" -> 8                 [] OTHER -> -1

\* 0 where FormatException is thrown: the callers go on with the time 0 then.
GetDateTime(value) ==
  IF Len(value) # 4 \/ value[1] \notin {ToString(y) : y \in Years} THEN 0
  ELSE 12 * (CHOOSE y \in Years : value[1] = ToString(y)) + MonthOf(Tail(value))
=============================================================================

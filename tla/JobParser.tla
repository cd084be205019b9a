------------------------------- MODULE JobParser -------------------------------
(***************************************************************************)
(* parser.c: how a .jobs file becomes commands.  The loops over the file   *)
(* (client/main.c of Proj2, ems_process and ems_process_thread of Proj1)   *)
(* ask get_next for a command and a parse function for its arguments; both *)
(* read the file byte by byte, with one offset that is never moved back.   *)
(*                                                                         *)
(* A file is a sequence of items.  An item is a byte, but of a command     *)
(* word only the initial is kept apart: "r" stands for the rest of any     *)
(* word, and the blank after it, where there is one, is an item.  So       *)
(* "CREATE " is <<"C", "r", " ">>, and get_next, which reads as many bytes *)
(* as the word has, whatever they are, reads as many items.                *)
(* No byte of a file is NUL, which the parse functions take for its end.   *)
(***************************************************************************)
EXTENDS Naturals, Sequences, SequencesExt

CONSTANTS
  Files,                  \* the files a loop may be given
  UINT_MAX,               \* bound: the largest number
  MAX_RESERVATION_SIZE

ASSUME ParserAssumption == UINT_MAX \in Nat /\ MAX_RESERVATION_SIZE \in Nat \ {0}

VARIABLES
  program,      \* "client" (Proj2), or "threads" (Proj1 Ex3: also BARRIER
                \* and WAIT for one thread)
  file,
  pos,          \* the offset of the file, from 1
  start,        \* history: where the last command started, or 0
  said          \* the last command

vars == <<program, file, pos, start, said>>

Nothing == [op |-> "nothing"]   \* a comment, an empty line, HELP, the start
Invalid == [op |-> "invalid"]   \* "Invalid command. See HELP for usage"

EOF == "eof"
Newline == "\n"
Digits == {"1", "2"}
Value(digits) == FoldLeft(LAMBDA v, d : 10 * v + (IF d = "1" THEN 1 ELSE 2), 0, digits)

At(p) == IF p <= Len(file) THEN file[p] ELSE EOF

-----------------------------------------------------------------------------
(* Reading                                                                 *)

\* Past the next newline.
cleanup(p) ==
  LET nl == {q \in p .. Len(file) : file[q] = Newline}
  IN  IF nl = {} THEN Len(file) + 1 ELSE Min(nl) + 1

\* At the end of the file the buffer has no terminator: strtoul goes on with
\* what the stack holds.  One more digit stands for any number of them.
Garbled(v) ==
  {w \in 0 .. UINT_MAX + 1 : w = v \/ w \div 10 = v \/ w = UINT_MAX + 1}

\* parse_uint: a number, perhaps without digits, and the byte after it.
parse_uint(p) ==
  LET q == Min({k \in p .. Len(file) + 1 : At(k) \notin Digits})
      v == Value(SubSeq(file, p, q - 1))
  IN  [value : IF At(q) = EOF THEN Garbled(v) ELSE {v}, next : {At(q)}, pos : {q + 1}]

\* How far a parse function is: the numbers it has, and whether it goes on.
From(p)   == [ok |-> TRUE, pos |-> p, numbers |-> <<>>]
Reject(p) == [ok |-> FALSE, pos |-> cleanup(p), numbers |-> <<>>]

\* Mutant: the size of a number is not checked.
Number_Unchecked(s, ends) ==
  IF ~ s.ok THEN {s}
  ELSE {IF n.next \in ends
        THEN [s EXCEPT !.pos = n.pos, !.numbers = Append(@, n.value)]
        ELSE Reject(n.pos) : n \in parse_uint(s.pos)}

\* A number that must fit and be followed by one of ends.
Number(s, ends) ==
  IF ~ s.ok THEN {s}
  ELSE {IF n.value <= UINT_MAX /\ n.next \in ends
        THEN [s EXCEPT !.pos = n.pos, !.numbers = Append(@, n.value)]
        ELSE Reject(n.pos) : n \in parse_uint(s.pos)}

Numbers(s, ends) ==
  FoldLeft(LAMBDA S, e : UNION {Number(t, e) : t \in S}, {s}, ends)

\* One byte that must be among expected.
Byte(s, expected) ==
  IF ~ s.ok THEN s
  ELSE IF At(s.pos) \in expected THEN [s EXCEPT !.pos = @ + 1]
  ELSE Reject(s.pos + 1)

-----------------------------------------------------------------------------
(* The parse functions                                                     *)

LineEnd == {Newline, EOF}

parse_create(p) == Numbers(From(p), <<{" "}, {" "}, LineEnd>>)

parse_show(p) == Numbers(From(p), <<LineEnd>>)

\* The loop over the seats, n of which are read.  Having read
\* MAX_RESERVATION_SIZE of them it gives up, the list complete or not.
RECURSIVE Seats(_, _)
Seats(s, n) ==
  UNION {LET c == Byte(t, {" ", "]"})
         IN  IF ~ c.ok THEN {c}
             ELSE IF n + 1 = MAX_RESERVATION_SIZE THEN {Reject(c.pos)}
             ELSE IF At(t.pos) = "]" THEN {c}
             ELSE Seats(c, n + 1)
         : t \in Numbers(Byte(s, {"("}), <<{","}, {")"}>>)}

\* The last byte must be there: a list at the very end of a file is refused.
parse_reserve(p) ==
  UNION {{Byte(t, {Newline}) : t \in Seats(Byte(s, {"["}), 0)}
         : s \in Number(From(p), {" "})}

\* A second number is for the program with threads; the other skips the rest
\* of the line.
parse_wait(p) ==
  UNION {IF ~ s.ok THEN {s}
         ELSE IF At(s.pos - 1) # " " THEN {s}
         ELSE IF program = "threads" THEN Number(s, LineEnd)
         ELSE {[s EXCEPT !.pos = cleanup(@)]}
         : s \in Number(From(p), LineEnd \cup {" "})}

-----------------------------------------------------------------------------
(* get_next and the loop                                                   *)

Words ==
  [C |-> <<"C", "r", " ">>, R |-> <<"R", "r", " ">>, S |-> <<"S", "r", " ">>,
   W |-> <<"W", "r", " ">>, L |-> <<"L", "r">>, H |-> <<"H", "r">>, B |-> <<"B", "r">>]
Initials == IF program = "threads" THEN DOMAIN Words ELSE DOMAIN Words \ {"B"}

Parsed(op, S) ==
  {[pos |-> s.pos,
    said |-> IF s.ok THEN [op |-> op, numbers |-> s.numbers] ELSE Invalid] : s \in S}

\* LIST, HELP and BARRIER must end their line.
Alone(said_, p) ==
  {IF At(p) \in LineEnd THEN [pos |-> p + 1, said |-> said_]
   ELSE [pos |-> cleanup(p + 1), said |-> Invalid]}

\* Mutant: a comment ends with its first byte.
Other_ShortComment(p) ==
  {CASE At(p) = "#"     -> [pos |-> p + 1, said |-> Nothing]
     [] At(p) = Newline -> [pos |-> p + 1, said |-> Nothing]
     [] OTHER           -> [pos |-> cleanup(p + 1), said |-> Invalid]}

\* A line that starts with no initial of a word.
Other(p) ==
  {CASE At(p) = "#"     -> [pos |-> cleanup(p + 1), said |-> Nothing]
     [] At(p) = Newline -> [pos |-> p + 1, said |-> Nothing]
     [] OTHER           -> [pos |-> cleanup(p + 1), said |-> Invalid]}

\* get_next, and the parse function its result asks for.
Command(p) ==
  IF At(p) \notin Initials THEN Other(p)
  ELSE LET w == Words[At(p)]
           q == p + Len(w)
       IN  IF SubSeq(file, p, IF q <= Len(file) THEN q - 1 ELSE Len(file)) # w
           THEN {[pos |-> cleanup(q), said |-> Invalid]}
           ELSE CASE At(p) = "C" -> Parsed("create", parse_create(q))
                  [] At(p) = "R" -> Parsed("reserve", parse_reserve(q))
                  [] At(p) = "S" -> Parsed("show", parse_show(q))
                  [] At(p) = "W" -> Parsed("wait", parse_wait(q))
                  [] At(p) = "L" -> Alone([op |-> "list", numbers |-> <<>>], q)
                  [] At(p) = "H" -> Alone(Nothing, q)
                  [] At(p) = "B" -> Alone([op |-> "barrier", numbers |-> <<>>], q)

Init ==
  /\ program \in {"client", "threads"}
  /\ file \in Files
  /\ pos = 1 /\ start = 0 /\ said = Nothing

\* One turn of the loop; at the end of the file (EOC) it is left.
Next ==
  /\ At(pos) # EOF
  /\ \E c \in Command(pos) : pos' = c.pos /\ said' = c.said
  /\ start' = pos
  /\ UNCHANGED <<program, file>>

Spec == Init /\ [][Next]_vars

-----------------------------------------------------------------------------
(* The reference: what one line says, taken by itself                      *)

\* The line that starts at p, without its newline.
Line(p) == SubSeq(file, p, Min({q \in p .. Len(file) + 1 : At(q) \in LineEnd}) - 1)
Ended(p) == p + Len(Line(p)) <= Len(file)

\* A form is a sequence of marks, each perhaps followed by digits.
Mark(m)  == [mark |-> m, number |-> FALSE]
Taking(m) == [mark |-> m, number |-> TRUE]
Marks(line) == SelectSeq([i \in DOMAIN line |-> i], LAMBDA i : line[i] \notin Digits)
Run(line, j) ==
  LET m == Marks(line)
  IN  SubSeq(line, m[j] + 1, IF j = Len(m) THEN Len(line) ELSE m[j + 1] - 1)

Matches(line, form) ==
  LET m == Marks(line)
  IN  /\ Len(m) = Len(form) /\ m[1] = 1
      /\ \A j \in DOMAIN m :
           /\ line[m[j]] = form[j].mark
           /\ form[j].number \/ Run(line, j) = <<>>
           /\ Value(Run(line, j)) <= UINT_MAX

Read(line, form) ==
  LET taking == SelectSeq([j \in DOMAIN form |-> j], LAMBDA j : form[j].number)
  IN  [k \in DOMAIN taking |-> Value(Run(line, taking[k]))]

Word(c) == <<Mark(c), Mark("r")>>
SeatForm(k) ==
  FlattenSeq([i \in 1 .. k |-> <<Mark(IF i = 1 THEN "[" ELSE " "), Taking("("), Taking(","), Mark(")")>>])

Create  == Word("C") \o <<Taking(" "), Taking(" "), Taking(" ")>>
Show    == Word("S") \o <<Taking(" ")>>
Reserve(k) == Word("R") \o <<Taking(" "), Mark(" ")>> \o SeatForm(k) \o <<Mark("]")>>
Wait    == Word("W") \o <<Taking(" ")>>
WaitFor == Word("W") \o <<Taking(" "), Taking(" ")>>

\* The client takes a WAIT with anything after a second blank.
WaitPart(line) ==
  LET blanks == {i \in 4 .. Len(line) : line[i] = " "}
  IN  IF program = "client" /\ blanks # {} THEN SubSeq(line, 1, Min(blanks) - 1) ELSE line

Says(op, line, form) == [op |-> op, numbers |-> Read(line, form)]

Means(line) ==
  CASE line = <<>> \/ line[1] = "#" \/ line = Words.H -> Nothing
    [] Matches(line, Create)  -> Says("create", line, Create)
    [] Matches(line, Show)    -> Says("show", line, Show)
    [] Matches(WaitPart(line), Wait) -> Says("wait", WaitPart(line), Wait)
    [] program = "threads" /\ Matches(line, WaitFor) -> Says("wait", line, WaitFor)
    [] \E k \in 1 .. MAX_RESERVATION_SIZE - 1 : Matches(line, Reserve(k))
         -> LET k == CHOOSE k \in 1 .. MAX_RESERVATION_SIZE - 1 : Matches(line, Reserve(k))
            IN  Says("reserve", line, Reserve(k))
    [] line = Words.L -> [op |-> "list", numbers |-> <<>>]
    [] program = "threads" /\ line = Words.B -> [op |-> "barrier", numbers |-> <<>>]
    [] OTHER -> Invalid

-----------------------------------------------------------------------------
(* Properties                                                              *)

\* The same command, but for digits that the end of the file let through
\* after the last number.
Alike(a, b) ==
  /\ a.op = b.op
  /\ a # b => /\ DOMAIN a.numbers = DOMAIN b.numbers
              /\ \A k \in DOMAIN a.numbers :
                   \/ a.numbers[k] = b.numbers[k]
                   \/ k = Len(a.numbers) /\ a.numbers[k] \in Garbled(b.numbers[k])

\* A command is what its line says and nothing else: the rest of one line is
\* never taken for a part of the next, whatever the parser met before.  A line
\* that the end of the file cuts off is refused, or it is the command the line
\* says but for its last number, to which parse_uint may add digits.
ReadsWhatTheLineSays ==
  /\ start # 0 /\ Ended(start) => said = Means(Line(start))
  /\ start # 0 /\ ~ Ended(start) /\ said # Invalid => Alike(said, Means(Line(start)))

\* The parser is always at the start of a line, and a line is passed over
\* only when the one before it was refused.
StaysInStep ==
  /\ pos = 1 \/ pos > Len(file) \/ file[pos - 1] = Newline
  /\ start # 0 /\ said # Invalid =>
       IF Ended(start) THEN pos = start + Len(Line(start)) + 1 ELSE pos > Len(file)
=============================================================================

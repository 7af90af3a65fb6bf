-------------------------------- MODULE Console --------------------------------
(***************************************************************************)
(* The console of the client: a thread reads standard input through a       *)
(* buffer, decodes it, parses one command after another and sends them to   *)
(* the loop of the program, which carries them out until it is told to end. *)
(*                                                                         *)
(* Input is bytes.  Two of them, a lead and a tail, make up the wide        *)
(* character, which goes by the name of its lead; all others are characters *)
(* of their own.  How the bytes come, and so where the buffer ends, is up to *)
(* the terminal or the pipe at the other end.                               *)
(***************************************************************************)
EXTENDS Naturals, Sequences, SequencesExt, FiniteSetsExt, Filter

CONSTANTS
  Inputs,                  \* what may be typed: sequences of bytes
  Letters,                 \* the bytes without a meaning of their own
  Existing,                \* paths of files that exist
  Capacity,                \* bytes the buffer of standard input holds
  MAXIMUM_TEXT_SIZE,
  MAXIMUM_NAME_SIZE,
  MAXIMUM_FILE_NAME_SIZE,
  MaxEnds,                 \* bound: Ends sent before the loop sees the first
  None                     \* no character

Lead  == "lead"
Tail2 == "tail"

Char == Letters \union {"/", "q", "r", "c", "u", "d", "blank", "cr", "nl", Lead}
Byte == Char \union {Tail2}

ASSUME ConsoleAssumption ==
  /\ Inputs \subseteq Seq(Byte)
  /\ Existing \subseteq Seq(Char)
  /\ Capacity \in Nat \ {0}
  /\ {MAXIMUM_TEXT_SIZE, MAXIMUM_NAME_SIZE, MAXIMUM_FILE_NAME_SIZE} \subseteq Nat
  /\ MaxEnds \in Nat \ {0}
  /\ None \notin Byte

VARIABLES
  input,    \* history: all that is typed
  stdin,    \* what of it has not come yet
  buffer,   \* bytes in the BufReader
  cache,    \* characters of the CharsReader
  peeked,   \* <<>>, or what the Peekable keeps, <<None>> as well
  mode,     \* where parse is: "start", "words", "text"
  words,    \* the words of a command, or the line of a text as one word
  sent,     \* commands sent to the loop
  handled,  \* how many of them the loop has carried out
  loop,     \* "running", "stopped", "failed"
  taken,    \* history: the characters parsed, with a line end for every None
  cut       \* history: a read brought half a character, or nothing

reading == <<stdin, buffer, cache, peeked>>
vars == <<input, reading, mode, words, sent, handled, loop, taken, cut>>

Init ==
  /\ input \in Inputs /\ stdin = input
  /\ buffer = <<>> /\ cache = <<>> /\ peeked = <<>>
  /\ mode = "start" /\ words = <<<<>>>>
  /\ sent = <<>> /\ handled = 0 /\ loop = "running"
  /\ taken = <<>> /\ cut = FALSE

-----------------------------------------------------------------------------
(* Characters *)

\* Mutant: every character is consumed as one byte.
len_utf8_one(char) == 1

len_utf8(char) == IF char = Lead THEN 2 ELSE 1

\* The length in bytes.
len(word) == Len(word) + Cardinality({i \in DOMAIN word : word[i] = Lead})

Valid(bytes) ==
  \A i \in 1..Len(bytes) :
    /\ bytes[i] = Lead => i < Len(bytes) /\ bytes[i + 1] = Tail2
    /\ bytes[i] = Tail2 => i > 1 /\ bytes[i - 1] = Lead

Decoded(bytes) == Without(bytes, {Tail2})

valid_up_to(bytes) ==
  Max({n \in 0..Len(bytes) : Valid(SubSeq(bytes, 1, n))})

\* Mutant: what is not valid is passed on.
from_utf8_unchecked(bytes) == bytes

\* The characters up to the first byte that is none.
from_utf8_forced(bytes) == Decoded(SubSeq(bytes, 1, valid_up_to(bytes)))

\* What fill_buf() returns: what the buffer still holds, or else what comes; in
\* the end, and when the terminal says so, nothing.
Fills ==
  IF buffer # <<>> THEN {buffer}
  ELSE {<<>>} \union {SubSeq(stdin, 1, n) : n \in 1..Min({Len(stdin), Capacity})}

\* CharsReader::next gives the character (or None).
next(char) ==
  \/ /\ cache # <<>>
     /\ char = Head(cache)
     /\ cache' = Tail(cache)
     /\ buffer' = SubSeq(buffer, len_utf8(char) + 1, Len(buffer))
     /\ UNCHANGED <<stdin, cut>>
  \/ /\ cache = <<>>
     /\ \E fill \in Fills :
          LET chars == from_utf8_forced(fill)
          IN  /\ stdin' = IF buffer = <<>> THEN SubSeq(stdin, Len(fill) + 1, Len(stdin))
                                           ELSE stdin
              /\ cut' = (cut \/ ~Valid(fill) \/ (fill = <<>> /\ stdin # <<>>))
              /\ IF chars = <<>>
                   THEN char = None /\ cache' = <<>> /\ buffer' = fill
                   ELSE /\ char = Head(chars) /\ cache' = Tail(chars)
                        /\ buffer' = SubSeq(fill, len_utf8(char) + 1, Len(fill))

-----------------------------------------------------------------------------
(* Commands *)

Command(kind, args) == [kind |-> kind, args |-> args]
Nothing == Command("Nothing", <<>>)
End     == Command("End", <<>>)

parse_rename(w) ==
  IF Len(w) >= 2 /\ len(w[2]) <= MAXIMUM_NAME_SIZE
    THEN Command("Rename", <<w[2]>>) ELSE Nothing

\* No words: the local host at the default port.
parse_connect(w) == Command("Connect", SubSeq(w, 2, Min({Len(w), 3})))

check_upload(path, name) ==
  IF path \in Existing /\ len(name) <= MAXIMUM_FILE_NAME_SIZE
    THEN Command("UploadFile", <<name, path>>) ELSE Nothing

check_download(path, name) ==
  IF path \notin Existing /\ len(name) <= MAXIMUM_FILE_NAME_SIZE
    THEN Command("DownloadFile", <<name, path>>) ELSE Nothing

\* What follows the last '/'.
base(path) ==
  SubSeq(path, Max({0} \union {i \in 1..Len(path) : path[i] = "/"}) + 1, Len(path))

\* Mutant: the words in the order of the README.
parse_upload_documented(w) ==
  CASE Len(w) >= 3 -> check_upload(w[3], w[2])
    [] Len(w) = 2 -> check_upload(w[2], w[2])
    [] OTHER -> Nothing

\* README has it the other way round: "/upload <name> [local_path]".
parse_upload(w) ==
  CASE Len(w) >= 3 -> check_upload(w[2], w[3])
    [] Len(w) = 2 -> check_upload(w[2], base(w[2]))
    [] OTHER -> Nothing

parse_download(w) ==
  CASE Len(w) >= 3 -> check_download(w[3], w[2])
    [] Len(w) = 2 -> check_download(w[2], w[2])
    [] OTHER -> Nothing

\* A command by its short name; it has a long one too.
parse_command(w) ==
  CASE w[1] = <<"/", "q">> -> End
    [] w[1] = <<"/", "r">> -> parse_rename(w)
    [] w[1] = <<"/", "c">> -> parse_connect(w)
    [] w[1] = <<"/", "u">> -> parse_upload(w)
    [] w[1] = <<"/", "d">> -> parse_download(w)
    [] OTHER -> Nothing

text(line) ==
  IF line = <<>> \/ len(line) > MAXIMUM_TEXT_SIZE THEN Nothing
                                                  ELSE Command("Text", <<line>>)

-----------------------------------------------------------------------------
(* The console thread *)

Running == loop = "running"

\* Mutant: the end of the input is no command.
parse_end_ignored == UNCHANGED <<sent, peeked, mode>>

\* The input is over; the Peekable keeps that for ever.
parse_end ==
  /\ sent' = Append(sent, End)
  /\ UNCHANGED <<peeked, mode>>

\* Mutant: the first character is taken to find out what it is.
parse_taking ==
  /\ mode' = IF Head(peeked) = "/" THEN "words" ELSE "text"
  /\ peeked' = <<>>
  /\ UNCHANGED sent

parse_begin ==
  /\ mode' = IF Head(peeked) = "/" THEN "words" ELSE "text"
  /\ UNCHANGED <<peeked, sent>>

\* input.peek()
peek ==
  /\ Running /\ mode = "start" /\ peeked = <<>>
  /\ \E char \in Char \union {None} : next(char) /\ peeked' = <<char>>
  /\ UNCHANGED <<input, mode, words, sent, handled, loop, taken>>

parse ==
  /\ Running /\ mode = "start" /\ peeked # <<>>
  /\ IF peeked = <<None>>
       THEN /\ Cardinality({i \in DOMAIN sent : sent[i] = End}) < MaxEnds
            /\ parse_end
       ELSE parse_begin
  /\ words' = <<<<>>>>
  /\ UNCHANGED <<input, stdin, buffer, cache, handled, loop, taken, cut>>

\* input.next() of the Peekable.
take(char) ==
  IF peeked # <<>>
    THEN char = Head(peeked) /\ peeked' = <<>> /\ UNCHANGED <<stdin, buffer, cache, cut>>
    ELSE next(char) /\ UNCHANGED peeked

\* A blank begins a new word, unless the last one is still empty.
push_blank(w) == IF Last(w) = <<>> THEN w ELSE Append(w, <<>>)

push(w, char) == [w EXCEPT ![Len(w)] = Append(@, char)]

\* The line is over: the command is sent.
Finish(command) ==
  /\ sent' = Append(sent, command)
  /\ mode' = "start"
  /\ taken' = Append(taken, "nl")
  /\ UNCHANGED words

Continue(char, w) ==
  /\ words' = w
  /\ taken' = Append(taken, char)
  /\ UNCHANGED <<sent, mode>>

parse_words ==
  /\ Running /\ mode = "words"
  /\ \E char \in Char \union {None} :
       /\ take(char)
       /\ \/ char \in {"nl", None} /\ Finish(parse_command(words))
          \/ char = "cr" /\ Continue(char, words)
          \/ char = "blank" /\ Continue(char, push_blank(words))
          \/ char \notin {"nl", None, "cr", "blank"} /\ Continue(char, push(words, char))
  /\ UNCHANGED <<input, handled, loop>>

parse_text ==
  /\ Running /\ mode = "text"
  /\ \E char \in Char \union {None} :
       /\ take(char)
       /\ \/ char \in {"nl", None} /\ Finish(text(words[1]))
          \/ char = "cr" /\ Continue(char, words)
          \/ char \notin {"nl", None, "cr"} /\ Continue(char, push(words, char))
  /\ UNCHANGED <<input, handled, loop>>

Thread == peek \/ parse \/ parse_words \/ parse_text

-----------------------------------------------------------------------------
(* The loop of the program; what it does with a connection is in FileTransfer,  *)
(* and so are the ends that the server or the files bring about.               *)

\* TcpStream::connect fails on an empty address or port, and may fail on others:
\* the error ends the program.
handle_user_command ==
  /\ Running /\ handled < Len(sent)
  /\ handled' = handled + 1
  /\ LET command == sent[handled + 1]
     IN  \/ command.kind = "End" /\ loop' = "stopped"
         \/ command.kind = "Connect" /\ loop' = "failed"
         \/ /\ command.kind = "Connect" /\ \A i \in DOMAIN command.args : command.args[i] # <<>>
            /\ UNCHANGED loop
         \/ command.kind \notin {"End", "Connect"} /\ UNCHANGED loop
  /\ UNCHANGED <<input, reading, mode, words, sent, taken, cut>>

Next == Thread \/ handle_user_command

Spec == Init /\ [][Next]_vars

\* Both threads run.
FairSpec == Spec /\ WF_vars(Thread) /\ WF_vars(handle_user_command)

-----------------------------------------------------------------------------
(* The lines of a text and what they mean, without reading them *)

\* The words of a line: what stands between blanks, and an empty one after a blank
\* at the end.
Inside(line, i) == i \in DOMAIN line /\ line[i] # "blank"
Begins(line) == {i \in DOMAIN line : Inside(line, i) /\ ~Inside(line, i - 1)}

WordAt(line, i) ==
  SubSeq(line, i, Max({j \in i..Len(line) : \A k \in i..j : Inside(line, k)}))

Words(line) ==
  LET order == Ascending(Begins(line), Len(line))
  IN  [n \in 1..Len(order) |-> WordAt(line, order[n])]
        \o (IF Last(line) = "blank" THEN <<<<>>>> ELSE <<>>)

\* Lines, each ended by a line end.
LineEnds(t) == Ascending({i \in DOMAIN t : t[i] = "nl"}, Len(t))

Lines(t) ==
  LET ends == LineEnds(t)
  IN  [n \in 1..Len(ends) |->
         SubSeq(t, (IF n = 1 THEN 0 ELSE ends[n - 1]) + 1, ends[n] - 1)]

\* The last part of a path.
FileName(path) ==
  CHOOSE part \in {SubSeq(path, k + 1, Len(path)) : k \in 0..Len(path)} :
    /\ \A i \in DOMAIN part : part[i] # "/"
    /\ part = path \/ path[Len(path) - Len(part)] = "/"

\* What the words of a line ask for, as the README has it: `/rename <new_name>',
\* `/connect [address] [port]', and `/download <name> [local_path]', whose path is the
\* name if there is none.  But of `/upload <name> [local_path]' the code has the path
\* first, and then the name, which is the last part of the path if there is none.
Asked(w) ==
  LET is(letter)     == w[1] = <<"/", letter>>
      has(n)         == n + 1 \in DOMAIN w
      argument(n)    == w[n + 1]
      second(absent) == IF has(2) THEN argument(2) ELSE absent
  IN  CASE is("q") -> End
        [] is("r") /\ has(1) -> Command("Rename", <<argument(1)>>)
        [] is("c") -> Command("Connect", [n \in {k \in 1..2 : has(k)} |-> argument(n)])
        [] is("u") /\ has(1) ->
             Command("UploadFile", <<second(FileName(argument(1))), argument(1)>>)
        [] is("d") /\ has(1) ->
             Command("DownloadFile", <<argument(1), second(argument(1))>>)
        [] OTHER -> Nothing

\* What the console sends: names and texts within their bounds, an upload of a file
\* there is, a download to a path that is free.
Permitted(command) ==
  /\ command.kind = "Text" => command.args[1] # <<>> /\ len(command.args[1]) <= MAXIMUM_TEXT_SIZE
  /\ command.kind = "Rename" => len(command.args[1]) <= MAXIMUM_NAME_SIZE
  /\ command.kind \in {"UploadFile", "DownloadFile"} =>
       /\ len(command.args[1]) <= MAXIMUM_FILE_NAME_SIZE
       /\ command.args[2] \in Existing <=> command.kind = "UploadFile"

OrNothing(command) == IF Permitted(command) THEN command ELSE Nothing

Meaning(line) ==
  LET plain == Without(line, {"cr"})
  IN  OrNothing(IF line # <<>> /\ line[1] = "/" THEN Asked(Words(plain))
                                               ELSE Command("Text", <<plain>>))

-----------------------------------------------------------------------------
(* Properties *)

\* Every variable has its type; no half characters are decoded.
TypeOK ==
  /\ input \in Inputs
  /\ {stdin, buffer} \subseteq Seq(Byte)
  /\ cache \in Seq(Char)
  /\ peeked \in {<<>>} \union {<<char>> : char \in Char \union {None}}
  /\ mode \in {"start", "words", "text"}
  /\ words \in Seq(Seq(Char)) \ {<<>>}
  /\ \A i \in DOMAIN sent : sent[i].args \in Seq(Seq(Char))
  /\ handled \in 0..Len(sent)
  /\ loop \in {"running", "stopped", "failed"}
  /\ taken \in Seq(Char)
  /\ cut \in BOOLEAN

\* The characters in the cache are still in the buffer of the stream, which the
\* cache points into beyond what the borrow checker sees ("TODO: review",
\* CharsReader::next).
CacheIsBuffered == IsPrefix(cache, from_utf8_forced(buffer))

\* Between lines, the commands sent are what the words of the lines parsed ask for,
\* which of them is a path and which a name as said above, and then only Ends; a
\* line that no line end ends (the input is over, or a read brought half
\* a character) is carried out as far as it came.
CommandsAreOfLines ==
  mode = "start" =>
    LET lines == Lines(taken)
    IN  /\ Len(sent) >= Len(lines)
        /\ \A i \in DOMAIN sent :
             sent[i] = IF i <= Len(lines) THEN Meaning(lines[i]) ELSE End

\* The console ends the program on its own only when all input is parsed, if
\* every read brought whole characters.
NothingIsSkipped ==
  mode = "start" /\ peeked = <<None>> /\ ~cut =>
    taken \in {Decoded(input), Append(Decoded(input), "nl")}

\* The program ends, at the latest with its input, and whatever the input is.
EndsAtLast == <>(loop # "running")

===============================================================================

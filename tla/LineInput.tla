----------------------------- MODULE LineInput -----------------------------
(***************************************************************************)
(* How keystrokes become texts in the client: Client::getInput calls       *)
(* Window::getLine whenever stdin was readable.  getLine takes characters  *)
(* until none comes for a millisecond, so a line is usually built over     *)
(* many calls, in the fields text_ and size_ of Window.  getLine also      *)
(* echoes them in the input window: three rows with a border, the text in  *)
(* the middle one.                                                         *)
(***************************************************************************)
EXTENDS Naturals, Sequences, SequencesExt

CONSTANTS
  Characters,  \* what the user may type, besides the two keys below
  Wide,        \* control characters, which curses shows in two cells
  MaxLine,     \* the argument of getLine, 200 in the code
  Quit,        \* the line "/quit"
  Width,       \* columns of the terminal
  MaxKeys      \* bound: keys typed

Newline == "newline"
Backspace == "backspace"
Keys == Characters \cup {Newline, Backspace}

ASSUME LineAssumption ==
  /\ {Newline, Backspace} \cap Characters = {} /\ Wide \subseteq Characters
  /\ Width \in Nat /\ Width >= 3
  /\ MaxLine \in Nat \ {0} /\ MaxKeys \in Nat
  /\ Quit \in Seq(Characters) /\ Quit # <<>> /\ Len(Quit) <= MaxLine

(***************************************************************************)
(* The rows of the input window below the first one, as cells counted from *)
(* the start of the middle row, and the cursor.                            *)
(***************************************************************************)
LastCell == 2 * Width - 1
Border == "border"
Blank == " "

WindowType ==
  [cells : [0..LastCell -> Characters \cup {Border, Blank, "^"}], cursor : 0..LastCell]

\* werase(), wborder() and wmove() to the first cell of the text.
Erased ==
  [cells  |-> [p \in 0..LastCell |-> IF p \in 1..(Width - 2) THEN Blank ELSE Border],
   cursor |-> 1]

\* waddch() writes and advances into the next row, and stays in the last cell.
Put(w, c) ==
  [cells  |-> [w.cells EXCEPT ![w.cursor] = c],
   cursor |-> IF w.cursor = LastCell THEN LastCell ELSE w.cursor + 1]

\* A move to the left of the first column is an error and moves nothing.
MoveLeft(w) == IF w.cursor % Width = 0 THEN w ELSE [w EXCEPT !.cursor = @ - 1]

Echo(w, k) == IF k \in Wide THEN Put(Put(w, "^"), k) ELSE Put(w, k)

RubOut_OneMove(w) == Put(MoveLeft(w), Blank)  \* mutant: the second move is missing
RubOut(w) == MoveLeft(Put(MoveLeft(w), Blank))

VARIABLES
  at,      \* "main": main loop; "line": in getLine; "input": getInput with
           \* its result; "quit": getInput returned false
  keys,    \* keys in the terminal that wgetch() has not returned
  text_, size_,  \* the fields of Window
  input_,  \* the input window
  msg,     \* local of getInput
  typed,   \* history: all keys
  sent     \* messages handed to sendMessage
line_ == <<text_, size_, input_>>
vars == <<at, keys, line_, msg, typed, sent>>

Init ==
  /\ at = "main" /\ keys = <<>>
  /\ text_ = <<>> /\ size_ = 0 /\ input_ = Erased
  /\ msg = <<>> /\ typed = <<>> /\ sent = <<>>

Type(k) ==
  /\ Len(typed) < MaxKeys
  /\ keys' = Append(keys, k) /\ typed' = Append(typed, k)
  /\ UNCHANGED <<at, line_, msg, sent>>

\* mainLoop calls getInput, also after a wake-up without a key.
GetInput ==
  /\ at = "main"
  /\ at' = "line"
  /\ UNCHANGED <<keys, line_, msg, typed, sent>>

Reads(k) == at = "line" /\ keys # <<>> /\ Head(keys) = k /\ keys' = Tail(keys)

\* wgetch() times out: getLine returns "" and keeps what it has.
NoKey ==
  /\ at = "line" /\ keys = <<>>
  /\ at' = "input" /\ msg' = <<>>
  /\ UNCHANGED <<keys, line_, typed, sent>>

Cleared_TextOnly(size) == size   \* mutant: size_ is not reset
Cleared(size) == 0

Enter ==
  /\ Reads(Newline)
  /\ at' = "input" /\ msg' = text_
  /\ input_' = Erased
  /\ text_' = <<>> /\ size_' = Cleared(size_)
  /\ UNCHANGED <<typed, sent>>

Fewer_Same(size) == size   \* mutant: size_ is not decremented
Fewer(size) == size - 1

Erase ==
  /\ Reads(Backspace)
  /\ IF size_ <= 0 THEN UNCHANGED line_
     ELSE text_' = Front(text_) /\ size_' = Fewer(size_) /\ input_' = RubOut(input_)
  /\ UNCHANGED <<at, msg, typed, sent>>

Full(size) == size >= MaxLine

Character(k) ==
  /\ Reads(k)
  /\ IF Full(size_) THEN UNCHANGED line_
     ELSE text_' = Append(text_, k) /\ size_' = size_ + 1 /\ input_' = Echo(input_, k)
  /\ UNCHANGED <<at, msg, typed, sent>>

GetLine == NoKey \/ Enter \/ Erase \/ \E k \in Characters : Character(k)

Obey ==
  /\ at = "input" /\ msg = Quit
  /\ at' = "quit"
  /\ UNCHANGED <<keys, line_, msg, typed, sent>>

SendText ==
  /\ at = "input" /\ msg # Quit /\ msg # <<>>
  /\ sent' = Append(sent, msg) /\ at' = "main"
  /\ UNCHANGED <<keys, line_, msg, typed>>

NothingToSend ==
  /\ at = "input" /\ msg = <<>>
  /\ at' = "main"
  /\ UNCHANGED <<keys, line_, msg, typed, sent>>

Next ==
  \/ \E k \in Keys : Type(k)
  \/ GetInput \/ GetLine
  \/ Obey \/ SendText \/ NothingToSend

Spec == Init /\ [][Next]_vars

(***************************************************************************)
(* What the keys mean, looked at as a whole.                               *)
(***************************************************************************)
Edit(line, k) ==
  CASE k = Backspace -> IF line = <<>> THEN <<>> ELSE Front(line)
    [] k # Backspace /\ Len(line) < MaxLine -> Append(line, k)
    [] OTHER -> line

IsText(line) == line # <<>> /\ line # Quit

\* The state after some keys: the texts entered, the line being edited, and if
\* it has fitted into its row, in one cell per character, ever since it began.
Nothing == [texts |-> <<>>, line |-> <<>>, inRow |-> TRUE]

Press(s, k) ==
  LET edited == Edit(s.line, k) IN
  IF k = Newline
    THEN [texts |-> IF IsText(s.line) THEN Append(s.texts, s.line) ELSE s.texts,
          line  |-> <<>>, inRow |-> TRUE]
    ELSE [texts |-> s.texts, line |-> edited,
          inRow |-> s.inRow /\ Len(edited) <= Width - 2 /\ k \notin Wide]

Meaning(ks) ==
  LET Upto[i \in 0..Len(ks)] ==
        IF i = 0 THEN Nothing ELSE Press(Upto[i - 1], ks[i])
  IN  Upto[Len(ks)]

Taken == SubSeq(typed, 1, Len(typed) - Len(keys))

\* The count that guards pop_back() and the length of a line is the length of
\* the line, however the keys are spread over calls: no pop_back() of an empty
\* string, and no text that is empty or longer than MaxLine, far below the 255
\* characters MessageClientText can carry.  The echo never leaves the window.
LinesFit ==
  /\ size_ = Len(text_) /\ size_ \in 0..MaxLine
  /\ \A i \in DOMAIN sent : Len(sent[i]) \in 1..MaxLine
  /\ input_ \in WindowType

\* The server is sent exactly the lines the user entered, edited, in order,
\* without the empty ones, however calls of getLine cut the keys into pieces;
\* what is being edited is never lost with them.
SentAsEdited ==
  /\ text_ = Meaning(Taken).line
  /\ at # "input" => sent = Meaning(Taken).texts

\* What the user sees is what will be sent: the row shows the line, the cursor
\* stands behind it, and the rest is blank up to the border, through typing,
\* erasing and entering.  It is so only while the line has fitted into its row,
\* before the border, and had no control characters: backspace does not step
\* back into the row above, and takes one cell for a character of two.
EchoMatches ==
  Meaning(Taken).inRow =>
    /\ input_.cursor = size_ + 1
    /\ \A p \in 0..LastCell :
         input_.cells[p] = IF p \in 1..size_ THEN text_[p] ELSE Erased.cells[p]
=============================================================================

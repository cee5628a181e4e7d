------------------------- MODULE CommandLineProofs -------------------------
(***************************************************************************)
(* The scan of the command line stays within argv, and what the program    *)
(* then does is what the words and the answers mean, for every set of      *)
(* words and every length.                                                 *)
(***************************************************************************)
EXTENDS CommandLine, SequenceLemmas, TLAPS

(***************************************************************************)
(* Which words are options.                                                *)
(***************************************************************************)
LEMMA OptionsAre ==
  /\ program = "server" => Options = {"--addr", "--port", "--database"}
  /\ program = "client" => Options = {"--addr", "--port", "--user", "--pass"}
<1>1. Range(ServerOptions) = {"--addr", "--port", "--database"}
  <2>1. DOMAIN ServerOptions = 1..3 /\ Range(ServerOptions) = {ServerOptions[i] : i \in 1..3}
    BY DEF ServerOptions, Range
  <2>2. ServerOptions[1] = "--addr" /\ ServerOptions[2] = "--port"
        /\ ServerOptions[3] = "--database"
    BY DEF ServerOptions
  <2>3. 1..3 = {1, 2, 3}
    OBVIOUS
  <2> QED BY <2>1, <2>2, <2>3
<1>2. Range(ClientOptions) = {"--addr", "--port", "--user", "--pass"}
  <2>1. DOMAIN ClientOptions = 1..4 /\ Range(ClientOptions) = {ClientOptions[i] : i \in 1..4}
    BY DEF ClientOptions, Range
  <2>2. ClientOptions[1] = "--addr" /\ ClientOptions[2] = "--port"
        /\ ClientOptions[3] = "--user" /\ ClientOptions[4] = "--pass"
    BY DEF ClientOptions
  <2>3. 1..4 = {1, 2, 3, 4}
    OBVIOUS
  <2> QED BY <2>1, <2>2, <2>3
<1> QED BY <1>1, <1>2 DEF Options, Questions

IsUpto(f, ws, options) ==
  f = [i \in 0..(Len(ws) + 1) |-> i > 0 /\ ~(f[i - 1] /\ ws[i - 1] \in options)]

OptionsIn(ws, options) == CHOOSE f : IsUpto(f, ws, options)

IsOptionSolved == IsOption = OptionsIn(argv, Options)

LEMMA IsOptionUpto == IsOptionSolved
BY DEF IsOptionSolved, IsOption, OptionsIn, IsUpto, End

LEMMA UptoType ==
  ASSUME NEW ws, Len(ws) \in Nat, NEW options
  PROVE  LET f == OptionsIn(ws, options) IN
         /\ f \in [0..(Len(ws) + 1) -> BOOLEAN]
         /\ ~f[0]
         /\ \A i \in 1..(Len(ws) + 1) : f[i] <=> ~(f[i - 1] /\ ws[i - 1] \in options)
<1> DEFINE n == Len(ws) + 1
           step == [i \in 1..n |-> [v \in BOOLEAN |-> ~(v /\ ws[i - 1] \in options)]]
<1>0. n \in Nat
  OBVIOUS
<1>1. step \in [1..n -> [BOOLEAN -> BOOLEAN]]
  <2> HIDE DEF n
  <2> QED OBVIOUS
<1>2. PICK f \in [0..n -> BOOLEAN] : Recursion(f, n, FALSE, step)
  <2> HIDE DEF step, n
  <2> QED BY <1>0, <1>1, RecursiveFunction
<1>3. IsUpto(f, ws, options)
  <2>1. ASSUME NEW i \in 1..n
        PROVE  step[i][f[i - 1]] = ~(f[i - 1] /\ ws[i - 1] \in options)
    <3>1. i - 1 \in 0..n
      BY <1>0
    <3> HIDE DEF n
    <3>2. f[i - 1] \in BOOLEAN
      BY <1>2, <3>1
    <3> QED BY <3>2
  <2> HIDE DEF step
  <2>2. f[0] = FALSE /\ \A i \in 1..n : f[i] = step[i][f[i - 1]]
    BY <1>2 DEF Recursion
  <2>3. ASSUME NEW i \in 0..n
        PROVE  f[i] = (i > 0 /\ ~(f[i - 1] /\ ws[i - 1] \in options))
    <3>1. i = 0 \/ (i \in 1..n /\ i > 0)
      BY <1>0
    <3> HIDE DEF n
    <3> QED BY <2>1, <2>2, <3>1
  <2> QED BY <1>2, <2>3 DEF IsUpto
<1>4. IsUpto(OptionsIn(ws, options), ws, options)
  BY <1>3 DEF OptionsIn
<1> DEFINE g == OptionsIn(ws, options)
<1>5. g = [i \in 0..n |-> i > 0 /\ ~(g[i - 1] /\ ws[i - 1] \in options)]
  BY <1>4 DEF IsUpto
<1> HIDE DEF g, n
<1>6. g \in [0..n -> BOOLEAN]
  BY <1>5
<1>7. ~g[0]
  <2>1. 0 \in 0..n /\ ~(0 > 0)
    BY <1>0
  <2>2. g[0] = (0 > 0 /\ ~(g[0 - 1] /\ ws[0 - 1] \in options))
    BY <1>5, <2>1, Zenon
  <2> QED BY <2>1, <2>2, Zenon
<1>8. ASSUME NEW i \in 1..n PROVE g[i] <=> ~(g[i - 1] /\ ws[i - 1] \in options)
  <2>1. i \in 0..n /\ i > 0
    BY <1>0
  <2> QED BY <1>5, <2>1
<1> QED BY <1>6, <1>7, <1>8 DEF g, n

\* A word is an option unless the word before it is one that takes a value.
LEMMA OptionAt ==
  ASSUME Len(argv) \in Nat
  PROVE  /\ IsOption[1]
         /\ \A i \in 1..Len(argv) :
              /\ IsOption[i] \in BOOLEAN /\ IsOption[i + 1] \in BOOLEAN
              /\ IsOption[i + 1] <=> ~(IsOption[i] /\ argv[i] \in Options)
<1> DEFINE f == OptionsIn(argv, Options)
<1>1. /\ f \in [0..(Len(argv) + 1) -> BOOLEAN] /\ ~f[0]
      /\ \A i \in 1..(Len(argv) + 1) : f[i] <=> ~(f[i - 1] /\ argv[i - 1] \in Options)
  BY UptoType
<1>2. IsOption = f
  BY IsOptionUpto DEF IsOptionSolved
<1> HIDE DEF f
<1>3. f[1]
  <2>1. 1 \in 1..(Len(argv) + 1) /\ 1 - 1 = 0
    OBVIOUS
  <2> QED BY <1>1, <2>1
<1>4. ASSUME NEW i \in 1..Len(argv)
      PROVE  /\ f[i] \in BOOLEAN /\ f[i + 1] \in BOOLEAN
             /\ f[i + 1] <=> ~(f[i] /\ argv[i] \in Options)
  <2>1. /\ i \in 0..(Len(argv) + 1) /\ i + 1 \in 1..(Len(argv) + 1) /\ (i + 1) - 1 = i
        /\ i + 1 \in 0..(Len(argv) + 1)
    OBVIOUS
  <2> QED BY <1>1, <2>1
<1> QED BY <1>2, <1>3, <1>4

(***************************************************************************)
(* What the scan has made of the words.                                    *)
(***************************************************************************)
Default == IF program = "server" THEN ServerDefault ELSE ClientDefault

\* Options that need no value, words that are wrong in their place.
Helps == Given("--help")
Bad == {i \in 1..Len(argv) :
          IsOption[i] /\ \/ argv[i] \in Plain \cup {"--other"}
                         \/ argv[i] \in Options /\ i = Len(argv)}

\* The words up to cmds give v to the option o: nothing, or what the last of
\* its occurrences says.
OnLine(o, v) ==
  \/ v = null /\ \A i \in Given(o) : i > cmds
  \/ \E i \in Given(o) :
       /\ i + 1 <= cmds /\ v = argv[i + 1]
       /\ \A j \in Given(o) : j <= cmds => j <= i

Answered(o) == {q \in DOMAIN answers : Questions[q] = o /\ answers[q] # Nothing}

\* ... unless an answer gives it.
Said(o, v) ==
  IF Answered(o) = {} THEN OnLine(o, v) ELSE \E q \in Answered(o) : v = answers[q]

Defaulted(o, v) == IF v = null THEN Default[o] ELSE v

\* The state has its type; the words are those of the program.
WordsInv ==
  /\ program \in Programs
  /\ Len(argv) \in Nat /\ argv \in [1..Len(argv) -> Words]
  /\ cmds \in 0..Len(argv)
  /\ setting = [o \in Options |-> setting[o]]
  /\ prompt \in BOOLEAN /\ showhelp \in BOOLEAN /\ fail \in BOOLEAN
  /\ answers \in Seq({Nothing} \cup Plain) /\ Len(answers) <= Len(Questions)

\* The loop of main() stands before an option, or at the end after a value was
\* missing; the flags say what the words before it did.
FlagsInv ==
  /\ at = "parse" => IsOption[cmds + 1] \/ (cmds = Len(argv) /\ fail)
  /\ fail <=> \E i \in Bad : i <= cmds
  /\ showhelp <=> \E i \in Helps : i <= cmds
  /\ prompt <=> \A i \in Given(NoPrompt) : i > cmds

Parsing == {"parse", "prompt", "default"}
Converted == {"construct", "connect", "ready", "exit0"}

\* The settings are those that were said, and in the end the defaults of the
\* others.
SettingsInv ==
  /\ at \in Parsing /\ ~fail => \A o \in Options : Said(o, setting[o])
  /\ at \notin Parsing /\ ~Refused =>
       \A o \in Options : \E v : Said(o, v) /\ setting[o] = Defaulted(o, v)

\* Where main() is.
StageInv ==
  /\ at \in Parsing \cup Converted \cup {"convert", "exit1"}
  /\ at # "parse" => cmds = Len(argv)
  /\ at \notin {"parse", "exit1"} => ~Refused
  /\ at = "parse" => answers = <<>>
  /\ at = "prompt" => prompt /\ Len(answers) < Len(Questions)
  /\ at \notin {"parse", "prompt"} /\ ~Refused => (prompt <=> answers # <<>>)
  /\ at = "exit1" => Refused \/ StouThrows(setting["--port"])

\* The port is converted, tested, and tested with the address.
PortInv ==
  /\ at = "connect" => program = "client"
  /\ at \in Converted => ~StouThrows(setting["--port"]) /\ fport = Stou(setting["--port"])
  /\ at \in {"connect", "ready"} =>
       IsPortValid(fport) /\ setting["--addr"] \in Addresses[program]
  /\ at = "exit0" /\ program = "server" =>
       ~IsPortValid(fport) \/ setting["--addr"] \notin Addresses[program]

SettingInv == WordsInv /\ FlagsInv /\ SettingsInv /\ StageInv /\ PortInv

LEMMA WordsApart ==
  ASSUME program \in Programs
  PROVE  /\ {NoPrompt, "--help", "--other"} \cap Options = {}
         /\ NoPrompt \notin {"--help", "--other"}
         /\ Plain \cap (Options \cup {NoPrompt, "--help", "--other", null}) = {}
         /\ Options \subseteq Words /\ null \notin Words
         /\ {"--addr", "--port"} \subseteq Options
<1>1. program = "server" \/ program = "client"
  BY DEF Programs
<1>2. Options \subseteq {"--addr", "--port", "--database", "--user", "--pass"}
  BY <1>1, OptionsAre
<1>3. NoPrompt \in {"--nopromt", "--noprompt"}
  BY DEF NoPrompt
<1>4. /\ {NoPrompt, "--help", "--other"} \cap Options = {}
      /\ NoPrompt \notin {"--help", "--other"} /\ null \notin Options
      /\ null \notin {NoPrompt, "--help", "--other"}
  BY <1>2, <1>3 DEF null
<1>5. Plain \cap (Options \cup {NoPrompt, "--help", "--other", null}) = {}
  <2>1. Options = Range(ServerOptions) \/ Options = Range(ClientOptions)
    BY <1>1 DEF Options, Questions
  <2> QED BY <1>3, <2>1, ProgramAssumption
<1>6. {"--addr", "--port"} \subseteq Options
  BY <1>1, OptionsAre
<1> QED BY <1>4, <1>5, <1>6 DEF Words

LEMMA BadIs ==
  ASSUME NEW i \in 1..Len(argv)
  PROVE  /\ i \in Bad <=> IsOption[i] /\ \/ argv[i] \in Plain \cup {"--other"}
                                         \/ argv[i] \in Options /\ i = Len(argv)
         /\ \A o : i \in Given(o) <=> argv[i] = o /\ IsOption[i]
BY DEF Bad, Given

LEMMA SetsOfPositions ==
  /\ Bad \subseteq 1..Len(argv) /\ Helps \subseteq 1..Len(argv)
  /\ \A o : Given(o) \subseteq 1..Len(argv)
BY DEF Bad, Helps, Given

LEMMA OneMore ==
  ASSUME NEW S, NEW n \in Nat, S \subseteq Nat
  PROVE  /\ (\E i \in S : i <= n + 1) <=> (\E i \in S : i <= n) \/ n + 1 \in S
         /\ (\A i \in S : i > n + 1) <=> (\A i \in S : i > n) /\ n + 1 \notin S
<1>1. ASSUME NEW i \in S PROVE /\ i <= n + 1 <=> i <= n \/ i = n + 1
                               /\ i > n + 1 <=> i > n /\ i # n + 1
  OBVIOUS
<1>2. n + 1 <= n + 1 /\ ~(n + 1 > n + 1) /\ n <= n + 1
  OBVIOUS
<1> QED BY <1>1, <1>2

\* The command line itself does not change.
LEMMA SameInput ==
  ASSUME UNCHANGED input
  PROVE  /\ program' = program /\ argv' = argv /\ Questions' = Questions
         /\ Options' = Options /\ Words' = Words /\ NoPrompt' = NoPrompt
         /\ IsOption' = IsOption /\ Bad' = Bad /\ Helps' = Helps
         /\ Default' = Default
         /\ \A o : Given(o)' = Given(o)
<1>1. program' = program /\ argv' = argv
  BY DEF input
<1>2. Questions' = Questions /\ NoPrompt' = NoPrompt /\ Default' = Default
  BY <1>1 DEF Questions, NoPrompt, Default
<1>3. Options' = Options
  BY <1>2 DEF Options
<1>4. Words' = Words
  BY <1>2, <1>3 DEF Words
<1>5. IsOption' = IsOption
  <2>1. IsOptionSolved'
    BY IsOptionUpto, PTL
  <2> QED BY <1>1, <1>3, <2>1, IsOptionUpto DEF IsOptionSolved
<1>6. Bad' = Bad /\ \A o : Given(o)' = Given(o)
  BY <1>1, <1>3, <1>5 DEF Bad, Given
<1>7. Helps' = Helps
  BY <1>6 DEF Helps
<1> QED BY <1>1, <1>2, <1>3, <1>4, <1>5, <1>6, <1>7

(***************************************************************************)
(* The steps of the scan.                                                  *)
(***************************************************************************)
\* A word without a value behind it.
OneWord ==
  /\ at = "parse" /\ at' = at /\ cmds < Len(argv) /\ cmds' = cmds + 1
  /\ UNCHANGED <<input, setting, answers>>
  /\ argv[cmds + 1] \notin Options
  /\ fail' = (fail \/ argv[cmds + 1] \in Plain \cup {"--other"})
  /\ showhelp' = (showhelp \/ argv[cmds + 1] = "--help")
  /\ prompt' = (prompt /\ argv[cmds + 1] # NoPrompt)

LEMMA OnLineSame ==
  ASSUME WordsInv, UNCHANGED <<input, answers>>, cmds' \in Nat, cmds <= cmds',
         NEW o, \A i \in Given(o) : i <= cmds' => i <= cmds,
         NEW v, Said(o, v)
  PROVE  Said(o, v)'
<1>1. Given(o)' = Given(o) /\ argv' = argv /\ Answered(o)' = Answered(o) /\ answers' = answers
  BY SameInput DEF Answered
<1>2. Given(o) \subseteq Nat /\ cmds \in Nat
  <2>1. Len(argv) \in Nat /\ cmds \in 0..Len(argv)
    BY DEF WordsInv
  <2>2. Given(o) \subseteq 1..Len(argv)
    BY SetsOfPositions
  <2> QED BY <2>1, <2>2
<1>3. ASSUME OnLine(o, v) PROVE OnLine(o, v)'
  <2>1. CASE v = null /\ \A i \in Given(o) : i > cmds
    <3>1. \A i \in Given(o) : i > cmds'
      BY <1>2, <2>1
    <3> QED BY <1>1, <2>1, <3>1 DEF OnLine
  <2>2. ASSUME NEW i \in Given(o),
               i + 1 <= cmds /\ v = argv[i + 1] /\ \A j \in Given(o) : j <= cmds => j <= i
        PROVE  OnLine(o, v)'
    <3>1. i + 1 <= cmds' /\ \A j \in Given(o) : j <= cmds' => j <= i
      BY <1>2, <2>2
    <3> QED BY <1>1, <2>2, <3>1 DEF OnLine
  <2> QED BY <1>3, <2>1, <2>2 DEF OnLine
<1> QED BY <1>1, <1>3 DEF Said

LEMMA OneWordStep ==
  ASSUME WordsInv, FlagsInv, SettingsInv, OneWord
  PROVE  WordsInv' /\ FlagsInv' /\ SettingsInv'
<1> DEFINE c == cmds + 1
<1>1. c \in 1..Len(argv) /\ c \in Nat /\ cmds \in Nat /\ cmds' = c /\ Len(argv) \in Nat
  <2>1. Len(argv) \in Nat /\ cmds \in 0..Len(argv)
    BY DEF WordsInv
  <2>2. cmds < Len(argv) /\ cmds' = cmds + 1
    BY DEF OneWord
  <2> QED BY <2>1, <2>2
<1>2. /\ argv' = argv /\ Options' = Options /\ NoPrompt' = NoPrompt /\ Words' = Words
      /\ IsOption' = IsOption /\ Bad' = Bad /\ Helps' = Helps /\ Questions' = Questions
      /\ program' = program /\ \A o : Given(o)' = Given(o)
  BY SameInput DEF OneWord
<1>3. IsOption[c] /\ IsOption[c + 1]
  <2>1. IsOption[c]
    BY <1>1 DEF FlagsInv, OneWord
  <2> QED BY <1>1, <2>1, OptionAt DEF OneWord
<1>4. /\ c \in Bad <=> argv[c] \in Plain \cup {"--other"}
      /\ \A o : c \in Given(o) <=> argv[c] = o
  BY <1>1, <1>3, BadIs DEF OneWord
<1>5. WordsInv'
  <2>1. fail' \in BOOLEAN /\ showhelp' \in BOOLEAN /\ prompt' \in BOOLEAN
    BY DEF OneWord
  <2>2. program' \in Programs /\ Len(argv') \in Nat /\ argv' \in [1..Len(argv') -> Words']
    BY <1>2 DEF WordsInv
  <2>3. cmds' \in 0..Len(argv')
    BY <1>1, <1>2
  <2>4. setting' = [o \in Options' |-> setting'[o]]
    BY <1>2 DEF WordsInv, OneWord
  <2>5. answers' \in Seq({Nothing} \cup Plain) /\ Len(answers') <= Len(Questions')
    BY <1>2 DEF WordsInv, OneWord
  <2> QED BY <2>1, <2>2, <2>3, <2>4, <2>5 DEF WordsInv
<1>6. FlagsInv'
  <2> HIDE DEF c
  <2>0. /\ Bad \subseteq Nat /\ Helps \subseteq Nat /\ Given(NoPrompt) \subseteq Nat
    BY SetsOfPositions
  <2>1. fail' <=> \E i \in Bad : i <= c
    BY <1>1, <1>4, <2>0, OneMore DEF FlagsInv, OneWord, c
  <2>2. showhelp' <=> \E i \in Helps : i <= c
    BY <1>1, <1>4, <2>0, OneMore DEF FlagsInv, OneWord, Helps, c
  <2>3. prompt' <=> \A i \in Given(NoPrompt) : i > c
    BY <1>1, <1>4, <2>0, OneMore DEF FlagsInv, OneWord, c
  <2>4. at' = "parse" => IsOption'[cmds' + 1]
    BY <1>1, <1>2, <1>3
  <2> QED BY <1>1, <1>2, <2>1, <2>2, <2>3, <2>4 DEF FlagsInv
<1>7. SettingsInv'
  <2>1. at' \in Parsing /\ at \in Parsing
    BY DEF OneWord, Parsing
  <2>2. ASSUME ~fail', NEW o \in Options PROVE Said(o, setting[o])'
    <3>1. Said(o, setting[o])
      BY <2>1, <2>2 DEF SettingsInv, OneWord
    <3>2. c \notin Given(o)
      BY <1>4 DEF OneWord
    <3>3. \A i \in Given(o) : i <= cmds' => i <= cmds
      BY <1>1, <3>2, SetsOfPositions
    <3> DEFINE v == setting[o]
    <3>4. v' = v
      BY DEF OneWord
    <3>5. UNCHANGED <<input, answers>> /\ cmds' \in Nat /\ cmds <= cmds'
      BY <1>1 DEF OneWord
    <3>6. Said(o, v)
      BY <3>1
    <3> HIDE DEF v
    <3>7. Said(o, v)'
      BY <3>3, <3>4, <3>5, <3>6, OnLineSame
    <3> QED BY <3>7 DEF v
  <2> QED BY <1>2, <2>1, <2>2 DEF SettingsInv
<1> QED BY <1>5, <1>6, <1>7

\* An option with its value.
LEMMA SetOptionStep ==
  ASSUME WordsInv, FlagsInv, SettingsInv, at = "parse", answers = <<>>,
         NEW opt \in Options, SetOption(opt)
  PROVE  WordsInv' /\ FlagsInv' /\ SettingsInv'
<1> DEFINE c == cmds + 1
<1>1. /\ c \in 1..Len(argv) /\ c + 1 \in 1..Len(argv) /\ c \in Nat /\ cmds \in Nat
      /\ cmds' = c + 1 /\ Len(argv) \in Nat
  <2>1. Len(argv) \in Nat /\ cmds \in 0..Len(argv)
    BY DEF WordsInv
  <2>2. cmds < Len(argv) /\ cmds + 2 # Len(argv) + 1 /\ cmds' = cmds + 2
    BY DEF SetOption, Word, Parsed, End
  <2> QED BY <2>1, <2>2
<1>2. /\ argv' = argv /\ Options' = Options /\ NoPrompt' = NoPrompt /\ Words' = Words
      /\ IsOption' = IsOption /\ Bad' = Bad /\ Helps' = Helps /\ Questions' = Questions
      /\ program' = program /\ \A o : Given(o)' = Given(o)
  BY SameInput DEF SetOption, Parsed
<1>3. /\ argv[c] = opt /\ at' = at /\ answers' = answers
      /\ setting' = [setting EXCEPT ![opt] = argv[c + 1]]
      /\ prompt' = prompt /\ showhelp' = showhelp /\ fail' = fail
  <2>1. cmds + 2 = c + 1
    BY <1>1
  <2> QED BY <2>1 DEF SetOption, Word, Parsed, flags
<1>4. IsOption[c] /\ ~IsOption[c + 1] /\ IsOption[c + 2]
  <2>1. IsOption[c]
    BY <1>1 DEF FlagsInv
  <2>2. ~IsOption[c + 1]
    BY <1>1, <1>3, <2>1, OptionAt
  <2>3. IsOption[(c + 1) + 1]
    BY <1>1, <2>2, OptionAt
  <2>4. (c + 1) + 1 = c + 2
    BY <1>1
  <2> QED BY <2>1, <2>2, <2>3, <2>4
<1>5. /\ c \notin Bad /\ c + 1 \notin Bad
      /\ \A o : c \in Given(o) <=> o = opt
      /\ \A o : c + 1 \notin Given(o)
  <2>1. c # Len(argv)
    BY <1>1
  <2>2. opt \notin Plain \cup {"--other"}
    <3>1. program \in Programs
      BY DEF WordsInv
    <3> QED BY <3>1, WordsApart
  <2> QED BY <1>1, <1>3, <1>4, <2>1, <2>2, BadIs
<1>6. WordsInv'
  <2>1. fail' \in BOOLEAN /\ showhelp' \in BOOLEAN /\ prompt' \in BOOLEAN
    BY <1>3 DEF WordsInv
  <2>2. program' \in Programs /\ Len(argv') \in Nat /\ argv' \in [1..Len(argv') -> Words']
    BY <1>2 DEF WordsInv
  <2>3. cmds' \in 0..Len(argv')
    BY <1>1, <1>2
  <2>4. setting' = [o \in Options' |-> setting'[o]]
    BY <1>2, <1>3 DEF WordsInv
  <2>5. answers' \in Seq({Nothing} \cup Plain) /\ Len(answers') <= Len(Questions')
    BY <1>2, <1>3 DEF WordsInv
  <2> QED BY <2>1, <2>2, <2>3, <2>4, <2>5 DEF WordsInv
<1>7. FlagsInv'
  <2>0. Bad \subseteq Nat /\ Helps \subseteq Nat /\ Given(NoPrompt) \subseteq Nat
    BY SetsOfPositions, <1>1
  <2>1. opt # "--help" /\ opt # NoPrompt
    BY WordsApart DEF WordsInv
  <2>2. c \notin Helps /\ c + 1 \notin Helps /\ c \notin Given(NoPrompt)
        /\ c + 1 \notin Given(NoPrompt)
    BY <1>5, <2>1 DEF Helps
  <2>3. /\ fail <=> \E i \in Bad : i <= cmds
        /\ showhelp <=> \E i \in Helps : i <= cmds
        /\ prompt <=> \A i \in Given(NoPrompt) : i > cmds
    BY DEF FlagsInv
  <2>4. /\ (\E i \in Bad : i <= cmds + 1) <=> (\E i \in Bad : i <= cmds)
        /\ (\E i \in Helps : i <= cmds + 1) <=> (\E i \in Helps : i <= cmds)
        /\ (\A i \in Given(NoPrompt) : i > cmds + 1)
             <=> (\A i \in Given(NoPrompt) : i > cmds)
    BY <1>1, <1>5, <2>0, <2>2, OneMore
  <2> HIDE DEF c
  <2>5. /\ (\E i \in Bad : i <= c + 1) <=> (\E i \in Bad : i <= c)
        /\ (\E i \in Helps : i <= c + 1) <=> (\E i \in Helps : i <= c)
        /\ (\A i \in Given(NoPrompt) : i > c + 1)
             <=> (\A i \in Given(NoPrompt) : i > c)
    BY <1>1, <1>5, <2>0, <2>2, OneMore
  <2>6. /\ fail <=> \E i \in Bad : i <= c + 1
        /\ showhelp <=> \E i \in Helps : i <= c + 1
        /\ prompt <=> \A i \in Given(NoPrompt) : i > c + 1
    BY <2>3, <2>4, <2>5, Zenon DEF c
  <2>7. IsOption'[cmds' + 1]
    <3>1. cmds' + 1 = c + 2
      BY <1>1
    <3> QED BY <1>2, <1>4, <3>1
  <2> QED BY <1>1, <1>2, <1>3, <2>6, <2>7 DEF FlagsInv
<1>8. SettingsInv'
  <2>1. at' \in Parsing /\ at \in Parsing
    BY <1>3 DEF Parsing
  <2>2. ASSUME ~fail', NEW o \in Options PROVE Said(o, setting[o])'
    <3>1. Said(o, setting[o])
      BY <1>3, <2>1, <2>2 DEF SettingsInv
    <3>2. CASE o # opt
      <4>1. \A i \in Given(o) : i <= cmds' => i <= cmds
        <5>1. c \notin Given(o) /\ c + 1 \notin Given(o)
          BY <1>5, <3>2
        <5>2. Given(o) \subseteq Nat
          BY SetsOfPositions, <1>1
        <5> QED BY <1>1, <5>1, <5>2
      <4>2. setting'[o] = setting[o]
        BY <1>3, <3>2 DEF WordsInv
      <4>3. UNCHANGED <<input, answers>> /\ cmds' \in Nat /\ cmds <= cmds'
        BY <1>1 DEF SetOption, Parsed
      <4> DEFINE v == setting[o]
      <4>4. Said(o, v) /\ v' = v
        BY <3>1, <4>2
      <4> HIDE DEF v
      <4>5. Said(o, v)'
        BY <4>1, <4>3, <4>4, OnLineSame
      <4> QED BY <4>5 DEF v
    <3>3. CASE o = opt
      <4>1. setting'[o] = argv[c + 1]
        BY <1>3, <3>3 DEF WordsInv
      <4>2. Answered(o)' = {}
        <5>1. Answered(o) = {}
          BY DEF Answered
        <5> QED BY <1>2, <1>3, <5>1 DEF Answered
      <4>3. c \in Given(o)' /\ \A j \in Given(o)' : j <= cmds' => j <= c
        <5>1. c + 1 \notin Given(o) /\ c \in Given(o) /\ Given(o) \subseteq Nat
          BY <1>1, <1>5, <3>3, SetsOfPositions
        <5> QED BY <1>1, <1>2, <5>1
      <4>4. OnLine(o, setting[o])'
        BY <1>1, <1>2, <4>1, <4>3 DEF OnLine
      <4> QED BY <4>2, <4>4 DEF Said
    <3> QED BY <3>2, <3>3
  <2> QED BY <1>2, <2>1, <2>2 DEF SettingsInv
<1> QED BY <1>6, <1>7, <1>8

\* An option without one, at the end.
LEMMA MissingValueStep ==
  ASSUME WordsInv, FlagsInv, at = "parse",
         NEW opt \in Options, MissingValue(opt)
  PROVE  WordsInv' /\ FlagsInv' /\ SettingsInv'
<1> DEFINE c == cmds + 1
<1>1. c = Len(argv) /\ c \in Nat /\ cmds \in Nat /\ cmds' = c /\ Len(argv) \in Nat
  <2>1. Len(argv) \in Nat /\ cmds \in 0..Len(argv)
    BY DEF WordsInv
  <2>2. cmds + 2 = Len(argv) + 1 /\ cmds' = (cmds + 2) - 1
    BY DEF MissingValue, Parsed, End, BackFrom
  <2> QED BY <2>1, <2>2
<1>2. /\ argv' = argv /\ Options' = Options /\ NoPrompt' = NoPrompt /\ Words' = Words
      /\ IsOption' = IsOption /\ Bad' = Bad /\ Helps' = Helps /\ Questions' = Questions
      /\ program' = program /\ \A o : Given(o)' = Given(o)
  BY SameInput DEF MissingValue, Parsed
<1>3. /\ argv[c] = opt /\ at' = at /\ answers' = answers /\ setting' = setting
      /\ prompt' = prompt /\ showhelp' = showhelp /\ fail' = TRUE
  BY DEF MissingValue, Word, Parsed
<1>4. IsOption[c] /\ c \in 1..Len(argv)
  <2>1. c \in 1..Len(argv) /\ cmds # Len(argv)
    BY <1>1
  <2> QED BY <2>1 DEF FlagsInv
<1>5. c \in Bad /\ \A o : c \in Given(o) <=> o = opt
  BY <1>1, <1>3, <1>4, BadIs
<1>6. WordsInv'
  <2>2. program' \in Programs /\ Len(argv') \in Nat /\ argv' \in [1..Len(argv') -> Words']
    BY <1>2 DEF WordsInv
  <2>3. cmds' \in 0..Len(argv')
    BY <1>1, <1>2
  <2>4. setting' = [o \in Options' |-> setting'[o]]
    BY <1>2, <1>3 DEF WordsInv
  <2>5. answers' \in Seq({Nothing} \cup Plain) /\ Len(answers') <= Len(Questions')
    BY <1>2, <1>3 DEF WordsInv
  <2> QED BY <1>3, <2>2, <2>3, <2>4, <2>5 DEF WordsInv
<1>7. FlagsInv'
  <2>0. Helps \subseteq Nat /\ Given(NoPrompt) \subseteq Nat
    BY SetsOfPositions, <1>1
  <2>1. opt # "--help" /\ opt # NoPrompt
    BY WordsApart DEF WordsInv
  <2>2. c \notin Helps /\ c \notin Given(NoPrompt)
    BY <1>5, <2>1 DEF Helps
  <2>3. /\ showhelp <=> \E i \in Helps : i <= cmds
        /\ prompt <=> \A i \in Given(NoPrompt) : i > cmds
    BY DEF FlagsInv
  <2>4. /\ (\E i \in Helps : i <= cmds + 1) <=> (\E i \in Helps : i <= cmds)
        /\ (\A i \in Given(NoPrompt) : i > cmds + 1)
             <=> (\A i \in Given(NoPrompt) : i > cmds)
    BY <1>1, <2>0, <2>2, OneMore
  <2>5. \E i \in Bad : i <= c
    BY <1>1, <1>5
  <2>6. /\ showhelp <=> \E i \in Helps : i <= c
        /\ prompt <=> \A i \in Given(NoPrompt) : i > c
    BY <2>3, <2>4, Zenon DEF c
  <2> HIDE DEF c
  <2> QED BY <1>1, <1>2, <1>3, <2>5, <2>6 DEF FlagsInv
<1>8. SettingsInv'
  BY <1>3 DEF SettingsInv, Parsing
<1> QED BY <1>6, <1>7, <1>8

LEMMA ScanStep ==
  ASSUME SettingInv, ParseLongCommands
  PROVE  SettingInv'
<1>0. WordsInv /\ FlagsInv /\ SettingsInv /\ StageInv /\ PortInv
  BY DEF SettingInv
<1>1. at = "parse" /\ at' = at /\ answers' = answers
  BY DEF ParseLongCommands, DisablePrompt, Help, Invalid, SetOption, MissingValue,
         Word, Parsed
<1>2. StageInv' /\ PortInv'
  <2>1. answers' = <<>>
    BY <1>0, <1>1 DEF StageInv
  <2> QED BY <1>1, <2>1 DEF StageInv, PortInv, Parsing, Converted
<1>3. WordsInv' /\ FlagsInv' /\ SettingsInv'
  <2>1. CASE DisablePrompt
    <3>1. OneWord
      <4>1. NoPrompt \notin Options /\ NoPrompt \notin Plain \cup {"--other"}
            /\ NoPrompt # "--help"
        BY <1>0, WordsApart DEF WordsInv
      <4> QED BY <1>0, <1>1, <2>1, <4>1
              DEF OneWord, DisablePrompt, Word, Parsed, WordsInv
    <3> QED BY <1>0, <3>1, OneWordStep
  <2>2. CASE Help
    <3>1. OneWord
      <4>1. "--help" \notin Options /\ "--help" \notin Plain \cup {"--other"}
            /\ NoPrompt # "--help"
        BY <1>0, WordsApart DEF WordsInv
      <4> QED BY <1>0, <1>1, <2>2, <4>1 DEF OneWord, Help, Word, Parsed, WordsInv
    <3> QED BY <1>0, <3>1, OneWordStep
  <2>3. CASE Invalid
    <3>1. PICK w \in Plain \cup {"--other"} : Word(w)
      BY <2>3 DEF Invalid
    <3>2. OneWord
      <4>1. w \notin Options /\ w # "--help" /\ w # NoPrompt
        BY <1>0, WordsApart DEF WordsInv
      <4> QED BY <1>0, <1>1, <2>3, <3>1, <4>1
              DEF OneWord, Invalid, Word, Parsed, WordsInv
    <3> QED BY <1>0, <3>2, OneWordStep
  <2>4. ASSUME NEW o \in Options, SetOption(o) PROVE WordsInv' /\ FlagsInv' /\ SettingsInv'
    <3>1. answers = <<>>
      BY <1>0, <1>1 DEF StageInv
    <3> QED BY <1>0, <1>1, <2>4, <3>1, SetOptionStep
  <2>5. ASSUME NEW o \in Options, MissingValue(o)
        PROVE  WordsInv' /\ FlagsInv' /\ SettingsInv'
    BY <1>0, <1>1, <2>5, MissingValueStep
  <2> QED BY <2>1, <2>2, <2>3, <2>4, <2>5 DEF ParseLongCommands
<1> QED BY <1>2, <1>3 DEF SettingInv

(***************************************************************************)
(* The steps after the scan.                                               *)
(***************************************************************************)
\* What the words say does not change any more.
LEMMA AfterFlags ==
  ASSUME FlagsInv, UNCHANGED <<input, cmds, flags>>, at' # "parse"
  PROVE  FlagsInv'
<1>1. /\ Bad' = Bad /\ Helps' = Helps /\ NoPrompt' = NoPrompt
      /\ \A o : Given(o)' = Given(o)
  BY SameInput
<1>2. Given(NoPrompt)' = Given(NoPrompt)
  BY <1>1
<1>3. cmds' = cmds /\ fail' = fail /\ showhelp' = showhelp /\ prompt' = prompt
  BY DEF flags
<1> QED BY <1>1, <1>2, <1>3 DEF FlagsInv

LEMMA AfterWords ==
  ASSUME WordsInv, UNCHANGED <<input, cmds, flags, answers>>,
         setting' = [o \in Options' |-> setting'[o]]
  PROVE  WordsInv'
<1>1. /\ argv' = argv /\ program' = program /\ Words' = Words /\ Questions' = Questions
      /\ Options' = Options
  BY SameInput
<1>2. /\ cmds' = cmds /\ fail' = fail /\ showhelp' = showhelp /\ prompt' = prompt
      /\ answers' = answers
  BY DEF flags
<1> QED BY <1>1, <1>2 DEF WordsInv

LEMMA AfterSaid ==
  ASSUME UNCHANGED <<input, cmds, answers>>, NEW o, NEW v
  PROVE  Said(o, v)' = Said(o, v)
<1>1. argv' = argv /\ Questions' = Questions /\ Given(o)' = Given(o)
  BY SameInput
<1>2. Answered(o)' = Answered(o)
  BY <1>1 DEF Answered
<1> QED BY <1>1, <1>2 DEF Said, OnLine

LEMMA EndParseStep ==
  ASSUME SettingInv, EndParse
  PROVE  SettingInv'
<1>0. WordsInv /\ FlagsInv /\ SettingsInv /\ StageInv
  BY DEF SettingInv
<1>1. /\ at = "parse" /\ cmds + 1 = Len(argv) + 1
      /\ UNCHANGED <<input, cmds, setting, flags, fport, answers>>
      /\ at' = CASE Refused            -> "exit1"
                 [] prompt /\ ~Refused -> "prompt"
                 [] OTHER             -> "default"
  BY DEF EndParse, End
<1>2. \/ Refused /\ at' = "exit1"
      \/ ~Refused /\ prompt /\ at' = "prompt"
      \/ ~Refused /\ ~prompt /\ at' = "default"
  BY <1>1
<1>3. cmds = Len(argv)
  <2>1. cmds \in 0..Len(argv) /\ Len(argv) \in Nat
    BY <1>0 DEF WordsInv
  <2> QED BY <1>1, <2>1
<1>4. /\ argv' = argv /\ Questions' = Questions /\ Options' = Options
      /\ program' = program /\ cmds' = cmds /\ setting' = setting /\ answers' = answers
      /\ fail' = fail /\ showhelp' = showhelp /\ prompt' = prompt /\ fport' = fport
      /\ Refused' = Refused
  BY <1>1, SameInput DEF flags, Refused
<1>5. WordsInv' /\ FlagsInv'
  <2>1. setting' = [o \in Options' |-> setting'[o]]
    BY <1>0, <1>4 DEF WordsInv
  <2>2. at' # "parse"
    BY <1>2
  <2> QED BY <1>0, <1>1, <2>1, <2>2, AfterWords, AfterFlags
<1>6. SettingsInv'
  <2>1. ASSUME ~Refused, NEW o \in Options PROVE Said(o, setting[o])'
    <3>1. Said(o, setting[o])
      BY <1>0, <1>1, <2>1 DEF SettingsInv, Parsing, Refused
    <3> DEFINE v == setting[o]
    <3>2. Said(o, v) /\ v' = v
      BY <1>4, <3>1
    <3> HIDE DEF v
    <3>3. Said(o, v)'
      BY <1>1, <3>2, AfterSaid
    <3> QED BY <3>3 DEF v
  <2> QED BY <1>2, <1>4, <2>1 DEF SettingsInv, Parsing
<1>7. StageInv'
  <2>1. answers = <<>> /\ Len(answers) = 0
    BY <1>0, <1>1 DEF StageInv
  <2>2. 0 < Len(Questions)
    BY DEF Questions, ServerOptions, ClientOptions
  <2> QED BY <1>2, <1>3, <1>4, <2>1, <2>2 DEF StageInv, Parsing, Converted
<1>8. PortInv'
  BY <1>2 DEF PortInv, Converted
<1> QED BY <1>5, <1>6, <1>7, <1>8 DEF SettingInv

\* A question is asked once.
LEMMA QuestionsApart ==
  ASSUME NEW i \in DOMAIN Questions, NEW j \in DOMAIN Questions, Questions[i] = Questions[j]
  PROVE  i = j
<1>1. CASE program = "server"
  <2>1. DOMAIN Questions = {1, 2, 3} /\ Questions[1] = "--addr"
        /\ Questions[2] = "--port" /\ Questions[3] = "--database"
    BY <1>1 DEF Questions, ServerOptions
  <2> QED BY <2>1
<1>2. CASE program # "server"
  <2>1. DOMAIN Questions = {1, 2, 3, 4} /\ Questions[1] = "--addr"
        /\ Questions[2] = "--port" /\ Questions[3] = "--user" /\ Questions[4] = "--pass"
    BY <1>2 DEF Questions, ClientOptions
  <2> QED BY <2>1
<1> QED BY <1>1, <1>2

LEMMA QuestionsOK ==
  /\ Len(Questions) \in Nat /\ DOMAIN Questions = 1..Len(Questions)
  /\ \A i \in DOMAIN Questions : Questions[i] \in Options
<1>1. \A i \in DOMAIN Questions : Questions[i] \in Options
  BY DEF Options, Range
<1>2. CASE program = "server"
  <2>1. Questions = ServerOptions /\ Len(ServerOptions) = 3 /\ DOMAIN ServerOptions = 1..3
    BY <1>2 DEF Questions, ServerOptions
  <2> QED BY <1>1, <2>1
<1>3. CASE program # "server"
  <2>1. Questions = ClientOptions /\ Len(ClientOptions) = 4 /\ DOMAIN ClientOptions = 1..4
    BY <1>3 DEF Questions, ClientOptions
  <2> QED BY <1>1, <2>1
<1> QED BY <1>2, <1>3

LEMMA AnswerStep ==
  ASSUME SettingInv, NEW answer \in {Nothing} \cup Plain, Answer(answer)
  PROVE  SettingInv'
<1> DEFINE q == Len(answers) + 1
           opt == Questions[q]
<1>0. WordsInv /\ FlagsInv /\ SettingsInv /\ StageInv
  BY DEF SettingInv
<1>1. /\ at = "prompt" /\ setting' = [setting EXCEPT ![opt] = Kept(opt, answer)]
      /\ answers' = Append(answers, answer)
      /\ at' = IF Len(answers') = Len(Questions) THEN "default" ELSE at
      /\ UNCHANGED <<input, cmds, flags>>
  BY DEF Answer
<1>2. /\ argv' = argv /\ Questions' = Questions /\ Options' = Options /\ Words' = Words
      /\ program' = program /\ cmds' = cmds
      /\ fail' = fail /\ showhelp' = showhelp /\ prompt' = prompt
      /\ Refused' = Refused
  BY <1>1, SameInput DEF flags, Refused
<1>3. /\ answers \in Seq({Nothing} \cup Plain) /\ Len(answers) < Len(Questions) /\ prompt
      /\ ~Refused /\ ~fail /\ Len(answers) \in Nat
  <2>1. answers \in Seq({Nothing} \cup Plain)
    BY <1>0 DEF WordsInv
  <2>2. Len(answers) < Len(Questions) /\ prompt /\ ~Refused
    BY <1>0, <1>1 DEF StageInv
  <2> QED BY <2>1, <2>2 DEF Refused
<1>11. /\ q \in Nat /\ q \in 1..q /\ q \notin 1..Len(answers)
      /\ 1..Len(answers) \subseteq 1..q
      /\ \A i \in 1..q : i = q \/ i \in 1..Len(answers)
  <2>1. Len(answers) \in Nat
    BY <1>3
  <2> QED BY <2>1
<1>4. /\ answers' \in Seq({Nothing} \cup Plain) /\ Len(answers') = q /\ answers'[q] = answer
      /\ \A i \in 1..Len(answers) : answers'[i] = answers[i]
      /\ DOMAIN answers = 1..Len(answers) /\ DOMAIN answers' = 1..q
  <2>1. answers \in Seq({Nothing} \cup Plain) /\ answer \in {Nothing} \cup Plain
    BY <1>3
  <2> DEFINE T == {Nothing} \cup Plain
  <2>2. answers \in Seq(T) /\ answer \in T
    BY <2>1
  <2> HIDE DEF T
  <2>3. /\ Append(answers, answer) \in Seq(T) /\ Len(Append(answers, answer)) = q
        /\ Append(answers, answer)[q] = answer
        /\ \A i \in 1..Len(answers) : Append(answers, answer)[i] = answers[i]
        /\ DOMAIN answers = 1..Len(answers) /\ DOMAIN Append(answers, answer) = 1..q
    BY <2>2
  <2> QED BY <1>1, <2>3 DEF T
<1>5. q \in DOMAIN Questions /\ opt \in Options
  <2>1. q \in 1..Len(Questions)
    <3>1. Len(answers) \in Nat /\ Len(Questions) \in Nat /\ Len(answers) < Len(Questions)
      BY <1>3, QuestionsOK
    <3> QED BY <3>1
  <2> HIDE DEF q
  <2> QED BY <2>1, QuestionsOK
<1>6. WordsInv'
  <2>1. setting' = [o \in Options' |-> setting'[o]]
    <3> HIDE DEF opt, q
    <3> QED BY <1>0, <1>1, <1>2 DEF WordsInv
  <2>2. Len(answers') <= Len(Questions')
    <3>1. q \in 1..Len(Questions)
      BY <1>5, QuestionsOK
    <3> HIDE DEF q
    <3> QED BY <1>2, <1>4, <3>1, QuestionsOK
  <2>3. program' \in Programs /\ Len(argv') \in Nat /\ argv' \in [1..Len(argv') -> Words']
        /\ cmds' \in 0..Len(argv')
    BY <1>0, <1>2 DEF WordsInv
  <2>4. prompt' \in BOOLEAN /\ showhelp' \in BOOLEAN /\ fail' \in BOOLEAN
    BY <1>0, <1>2 DEF WordsInv
  <2> QED BY <1>4, <2>1, <2>2, <2>3, <2>4 DEF WordsInv
<1>7. FlagsInv'
  BY <1>0, <1>1, AfterFlags
<1>8. SettingsInv'
  <2>1. at \in Parsing /\ at' \in Parsing
    BY <1>1 DEF Parsing
  <2>2. ASSUME NEW o \in Options PROVE Said(o, setting[o])'
    <3>1. Said(o, setting[o])
      BY <1>0, <1>3, <2>1 DEF SettingsInv
    <3>2. argv' = argv /\ Given(o)' = Given(o)
      BY <1>1, SameInput
    <3>3. ASSUME NEW v, OnLine(o, v) PROVE OnLine(o, v)'
      BY <1>2, <3>2, <3>3 DEF OnLine
    <3>4. Answered(o)' = IF o = opt /\ answer # Nothing THEN Answered(o) \cup {q} ELSE Answered(o)
      <4> HIDE DEF opt
      <4> HIDE DEF q
      <4>1. opt = Questions[q]
        BY DEF opt, q
      <4> QED BY <1>2, <1>4, <1>11, <4>1 DEF Answered
    <3>5. o = opt => Answered(o) = {}
      <4>1. ASSUME o = opt, NEW i \in Answered(o) PROVE FALSE
        <5>1. i \in 1..Len(answers) /\ Questions[i] = opt
          BY <1>4, <4>1 DEF Answered
        <5>2. i \in DOMAIN Questions /\ i # q
          <6>1. i \in 1..q /\ i # q
            <7> HIDE DEF q
            <7> QED BY <1>11, <5>1
          <6>2. 1..q \subseteq DOMAIN Questions
            <7>1. q \in 1..Len(Questions) /\ Len(Questions) \in Nat
              BY <1>5, QuestionsOK
            <7> HIDE DEF q
            <7> QED BY <7>1, QuestionsOK
          <6> QED BY <6>1, <6>2
        <5> HIDE DEF q
        <5> QED BY <1>5, <5>1, <5>2, QuestionsApart DEF opt
      <4> QED BY <4>1
    <3>6. CASE o = opt /\ answer # Nothing
      <4>1. setting'[o] = answer
        <5> HIDE DEF opt, q
        <5> QED BY <1>0, <1>1, <1>5, <3>6 DEF WordsInv, Kept
      <4>2. q \in Answered(o)' /\ answers'[q] = setting'[o]
        BY <1>4, <3>4, <3>6, <4>1
      <4> HIDE DEF q
      <4> QED BY <4>2 DEF Said
    <3>7. CASE ~(o = opt /\ answer # Nothing)
      <4>1. setting'[o] = setting[o]
        <5> HIDE DEF opt, q
        <5> QED BY <1>0, <1>1, <1>5, <3>7 DEF WordsInv, Kept
      <4>2. Answered(o)' = Answered(o)
        BY <3>4, <3>7
      <4>3. CASE Answered(o) = {}
        <5> DEFINE v == setting[o]
        <5>1. OnLine(o, v) /\ v' = v
          BY <3>1, <4>1, <4>3 DEF Said
        <5> HIDE DEF v
        <5>2. OnLine(o, v)'
          BY <3>3, <5>1
        <5>3. OnLine(o, setting[o])'
          BY <5>2 DEF v
        <5> QED BY <4>2, <4>3, <5>3 DEF Said
      <4>4. CASE Answered(o) # {}
        <5>1. PICK i \in Answered(o) : setting[o] = answers[i]
          BY <3>1, <4>4 DEF Said
        <5>2. answers'[i] = answers[i]
          BY <1>4 DEF Answered
        <5> QED BY <4>1, <4>2, <5>1, <5>2 DEF Said
      <4> QED BY <4>3, <4>4
    <3> QED BY <3>6, <3>7
  <2> QED BY <1>2, <2>1, <2>2 DEF SettingsInv
<1>9. StageInv'
  <2>1. cmds = Len(argv)
    BY <1>0, <1>1 DEF StageInv
  <2> HIDE DEF q
  <2>2. answers' # <<>>
    BY <1>4, <1>11
  <2>3. at' = "prompt" => Len(answers') < Len(Questions)
    <3>1. q \in 1..Len(Questions) /\ Len(Questions) \in Nat
      BY <1>5, QuestionsOK
    <3> QED BY <1>1, <1>4, <3>1
  <2> QED BY <1>1, <1>2, <1>3, <2>1, <2>2, <2>3 DEF StageInv, Parsing, Converted
<1>10. PortInv'
  BY <1>1 DEF PortInv, Converted
<1> QED BY <1>6, <1>7, <1>8, <1>9, <1>10 DEF SettingInv

LEMMA DefaultsStep ==
  ASSUME SettingInv, ServerDefaults \/ ClientDefaults
  PROVE  SettingInv'
<1>0. WordsInv /\ FlagsInv /\ SettingsInv /\ StageInv
  BY DEF SettingInv
<1>1. /\ at = "default" /\ at' = "convert"
      /\ setting' = [o \in Options |-> Defaulted(o, setting[o])]
      /\ UNCHANGED <<input, cmds, flags, fport, answers>>
  <2>1. CASE ServerDefaults
    BY <2>1 DEF ServerDefaults, SetDefaults, Defaulted, Default
  <2>2. CASE ClientDefaults
    BY <2>2 DEF ClientDefaults, SetDefaults, Defaulted, Default
  <2> QED BY <2>1, <2>2
<1>2. /\ argv' = argv /\ Options' = Options /\ program' = program /\ cmds' = cmds
      /\ answers' = answers /\ fail' = fail /\ showhelp' = showhelp /\ prompt' = prompt
      /\ Refused' = Refused /\ Default' = Default
  BY <1>1, SameInput DEF flags, Refused
<1>3. ~Refused /\ ~fail
  BY <1>0, <1>1 DEF StageInv, Refused
<1>4. ASSUME NEW o \in Options PROVE setting'[o] = Defaulted(o, setting[o])
  BY <1>1
<1>5. WordsInv' /\ FlagsInv'
  <2>1. setting' = [o \in Options' |-> setting'[o]]
    BY <1>1, <1>2
  <2> QED BY <1>0, <1>1, <2>1, AfterWords, AfterFlags
<1>6. SettingsInv'
  <2>1. ASSUME NEW o \in Options
        PROVE  \E v : Said(o, v)' /\ setting'[o] = Defaulted(o, v)'
    <3> DEFINE w == setting[o]
    <3>1. PICK v : v = w
      OBVIOUS
    <3>2. Said(o, v)
      BY <1>0, <1>1, <1>3, <3>1 DEF SettingsInv, Parsing
    <3>3. Said(o, v)'
      BY <1>1, <3>2, AfterSaid
    <3>4. setting'[o] = Defaulted(o, v)'
      BY <1>2, <1>4, <3>1 DEF Defaulted
    <3> QED BY <3>3, <3>4
  <2>2. at' \notin Parsing
    BY <1>1 DEF Parsing
  <2> QED BY <1>2, <2>1, <2>2 DEF SettingsInv
<1>7. StageInv'
  BY <1>0, <1>1, <1>2, <1>3 DEF StageInv, Parsing, Converted
<1>8. PortInv'
  BY <1>1 DEF PortInv, Converted
<1> QED BY <1>5, <1>6, <1>7, <1>8 DEF SettingInv

\* The steps of the constructor and the conversion leave all settings alone.
Settles ==
  /\ at \in {"convert", "construct", "connect"}
  /\ at' \in Converted \cup {"exit1"}
  /\ UNCHANGED <<input, cmds, setting, flags, answers>>

LEMMA SettlesKeeps ==
  ASSUME SettingInv, Settles
  PROVE  WordsInv' /\ FlagsInv' /\ SettingsInv' /\ ~Refused'
<1>0. WordsInv /\ FlagsInv /\ SettingsInv /\ StageInv
  BY DEF SettingInv
<1>2. /\ argv' = argv /\ Options' = Options /\ program' = program /\ cmds' = cmds
      /\ answers' = answers /\ setting' = setting /\ Refused' = Refused
      /\ Default' = Default
  BY SameInput DEF Settles, flags, Refused
<1>3. at \notin Parsing /\ at' \notin Parsing /\ at' # "parse" /\ ~Refused
  BY <1>0 DEF Settles, Parsing, Converted, StageInv
<1>5. WordsInv' /\ FlagsInv'
  <2>1. setting' = [o \in Options' |-> setting'[o]]
    BY <1>0, <1>2 DEF WordsInv
  <2> QED BY <1>0, <1>3, <2>1, AfterWords, AfterFlags DEF Settles
<1>6. SettingsInv'
  <2>1. ASSUME NEW o \in Options
        PROVE  \E v : Said(o, v)' /\ setting'[o] = Defaulted(o, v)'
    <3>1. PICK v : Said(o, v) /\ setting[o] = Defaulted(o, v)
      BY <1>0, <1>3 DEF SettingsInv
    <3>2. UNCHANGED <<input, cmds, answers>>
      BY DEF Settles
    <3>3. Said(o, v)'
      BY <3>1, <3>2, AfterSaid
    <3>4. setting'[o] = Defaulted(o, v)'
      BY <1>2, <3>1 DEF Defaulted
    <3> QED BY <3>3, <3>4
  <2> QED BY <1>2, <1>3, <2>1 DEF SettingsInv
<1> QED BY <1>2, <1>3, <1>5, <1>6

LEMMA LastStep ==
  ASSUME SettingInv,
         ServerConverts \/ ClientConverts \/ ServerConstructs \/ ClientConstructs
           \/ ClientConnects
  PROVE  SettingInv'
<1>0. WordsInv /\ StageInv /\ PortInv
  BY DEF SettingInv
<1>1. CASE ServerConverts \/ ClientConverts
  <2>1. /\ at = "convert"
        /\ at' = IF StouThrows(setting["--port"]) THEN "exit1" ELSE "construct"
        /\ fport' = IF StouThrows(setting["--port"]) THEN fport ELSE Stou(setting["--port"])
        /\ UNCHANGED <<input, cmds, setting, flags, answers>>
    BY <1>1 DEF ServerConverts, ClientConverts, ConvertPort
  <2>2. Settles
    BY <2>1 DEF Settles, Converted
  <2>3. WordsInv' /\ FlagsInv' /\ SettingsInv' /\ ~Refused'
    BY <2>2, SettlesKeeps
  <2>4. /\ argv' = argv /\ cmds' = cmds /\ setting' = setting /\ answers' = answers
        /\ prompt' = prompt
    BY <2>1 DEF input, flags
  <2>5. cmds = Len(argv) /\ (prompt <=> answers # <<>>)
    BY <1>0, <2>1 DEF StageInv
  <2>6. StageInv'
    BY <2>1, <2>3, <2>4, <2>5 DEF StageInv, Parsing, Converted
  <2>7. PortInv'
    BY <2>1, <2>4 DEF PortInv, Converted
  <2> QED BY <2>3, <2>6, <2>7 DEF SettingInv
<1>2. CASE ServerConstructs \/ ClientConstructs \/ ClientConnects
  <2>1. /\ at \in {"construct", "connect"} /\ at' \in {"connect", "ready", "exit0"}
        /\ UNCHANGED <<input, cmds, setting, flags, fport, answers>>
    BY <1>2 DEF ServerConstructs, ClientConstructs, ClientConnects, Checked
  <2>2. Settles
    BY <2>1 DEF Settles, Converted
  <2>3. WordsInv' /\ FlagsInv' /\ SettingsInv' /\ ~Refused'
    BY <2>2, SettlesKeeps
  <2>4. /\ argv' = argv /\ cmds' = cmds /\ setting' = setting /\ answers' = answers
        /\ prompt' = prompt /\ program' = program /\ fport' = fport
    BY <2>1 DEF input, flags
  <2>5. cmds = Len(argv) /\ (prompt <=> answers # <<>>)
    BY <1>0, <2>1 DEF StageInv
  <2>6. StageInv'
    BY <2>1, <2>3, <2>4, <2>5 DEF StageInv, Parsing, Converted
  <2>7. /\ at' = "connect" => program = "client"
        /\ at' \in {"connect", "ready"} =>
             IsPortValid(fport) /\ setting["--addr"] \in Addresses[program]
        /\ at' = "exit0" /\ program = "server" =>
             ~IsPortValid(fport) \/ setting["--addr"] \notin Addresses[program]
    <3>1. CASE ServerConstructs \/ ClientConstructs
      BY <3>1 DEF ServerConstructs, ClientConstructs, Checked
    <3>2. CASE ClientConnects
      BY <1>0, <3>2 DEF ClientConnects, PortInv
    <3> QED BY <1>2, <3>1, <3>2
  <2>8. ~StouThrows(setting["--port"]) /\ fport = Stou(setting["--port"])
    BY <1>0, <2>1 DEF PortInv, Converted
  <2>9. PortInv'
    BY <2>1, <2>4, <2>7, <2>8 DEF PortInv, Converted, IsPortValid
  <2> QED BY <2>3, <2>6, <2>9 DEF SettingInv
<1> QED BY <1>1, <1>2

LEMMA InitSetting == Init => SettingInv
<1> SUFFICES ASSUME Init PROVE SettingInv
  OBVIOUS
<1>1. PICK n \in 0..MaxWords[program] : argv \in [1..n -> Words]
  BY DEF Init
<1>2. n \in Nat /\ Len(argv) = n /\ program \in Programs
  <2>1. MaxWords[program] \in Nat
    BY ProgramAssumption DEF Init
  <2>2. n \in Nat
    BY <2>1
  <2> QED BY <1>1, <2>2 DEF Init
<1>3. /\ at = "parse" /\ cmds = 0 /\ answers = <<>> /\ prompt /\ ~showhelp /\ ~fail
      /\ prompt = TRUE /\ showhelp = FALSE /\ fail = FALSE
      /\ setting = [o \in Options |-> null]
  BY DEF Init
<1>4. WordsInv
  <2>1. setting = [o \in Options |-> setting[o]]
    BY <1>3
  <2>2. answers \in Seq({Nothing} \cup Plain) /\ Len(answers) <= Len(Questions)
    BY <1>3, QuestionsOK
  <2>3. Len(argv) \in Nat /\ argv \in [1..Len(argv) -> Words] /\ cmds \in 0..Len(argv)
    BY <1>1, <1>2, <1>3
  <2> QED BY <1>2, <1>3, <2>1, <2>2, <2>3 DEF WordsInv
<1>5. \A S : S \subseteq 1..Len(argv) => \A i \in S : i > 0 /\ ~(i <= 0)
  BY <1>2
<1>6. FlagsInv
  <2>1. Bad \subseteq 1..Len(argv) /\ Helps \subseteq 1..Len(argv)
        /\ Given(NoPrompt) \subseteq 1..Len(argv)
    BY SetsOfPositions
  <2>2. IsOption[0 + 1]
    BY <1>2, OptionAt
  <2> QED BY <1>3, <1>5, <2>1, <2>2 DEF FlagsInv
<1>7. SettingsInv
  <2>1. ASSUME NEW o \in Options PROVE Said(o, setting[o])
    <3>1. Answered(o) = {} /\ setting[o] = null
      BY <1>3 DEF Answered
    <3>2. \A i \in Given(o) : i > cmds
      BY <1>3, <1>5, SetsOfPositions
    <3> QED BY <3>1, <3>2 DEF Said, OnLine
  <2> QED BY <1>3, <2>1 DEF SettingsInv, Parsing
<1>8. StageInv /\ PortInv
  BY <1>3 DEF StageInv, PortInv, Parsing, Converted
<1> QED BY <1>4, <1>6, <1>7, <1>8 DEF SettingInv

LEMMA NextSetting == SettingInv /\ [Next]_vars => SettingInv'
<1> SUFFICES ASSUME SettingInv, [Next]_vars PROVE SettingInv'
  OBVIOUS
<1>1. CASE ParseLongCommands
  BY <1>1, ScanStep
<1>2. CASE EndParse
  BY <1>2, EndParseStep
<1>3. ASSUME NEW answer \in {Nothing} \cup Plain, ServerAsks(answer) \/ ClientAsks(answer)
      PROVE  SettingInv'
  <2>1. Answer(answer)
    BY <1>3 DEF ServerAsks, ClientAsks
  <2> QED BY <2>1, AnswerStep
<1>4. CASE ServerDefaults \/ ClientDefaults
  BY <1>4, DefaultsStep
<1>5. CASE \/ ServerConverts \/ ClientConverts \/ ServerConstructs \/ ClientConstructs
           \/ ClientConnects
  BY <1>5, LastStep
<1>6. CASE UNCHANGED vars
  <2>1. UNCHANGED <<input, cmds, flags, answers>> /\ setting' = setting /\ at' = at
        /\ fport' = fport
    BY <1>6 DEF vars
  <2>2. /\ argv' = argv /\ Options' = Options /\ program' = program /\ cmds' = cmds
        /\ answers' = answers /\ fail' = fail /\ showhelp' = showhelp /\ prompt' = prompt
        /\ Refused' = Refused /\ Default' = Default /\ Questions' = Questions
        /\ IsOption' = IsOption
    BY <2>1, SameInput DEF flags, Refused
  <2>3. WordsInv'
    <3>1. setting' = [o \in Options' |-> setting'[o]]
      BY <2>1, <2>2 DEF WordsInv, SettingInv
    <3> QED BY <2>1, <3>1, AfterWords DEF SettingInv
  <2>4. FlagsInv'
    <3>1. /\ Bad' = Bad /\ Helps' = Helps /\ NoPrompt' = NoPrompt
          /\ Given(NoPrompt)' = Given(NoPrompt)
      BY <2>1, SameInput
    <3> QED BY <2>1, <2>2, <3>1 DEF FlagsInv, SettingInv
  <2>5. SettingsInv'
    <3>1. ASSUME at \in Parsing, ~fail, NEW o \in Options PROVE Said(o, setting[o])'
      <4> DEFINE v == setting[o]
      <4>1. Said(o, v) /\ v' = v
        BY <2>1, <3>1 DEF SettingInv, SettingsInv
      <4> HIDE DEF v
      <4>2. Said(o, v)'
        BY <2>1, <4>1, AfterSaid
      <4> QED BY <4>2 DEF v
    <3>2. ASSUME at \notin Parsing, ~Refused, NEW o \in Options
          PROVE  \E v : Said(o, v)' /\ setting'[o] = Defaulted(o, v)'
      <4>1. PICK v : Said(o, v) /\ setting[o] = Defaulted(o, v)
        BY <3>2 DEF SettingInv, SettingsInv
      <4>2. Said(o, v)'
        BY <2>1, <4>1, AfterSaid
      <4>3. setting'[o] = Defaulted(o, v)'
        BY <2>1, <2>2, <4>1 DEF Defaulted
      <4> QED BY <4>2, <4>3
    <3> QED BY <2>1, <2>2, <3>1, <3>2 DEF SettingsInv
  <2>6. StageInv' /\ PortInv'
    BY <2>1, <2>2 DEF StageInv, PortInv, SettingInv, StouThrows, StoulThrows, Stou, Stoul,
                      IsPortValid
  <2> QED BY <2>3, <2>4, <2>5, <2>6 DEF SettingInv
<1> QED BY <1>1, <1>2, <1>3, <1>4, <1>5, <1>6 DEF Next

(***************************************************************************)
(* What the properties say at the end.                                     *)
(***************************************************************************)
\* The settings said, with the defaults, are those that were meant.
LEMMA MeantIs ==
  ASSUME WordsInv, cmds = Len(argv), NEW o \in Options, NEW v, Said(o, v),
         ~EnterOverGiven(o)
  PROVE  Meant(o) = Defaulted(o, v)
<1>0. /\ Answered(o) = {q \in Asked(o) : answers[q] # Nothing}
      /\ Given(o) # {} /\ Answered(o) = {} => Asked(o) = {}
  BY DEF Answered, Asked, EnterOverGiven
<1>1. Meant(o) = CASE Answered(o) # {} -> answers[CHOOSE q \in Asked(o) : TRUE]
                   [] Asked(o) = {} /\ Given(o) # {} ->
                        argv[1 + CHOOSE i \in Given(o) : \A j \in Given(o) : j <= i]
                   [] OTHER -> Default[o]
  <2>1. Answered(o) # {} <=> \E q \in Asked(o) : answers[q] # Nothing
    BY <1>0
  <2> QED BY <2>1 DEF Meant, Default
<1>2. CASE Answered(o) # {}
  <2>1. PICK p \in Answered(o) : v = answers[p]
    BY <1>2 DEF Said
  <2> DEFINE r == CHOOSE q \in Asked(o) : TRUE
  <2>2. r \in Asked(o)
    BY <1>0, <1>2
  <2>3. Meant(o) = answers[r]
    BY <1>0, <1>1, <1>2
  <2> HIDE DEF r
  <2>4. answers \in Seq({Nothing} \cup Plain) /\ Len(answers) <= Len(Questions)
    BY DEF WordsInv
  <2>5. DOMAIN answers \subseteq DOMAIN Questions
    BY <2>4, QuestionsOK
  <2>6. p = r
    BY <1>0, <2>2, <2>5, QuestionsApart DEF Asked
  <2>7. v \in Plain
    BY <2>1, <2>4 DEF Answered
  <2>8. v # null
    BY <2>7, WordsApart DEF WordsInv
  <2> QED BY <2>1, <2>3, <2>6, <2>8 DEF Defaulted
<1>3. CASE Answered(o) = {}
  <2>0. OnLine(o, v) /\ Given(o) \subseteq 1..Len(argv) /\ Len(argv) \in Nat
    BY <1>3, SetsOfPositions DEF Said, WordsInv
  <2>1. CASE v = null /\ \A i \in Given(o) : i > cmds
    <3>1. Given(o) = {}
      BY <2>0, <2>1
    <3>2. Meant(o) = Default[o]
      BY <1>0, <1>1, <1>3, <3>1
    <3> QED BY <2>1, <3>2 DEF Defaulted
  <2>2. ASSUME NEW i \in Given(o),
               i + 1 <= cmds /\ v = argv[i + 1] /\ \A j \in Given(o) : j <= cmds => j <= i
        PROVE  Meant(o) = Defaulted(o, v)
    <3> DEFINE last == CHOOSE k \in Given(o) : \A j \in Given(o) : j <= k
    <3>1. \A j \in Given(o) : j <= i
      BY <2>0, <2>2
    <3>2. last \in Given(o) /\ \A j \in Given(o) : j <= last
      BY <3>1
    <3>3. Meant(o) = argv[1 + last]
      BY <1>0, <1>1, <1>3, <2>2
    <3> HIDE DEF last
    <3>4. last = i
      BY <2>0, <3>1, <3>2
    <3>5. 1 + last = i + 1 /\ i + 1 \in 1..Len(argv)
      BY <2>0, <2>2, <3>4
    <3>6. v \in Words
      BY <2>2, <3>5 DEF WordsInv
    <3>7. v # null
      BY <3>6, WordsApart DEF WordsInv
    <3> QED BY <2>2, <3>3, <3>5, <3>7 DEF Defaulted
  <2> QED BY <2>0, <2>1, <2>2 DEF OnLine
<1> QED BY <1>2, <1>3

LEMMA SettingsMeant ==
  ASSUME SettingInv, at \notin Parsing, ~Refused
  PROVE  \A o \in Options : EnterOverGiven(o) \/ setting[o] = Meant(o)
<1>1. WordsInv /\ SettingsInv /\ cmds = Len(argv)
  BY DEF SettingInv, StageInv, Parsing
<1>2. ASSUME NEW o \in Options, ~EnterOverGiven(o) PROVE setting[o] = Meant(o)
  <2>1. PICK v : Said(o, v) /\ setting[o] = Defaulted(o, v)
    BY <1>1 DEF SettingsInv
  <2> QED BY <1>1, <1>2, <2>1, MeantIs
<1> QED BY <1>2

LEMMA SmallMod ==
  ASSUME NEW m \in Nat, NEW i \in 0..(m - 1)
  PROVE  i % m = i
OBVIOUS

LEMMA NegativeMod ==
  ASSUME NEW m \in Nat, NEW i \in (1 - m)..(-1)
  PROVE  i % m = i + m
OBVIOUS

\* A number that is converted without an exception is the port, or has it as its
\* complement; a number of a uint_t is converted.
LEMMA PortOf ==
  ASSUME NEW w, ~StouThrows(w)
  PROVE  /\ Stou(w) \in 0..(IntRange - 1)
         /\ w \in DOMAIN Number /\ Number[w] \in {Stou(w), Stou(w) - LongRange}
<1>1. /\ LongRange \in Nat \ {0} /\ IntRange \in Nat \ {0} /\ IntRange <= LongRange
      /\ MIN_PORT_ALLOWED \in 0..(IntRange - 1) /\ MAX_PORT_ALLOWED \in 0..(IntRange - 1)
  BY ProgramAssumption
<1>2. w \in DOMAIN Number /\ Number[w] \in (1 - LongRange)..(LongRange - 1)
      /\ ~(Number[w] % LongRange > IntRange - 1)
  BY DEF StouThrows, StoulThrows, Stoul
<1> DEFINE x == Number[w]
           l == LongRange
           d == IntRange
           s == x % l
<1>3. \/ x \in 0..(l - 1) /\ s = x
      \/ x \in (1 - l)..(-1) /\ s = x + l
  <2>1. x \in 0..(l - 1) \/ x \in (1 - l)..(-1)
    BY <1>1, <1>2
  <2> QED BY <1>1, <2>1, SmallMod, NegativeMod
<1>4. Stou(w) = s % d
  BY DEF Stou, Stoul
<1>5. l \in Nat /\ d \in Nat /\ d >= 1 /\ l >= 1 /\ d <= l /\ ~(s > d - 1)
  BY <1>1, <1>2
<1> HIDE DEF x, l, d, s
<1>6. s \in 0..(d - 1)
  BY <1>3, <1>5
<1>7. Stou(w) = s
  BY <1>4, <1>5, <1>6, SmallMod
<1>8. x = s \/ x = s - l
  BY <1>3, <1>5
<1> QED BY <1>2, <1>6, <1>7, <1>8 DEF x, l, d

LEMMA IsConverted ==
  ASSUME NEW w, w \in DOMAIN Number, Number[w] \in 0..(IntRange - 1)
  PROVE  ~StouThrows(w)
<1>1. LongRange \in Nat \ {0} /\ IntRange \in Nat \ {0} /\ IntRange <= LongRange
  BY ProgramAssumption
<1>2. Number[w] \in 0..(LongRange - 1) /\ Number[w] \in (1 - LongRange)..(LongRange - 1)
  BY <1>1
<1>3. Number[w] % LongRange = Number[w]
  BY <1>1, <1>2, SmallMod
<1> QED BY <1>1, <1>2, <1>3 DEF StouThrows, StoulThrows, Stoul

LEMMA RefusedIsWrong ==
  ASSUME SettingInv, cmds = Len(argv)
  PROVE  /\ Refused <=> \E i \in 1..Len(argv) : Wrong(i)
         /\ prompt <=> Given(NoPrompt) = {}
<1>1. /\ FlagsInv /\ Len(argv) \in Nat
      /\ Bad \subseteq 1..Len(argv) /\ Helps \subseteq 1..Len(argv)
      /\ Given(NoPrompt) \subseteq 1..Len(argv)
  BY SetsOfPositions DEF SettingInv, WordsInv
<1>2. ASSUME NEW i \in 1..Len(argv) PROVE Wrong(i) <=> i \in Bad \/ i \in Helps
  BY BadIs DEF Wrong, Helps
<1>3. fail <=> Bad # {}
  <2>1. fail <=> \E i \in Bad : i <= cmds
    BY <1>1 DEF FlagsInv
  <2>2. \A i \in Bad : i <= cmds
    BY <1>1
  <2> QED BY <2>1, <2>2
<1>4. showhelp <=> Helps # {}
  <2>1. showhelp <=> \E i \in Helps : i <= cmds
    BY <1>1 DEF FlagsInv
  <2>2. \A i \in Helps : i <= cmds
    BY <1>1
  <2> QED BY <2>1, <2>2
<1>5. prompt <=> Given(NoPrompt) = {}
  BY <1>1 DEF FlagsInv
<1> QED BY <1>1, <1>2, <1>3, <1>4, <1>5 DEF Refused

LEMMA StartsWell == SettingInv => StartsAsMeant
<1> SUFFICES ASSUME SettingInv PROVE StartsAsMeant
  OBVIOUS
<1>1. ASSUME at \in {"ready", "exit0", "exit1"}, \A i \in 1..Len(argv) : ~Wrong(i)
      PROVE  /\ \A o \in Options : EnterOverGiven(o) \/ setting[o] = Meant(o)
             /\ (answers = <<>>) <=> (Given(NoPrompt) # {})
  <2>1. cmds = Len(argv) /\ at \notin Parsing
    BY <1>1 DEF SettingInv, StageInv, Parsing
  <2>2. ~Refused /\ (prompt <=> Given(NoPrompt) = {})
    BY <1>1, <2>1, RefusedIsWrong
  <2>3. prompt <=> answers # <<>>
    BY <2>1, <2>2 DEF SettingInv, StageInv, Parsing
  <2> QED BY <2>1, <2>2, <2>3, SettingsMeant
<1>2. ASSUME at = "ready"
      PROVE  /\ fport \in MIN_PORT_ALLOWED..MAX_PORT_ALLOWED
             /\ PortTyped({fport}) \/ PortTyped(Int \ Nat)
  <2>1. /\ ~StouThrows(setting["--port"]) /\ fport = Stou(setting["--port"])
        /\ IsPortValid(fport)
    BY <1>2 DEF SettingInv, PortInv, Converted
  <2>2. /\ fport \in 0..(IntRange - 1) /\ setting["--port"] \in DOMAIN Number
        /\ Number[setting["--port"]] \in {fport, fport - LongRange}
    BY <2>1, PortOf
  <2>3. /\ MIN_PORT_ALLOWED \in Nat /\ MAX_PORT_ALLOWED \in Nat
        /\ IntRange \in Nat /\ LongRange \in Nat /\ IntRange <= LongRange
    BY ProgramAssumption
  <2>4. fport \in MIN_PORT_ALLOWED..MAX_PORT_ALLOWED
    BY <2>1, <2>2, <2>3 DEF IsPortValid
  <2>5. fport - LongRange \in Int \ Nat
    BY <2>2, <2>3
  <2> QED BY <2>2, <2>4, <2>5 DEF PortTyped
<1> QED BY <1>1, <1>2 DEF StartsAsMeant

LEMMA GivesUpWell == SettingInv => GivesUpForAReason
<1> SUFFICES ASSUME SettingInv PROVE GivesUpForAReason
  OBVIOUS
<1>1. ASSUME at \in {"exit0", "exit1", "ready"}
      PROVE  Refused <=> \E i \in 1..Len(argv) : Wrong(i)
  <2>1. cmds = Len(argv)
    BY <1>1 DEF SettingInv, StageInv
  <2> QED BY <2>1, RefusedIsWrong
<1>2. ASSUME at = "exit1"
      PROVE  (\E i \in 1..Len(argv) : Wrong(i)) \/ ~PortTyped(0..(IntRange - 1))
  <2>1. Refused \/ StouThrows(setting["--port"])
    BY <1>2 DEF SettingInv, StageInv
  <2>2. PortTyped(0..(IntRange - 1)) => ~StouThrows(setting["--port"])
    BY IsConverted DEF PortTyped
  <2> QED BY <1>1, <1>2, <2>1, <2>2
<1>3. ASSUME at \in {"exit0", "ready"} PROVE \A i \in 1..Len(argv) : ~Wrong(i)
  <2>1. ~Refused
    BY <1>3 DEF SettingInv, StageInv
  <2> QED BY <1>1, <1>3, <2>1
<1>4. ASSUME program = "server", at = "exit0",
             PortTyped(MIN_PORT_ALLOWED..MAX_PORT_ALLOWED)
      PROVE  setting["--addr"] \notin Addresses["server"]
  <2>1. /\ ~StouThrows(setting["--port"]) /\ fport = Stou(setting["--port"])
        /\ ~IsPortValid(fport) \/ setting["--addr"] \notin Addresses["server"]
    BY <1>4 DEF SettingInv, PortInv, Converted
  <2>2. /\ fport \in 0..(IntRange - 1)
        /\ Number[setting["--port"]] \in {fport, fport - LongRange}
    BY <2>1, PortOf
  <2>3. /\ MIN_PORT_ALLOWED \in Nat /\ MAX_PORT_ALLOWED \in Nat
        /\ IntRange \in Nat /\ LongRange \in Nat /\ IntRange <= LongRange
    BY ProgramAssumption
  <2>4. Number[setting["--port"]] \in MIN_PORT_ALLOWED..MAX_PORT_ALLOWED
    BY <1>4 DEF PortTyped
  <2>5. fport = Number[setting["--port"]]
    BY <2>2, <2>3, <2>4
  <2>6. IsPortValid(fport)
    BY <2>3, <2>4, <2>5 DEF IsPortValid
  <2> QED BY <2>1, <2>6
<1> QED BY <1>2, <1>3, <1>4 DEF GivesUpForAReason

\* parseLongCommands steps back when the value of the last option is missing,
\* so the loop of main() always meets the end of argv and never passes it.
THEOREM ScanStaysInArgv == Spec => []InArgv
<1>1. SettingInv => InArgv
  BY DEF SettingInv, WordsInv, InArgv, End
<1> QED BY InitSetting, NextSetting, <1>1, PTL DEF Spec

\* Whatever the words and the answers are, a program that starts, or that gives
\* up on its port or address, has the settings that were meant, and it starts on
\* the port that was typed; except where Enter is pressed over a value of the
\* command line and where the port typed is negative.
THEOREM StartsWithSettings == Spec => []StartsAsMeant
BY InitSetting, NextSetting, StartsWell, PTL DEF Spec

\* A program gives up with an error only for a wrong word, for help or for a port
\* that is no number of a uint_t, and never starts with a wrong word or help; the
\* server throws for its port or address only.
THEOREM GivesUpRightly == Spec => []GivesUpForAReason
BY InitSetting, NextSetting, GivesUpWell, PTL DEF Spec
=============================================================================

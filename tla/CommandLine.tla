---------------------------- MODULE CommandLine ----------------------------
(***************************************************************************)
(* How a program gets its settings, from main() to the end of the checks   *)
(* in the constructor of Server or Client: the words of the command line,  *)
(* then the answers to the prompts, then the defaults.  Server/Main.cpp    *)
(* and Client/Main.cpp are the same program with different options.        *)
(***************************************************************************)
EXTENDS Integers, Sequences, SequencesExt, TLC

CONSTANTS
  Plain,     \* words without dashes: values, and arguments typed by mistake
  Number,    \* the integer at the start of those words that start with one
  LongRange, IntRange,  \* values of an unsigned long and of a uint_t
  MIN_PORT_ALLOWED, MAX_PORT_ALLOWED,
  Addresses, \* of each program: the words inet_addr() or inet_pton() converts
  MaxWords   \* bound: words of the command line of each program

ServerOptions == <<"--addr", "--port", "--database">>
ClientOptions == <<"--addr", "--port", "--user", "--pass">>
Programs == {"server", "client"}
null == "null"
Nothing == ""  \* the user only presses Enter

ASSUME ProgramAssumption ==
  /\ Plain \cap (Range(ServerOptions) \cup Range(ClientOptions) \cup
                 {"--nopromt", "--noprompt", "--help", "--other", null}) = {}
  /\ DOMAIN Number \subseteq Plain /\ \A w \in DOMAIN Number : Number[w] \in Int
  /\ {LongRange, IntRange} \subseteq Nat \ {0} /\ IntRange <= LongRange
  /\ {MIN_PORT_ALLOWED, MAX_PORT_ALLOWED} \subseteq 0..(IntRange - 1)
  /\ MaxWords \in [Programs -> Nat]

VARIABLES
  program,  \* which of the two programs runs
  at,       \* "parse", "prompt", "default", "convert", "construct", "connect", or
            \* how main() goes on: "ready", "exit1" and, for an exception, "exit0"
  argv,     \* the words after the name of the executable
  cmds,     \* the index in argv of the word parsed last
  setting,  \* addr, port, database, user, pass
  prompt, showhelp, fail,
  fport,    \* the port as a number, 0 before it is converted
  answers   \* the answers to the prompts
input == <<program, argv>>
flags == <<prompt, showhelp, fail>>
vars == <<at, input, cmds, setting, flags, fport, answers>>

Questions == IF program = "server" THEN ServerOptions ELSE ClientOptions
Options == Range(Questions)
NoPrompt == IF program = "server" THEN "--nopromt" ELSE "--noprompt"
Words == Options \cup {NoPrompt, "--help", "--other"} \cup Plain

Init ==
  /\ at = "parse" /\ program \in Programs
  /\ argv \in UNION {[1..n -> Words] : n \in 0..MaxWords[program]}
  /\ cmds = 0
  /\ setting = [o \in Options |-> null]
  /\ prompt = TRUE /\ showhelp = FALSE /\ fail = FALSE
  /\ fport = 0 /\ answers = <<>>

\* while(++cmds != argv): the loop only ends when it meets the end exactly.
\* What it would read beyond the end is not modelled: InArgv excludes it.
End == Len(argv) + 1
Word(w) == at = "parse" /\ cmds + 1 # End /\ cmds < Len(argv) /\ argv[cmds + 1] = w
Parsed(i) == cmds' = i /\ UNCHANGED <<at, input, fport, answers>>

DisablePrompt ==
  /\ Word(NoPrompt) /\ Parsed(cmds + 1)
  /\ prompt' = FALSE /\ UNCHANGED <<setting, showhelp, fail>>

Help ==
  /\ Word("--help") /\ Parsed(cmds + 1)
  /\ showhelp' = TRUE /\ UNCHANGED <<setting, prompt, fail>>

Invalid ==
  /\ \E w \in Plain \cup {"--other"} : Word(w)
  /\ Parsed(cmds + 1)
  /\ fail' = TRUE /\ UNCHANGED <<setting, prompt, showhelp>>

SetOption(o) ==
  /\ Word(o) /\ cmds + 2 # End
  /\ setting' = [setting EXCEPT ![o] = argv[cmds + 2]]
  /\ Parsed(cmds + 2) /\ UNCHANGED flags

BackFrom_Stays(i) == i      \* mutant: return cmds
BackFrom(i) == i - 1        \* return --cmds

MissingValue(o) ==
  /\ Word(o) /\ cmds + 2 = End
  /\ fail' = TRUE /\ Parsed(BackFrom(cmds + 2))
  /\ UNCHANGED <<setting, prompt, showhelp>>

Refused_Help == showhelp    \* mutant: the test of fail is missing
Refused == showhelp \/ fail

EndParse ==
  /\ at = "parse" /\ cmds + 1 = End
  /\ at' = CASE Refused            -> "exit1"
             [] prompt /\ ~Refused -> "prompt"
             [] OTHER             -> "default"
  /\ UNCHANGED <<input, cmds, setting, flags, fport, answers>>

Kept(o, answer) == IF answer = Nothing THEN setting[o] ELSE answer

Answer(answer) ==
  LET o == Questions[Len(answers) + 1] IN
  /\ at = "prompt"
  /\ setting' = [setting EXCEPT ![o] = Kept(o, answer)]
  /\ answers' = Append(answers, answer)
  /\ at' = IF Len(answers') = Len(Questions) THEN "default" ELSE at
  /\ UNCHANGED <<input, cmds, flags, fport>>

ServerAsks(answer) == program = "server" /\ Answer(answer)
ClientAsks(answer) == program = "client" /\ Answer(answer)

ServerDefault ==
  ("--database" :> "data.bin") @@ ("--addr" :> "127.0.0.1") @@ ("--port" :> "5025")

ClientDefault ==
  ("--addr" :> "127.0.0.1") @@ ("--port" :> "5025")
    @@ ("--user" :> "system") @@ ("--pass" :> "1234567890")

SetDefaults(default) ==
  /\ at = "default" /\ at' = "convert"
  /\ setting' = [o \in Options |-> IF setting[o] = null THEN default[o] ELSE setting[o]]
  /\ UNCHANGED <<input, cmds, flags, fport, answers>>

ServerDefaults == program = "server" /\ SetDefaults(ServerDefault)
ClientDefaults == program = "client" /\ SetDefaults(ClientDefault)

\* stoul() reads the number at the start of a word, takes a negative one modulo
\* the range of its result, and throws if there is none or it is too large.
Stoul(w) == Number[w] % LongRange
StoulThrows(w) == w \notin DOMAIN Number \/ Number[w] \notin (1 - LongRange)..(LongRange - 1)

StouThrows_Never(w) == StoulThrows(w)  \* mutant: the range of a uint_t is not tested
StouThrows(w) == StoulThrows(w) \/ Stoul(w) > IntRange - 1
Stou(w) == Stoul(w) % IntRange

ConvertPort ==
  LET w == setting["--port"] IN
  /\ at = "convert"
  /\ at' = IF StouThrows(w) THEN "exit1" ELSE "construct"
  /\ fport' = IF StouThrows(w) THEN fport ELSE Stou(w)
  /\ UNCHANGED <<input, cmds, setting, flags, answers>>

ServerConverts == program = "server" /\ ConvertPort
ClientConverts == program = "client" /\ ConvertPort

IsPortValid(port) == port >= MIN_PORT_ALLOWED /\ port <= MAX_PORT_ALLOWED

\* The checks in the constructor, which throws what main() catches.
Checked(next) ==
  /\ at = "construct"
  /\ at' = IF IsPortValid(fport) /\ setting["--addr"] \in Addresses[program]
           THEN next ELSE "exit0"
  /\ UNCHANGED <<input, cmds, setting, flags, fport, answers>>

\* The server goes on with the database and its socket, see ServerProcess.
ServerConstructs == program = "server" /\ Checked("ready")
ClientConstructs == program = "client" /\ Checked("connect")

\* socket() and connect() succeed or throw.
ClientConnects ==
  /\ at = "connect" /\ at' \in {"ready", "exit0"}
  /\ UNCHANGED <<input, cmds, setting, flags, fport, answers>>

ParseLongCommands ==
  \/ DisablePrompt \/ Help \/ Invalid
  \/ \E o \in Options : SetOption(o) \/ MissingValue(o)

Next ==
  \/ ParseLongCommands \/ EndParse
  \/ \E answer \in {Nothing} \cup Plain : ServerAsks(answer) \/ ClientAsks(answer)
  \/ ServerDefaults \/ ServerConverts \/ ServerConstructs
  \/ ClientDefaults \/ ClientConverts \/ ClientConstructs \/ ClientConnects

Spec == Init /\ [][Next]_vars

(***************************************************************************)
(* What the words of a command line mean.                                  *)
(***************************************************************************)
\* The word at i is an option, not the value of the option before it, and not
\* the name of the executable at 0.
IsOption[i \in 0..End] == i > 0 /\ ~(IsOption[i - 1] /\ argv[i - 1] \in Options)

Given(o) == {i \in 1..Len(argv) : argv[i] = o /\ IsOption[i]}

\* The questions asked about o: none or one.
Asked(o) == {q \in DOMAIN answers : Questions[q] = o}

\* The value o is to get: the answer, "empty means default" (Server/Main.cpp:162,
\* Client/Main.cpp:132); if nothing is asked the last one given, else the default.
Meant(o) ==
  CASE \E q \in Asked(o) : answers[q] # Nothing -> answers[CHOOSE q \in Asked(o) : TRUE]
    [] Asked(o) = {} /\ Given(o) # {} ->
         argv[1 + CHOOSE i \in Given(o) : \A j \in Given(o) : j <= i]
    [] OTHER -> IF program = "server" THEN ServerDefault[o] ELSE ClientDefault[o]

\* The user gave o on the command line and then pressed Enter: the code keeps
\* what was given, where the prompt promises the default.
EnterOverGiven(o) == Given(o) # {} /\ \E q \in Asked(o) : answers[q] = Nothing

Wrong(i) ==
  IsOption[i] /\ \/ argv[i] \in Plain \cup {"--help", "--other"}
                 \/ argv[i] \in Options /\ i = Len(argv)

\* The scan never gets past the end of argv, which it would not notice: also
\* not when the value of the last option is missing.
InArgv == cmds < End

\* The word for the port is a number of S.
PortTyped(S) ==
  setting["--port"] \in DOMAIN Number /\ Number[setting["--port"]] \in S

\* A program that starts, or that gives up on its port or address only, has the
\* settings that were meant, however options, repeated options, values that look
\* like options and answers are mixed; it asks exactly if it was not told not to.
\* It starts with a port of the allowed range, and this is the number typed, not
\* one that a conversion made of another number.  Left out, because the code does
\* something else: Enter over a value of the command line, and a negative number,
\* which stoul() complements.
StartsAsMeant ==
  /\ at \in {"ready", "exit0", "exit1"} /\ (\A i \in 1..Len(argv) : ~Wrong(i)) =>
       /\ \A o \in Options : EnterOverGiven(o) \/ setting[o] = Meant(o)
       /\ (answers = <<>>) <=> (Given(NoPrompt) # {})
  /\ at = "ready" =>
       /\ fport \in MIN_PORT_ALLOWED..MAX_PORT_ALLOWED
       /\ PortTyped({fport}) \/ PortTyped(Int \ Nat)

\* It gives up with an error only for a wrong word, a request for help or a port
\* that is no number of a uint_t, and with a wrong word or help it never starts;
\* the server throws only for a port or an address that it cannot use.
GivesUpForAReason ==
  /\ at = "exit1" => \/ \E i \in 1..Len(argv) : Wrong(i)
                     \/ ~PortTyped(0..(IntRange - 1))
  /\ at \in {"exit0", "ready"} => \A i \in 1..Len(argv) : ~Wrong(i)
  /\ program = "server" /\ at = "exit0" =>
       \/ ~PortTyped(MIN_PORT_ALLOWED..MAX_PORT_ALLOWED)
       \/ setting["--addr"] \notin Addresses["server"]
=============================================================================

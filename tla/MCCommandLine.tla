--------------------------- MODULE MCCommandLine ---------------------------
EXTENDS CommandLine

\* Four words repeat an option with its value.
UpTo == [server |-> 4, client |-> 3]

\* With 100000 values of an unsigned long and 10000 of a uint_t, -94975 wraps to
\* 5025, and 15025 would be 5025 if it were cut.  stoul() stops at a dot.
Typed == ("5025" :> 5025) @@ ("15025" :> 15025) @@ ("-94975" :> -94975)
           @@ ("127.0.0.1" :> 127)

\* inet_addr() takes a single number, inet_pton() does not.
Convertible == [server |-> {"127.0.0.1", "5025", "15025"}, client |-> {"127.0.0.1"}]
=============================================================================

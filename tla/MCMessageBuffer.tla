-------------------------- MODULE MCMessageBuffer --------------------------
EXTENDS MessageBuffer

\* Strings of bytes; 0, 1 and 5 are bytes that could also be an id, a length
\* or the filler.
Empty == <<>>
One   == <<1>>
Two   == <<0, 5>>

Auth(n, p)       == [id |-> MSG_AUTH, name |-> n, pass |-> p]
Quit             == [id |-> MSG_QUIT]
Resp(s)          == [id |-> MSG_RESP, status |-> s]
ClientText(t)    == [id |-> MSG_CLIENT_TEXT, msg |-> t]
ServerText(n, t) == [id |-> MSG_SERVER_TEXT, addr |-> 3, port |-> 5, time |-> 13,
                     name |-> n, msg |-> t]

\* The largest messages: every string has Radix - 1 bytes.
Long == [i \in 1..(Radix - 1) |-> i % Radix]

MCToServer == {Auth(One, Two), Auth(Long, Long), ClientText(Empty), ClientText(Two), Quit}
MCToClient == {Resp(0), ServerText(Empty, Two), ServerText(Long, Long)}
MCSaved == {Auth(One, Two), Auth(Long, Empty), ServerText(Empty, Two), ServerText(Long, Long)}
=============================================================================

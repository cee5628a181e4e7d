--------------------------- MODULE MessageBuffer ---------------------------
(***************************************************************************)
(* The wire format (Message/*.cpp) and the buffer that cuts a stream of    *)
(* bytes into messages again (Message/Buffer.h), where the programs use    *)
(* them:                                                                   *)
(*   "server"  a thread of the server reads what one client sends          *)
(*   "client"  a client reads what the server sends                        *)
(*   "load"    Database::load() reads the file save() wrote, which a crash *)
(*             may have cut at any byte                                    *)
(* Client and server hold the same files Message/*; each operation below   *)
(* is the copy of the program that executes it.                            *)
(*                                                                         *)
(* A byte has Radix values and the buffer Size bytes, 256 and 1024 in the  *)
(* code; a scaled-down instance keeps the arithmetic (a length is written  *)
(* modulo Radix, a number is cut into bytes, the filler is -1).            *)
(***************************************************************************)
EXTENDS Naturals, Sequences, SequencesExt

CONSTANTS
  Radix,      \* values of a uint8_t
  Size,       \* BUFFER_SIZE
  Wrap,       \* values of a uint_t
  AddrBytes, PortBytes, TimeBytes,  \* sizeof(uint32_t), ..., sizeof(uint64_t)
  ToServer,   \* the messages a client sends,
  ToClient,   \* the server sends,
  Saved,      \* and the database keeps
  MaxSent,    \* bound: messages sent or saved
  CutStatus   \* FALSE: the two bytes of a status arrive together; anything
              \* else recv() may cut anywhere

\* Message/Types.h
MSG_AUTH == 0
MSG_QUIT == 1
MSG_RESP == 2
MSG_CLIENT_TEXT == 3
MSG_SERVER_TEXT == 4

Byte == 0..(Radix - 1)
Filler == Radix - 1  \* ZERO = -1
nullptr == [id |-> Radix]

(***************************************************************************)
(* serialize()                                                             *)
(***************************************************************************)
\* n without its k lowest bytes.
Shifted(n, k) ==
  LET Rest[i \in 0..k] == IF i = 0 THEN n ELSE Rest[i - 1] \div Radix
  IN  Rest[k]

Number(n, bytes) == [i \in 1..bytes |-> Shifted(n, i - 1) % Radix]
String(s) == <<Len(s) % Radix>> \o s

SerializeAuth(m) == <<MSG_AUTH>> \o String(m.name) \o String(m.pass)
SerializeQuit(m) == <<MSG_QUIT>>
SerializeStatus(m) == <<MSG_RESP, m.status>>
SerializeClientText(m) == <<MSG_CLIENT_TEXT>> \o String(m.msg)
SerializeServerText(m) ==
  <<MSG_SERVER_TEXT>>
    \o Number(m.addr, AddrBytes) \o Number(m.port, PortBytes)
    \o Number(m.time, TimeBytes) \o String(m.name) \o String(m.msg)

Serialize(m) ==
  CASE m.id = MSG_AUTH        -> SerializeAuth(m)
    [] m.id = MSG_QUIT        -> SerializeQuit(m)
    [] m.id = MSG_RESP        -> SerializeStatus(m)
    [] m.id = MSG_CLIENT_TEXT -> SerializeClientText(m)
    [] m.id = MSG_SERVER_TEXT -> SerializeServerText(m)

(***************************************************************************)
(* getSize()                                                               *)
(***************************************************************************)
Header == AddrBytes + PortBytes + TimeBytes

GetSizeAuth(m) == 3 + Len(m.name) + Len(m.pass)
GetSizeQuit(m) == 1
GetSizeStatus(m) == 2
GetSizeClientText(m) == 2 + Len(m.msg)
GetSizeServerText_NoTime(m) ==  \* mutant: the timestamp is forgotten
  3 + AddrBytes + PortBytes + Len(m.name) + Len(m.msg)
GetSizeServerText(m) == 3 + Header + Len(m.name) + Len(m.msg)

GetSize(m) ==
  CASE m.id = MSG_AUTH        -> GetSizeAuth(m)
    [] m.id = MSG_QUIT        -> GetSizeQuit(m)
    [] m.id = MSG_RESP        -> GetSizeStatus(m)
    [] m.id = MSG_CLIENT_TEXT -> GetSizeClientText(m)
    [] m.id = MSG_SERVER_TEXT -> GetSizeServerText(m)

(***************************************************************************)
(* The messages that can be sent: the length of a string fits into its     *)
(* byte, a number into its bytes, and the largest of them into the buffer. *)
(* Only the server sends a status.                                         *)
(***************************************************************************)
Strings == {s \in Seq(Byte) : Len(s) < Radix}
Numbers(bytes) == {n \in Nat : Shifted(n, bytes) = 0}

Messages ==
  [id : {MSG_AUTH}, name : Strings, pass : Strings]
    \cup [id : {MSG_QUIT}]
    \cup [id : {MSG_RESP}, status : Byte]
    \cup [id : {MSG_CLIENT_TEXT}, msg : Strings]
    \cup [id : {MSG_SERVER_TEXT}, addr : Numbers(AddrBytes), port : Numbers(PortBytes),
          time : Numbers(TimeBytes), name : Strings, msg : Strings]

ASSUME FormatAssumption ==
  /\ Radix \in Nat /\ Radix > MSG_SERVER_TEXT + 1
  /\ {AddrBytes, PortBytes, TimeBytes} \subseteq Nat \ {0}
  /\ Size \in Nat /\ Size >= 3 + Header + 2 * (Radix - 1)
  /\ Wrap \in Nat /\ Wrap > 2 * Size
  /\ MaxSent \in Nat /\ CutStatus \in BOOLEAN

ASSUME MessageAssumption ==
  /\ ToServer \cup ToClient \cup Saved \subseteq Messages
  /\ \A m \in ToServer \cup Saved : m.id # MSG_RESP

(***************************************************************************)
(* deserialize().  Positions in a buffer b count from 1.  The checks of    *)
(* size are those of the code: Auth and ClientText read the length of a    *)
(* string before they know that it arrived, Status reads the status        *)
(* without a check.                                                        *)
(***************************************************************************)
\* The number at pos, its highest byte last.
Value(b, pos, bytes) ==
  LET Upto[i \in 0..bytes] ==
        IF i = 0 THEN 0 ELSE Upto[i - 1] * Radix + b[pos + bytes - i]
  IN  Upto[bytes]

Field(b, pos) == SubSeq(b, pos + 1, pos + b[pos])  \* the string counted at pos
After(b, pos) == pos + 1 + b[pos]                  \* the position after it

\* TRUE if the string counted at pos ends within the first size bytes.
Ends_Strict(b, pos, size) == size > pos + b[pos]  \* mutant: > for >=
Ends_LengthOnly(b, pos, size) == size >= pos  \* mutant: the string itself is not checked
Ends(b, pos, size) == size >= pos + b[pos]

DeserializeAuth(b, size) ==
  IF Ends(b, 2, size) /\ Ends(b, After(b, 2), size)
  THEN [id |-> MSG_AUTH, name |-> Field(b, 2), pass |-> Field(b, After(b, 2))]
  ELSE nullptr

DeserializeStatus(b, size) == [id |-> MSG_RESP, status |-> b[2]]

DeserializeQuit(b, size) == [id |-> MSG_QUIT]

DeserializeClientText(b, size) ==
  IF Ends(b, 2, size) THEN [id |-> MSG_CLIENT_TEXT, msg |-> Field(b, 2)]
  ELSE nullptr

DeserializeServerText(b, size) ==
  LET name == 2 + Header IN
  IF /\ size >= name /\ Ends(b, name, size)
     /\ size >= After(b, name) /\ Ends(b, After(b, name), size)
  THEN [id   |-> MSG_SERVER_TEXT,
        addr |-> Value(b, 2, AddrBytes),
        port |-> Value(b, 2 + AddrBytes, PortBytes),
        time |-> Value(b, 2 + AddrBytes + PortBytes, TimeBytes),
        name |-> Field(b, name),
        msg  |-> Field(b, After(b, name))]
  ELSE nullptr

Deserialize(b, size) ==
  IF size < 1 THEN nullptr
  ELSE CASE b[1] = MSG_AUTH        -> DeserializeAuth(b, size)
         [] b[1] = MSG_QUIT        -> DeserializeQuit(b, size)
         [] b[1] = MSG_RESP        -> DeserializeStatus(b, size)
         [] b[1] = MSG_CLIENT_TEXT -> DeserializeClientText(b, size)
         [] b[1] = MSG_SERVER_TEXT -> DeserializeServerText(b, size)
         [] OTHER                  -> nullptr

(***************************************************************************)
(* The connection or the file, and the buffer.                             *)
(***************************************************************************)
VARIABLES
  reader,   \* who reads: "server", "client" or "load"
  sent,     \* messages written by the sender, or records save() was to write
  wrote,    \* bytes that went into the connection, or reached the file
  wire,     \* those that were not read yet
  buffer_,  \* the array of Buffer
  pos_,     \* bytes of it in use
  got,      \* messages getMessage has returned
  ended     \* load() has left its loop
vars == <<reader, sent, wrote, wire, buffer_, pos_, got, ended>>

Bytes(messages) ==
  LET Upto[i \in 0..Len(messages)] ==
        IF i = 0 THEN <<>> ELSE Upto[i - 1] \o Serialize(messages[i])
  IN  Upto[Len(messages)]

BufferInit == buffer_ = [i \in 1..Size |-> Filler] /\ pos_ = 0

ConnectionInit ==
  /\ reader \in {"server", "client"}
  /\ sent = <<>> /\ wrote = <<>> /\ wire = <<>>

\* The file holds some first bytes of what save() wrote.
FileInit ==
  /\ reader = "load"
  /\ sent \in BoundedSeq(Saved, MaxSent)
  /\ LET saved == Bytes(sent) IN
     \E cut \in 0..Len(saved) : wrote = SubSeq(saved, 1, cut)
  /\ wire = wrote

Init ==
  /\ ConnectionInit \/ FileInit
  /\ BufferInit
  /\ got = <<>> /\ ended = FALSE

\* A message that does not fit is SERIALIZE_ERROR and not sent at all.
Fits(m) == GetSize(m) <= Size

Write(m) ==
  /\ Len(sent) < MaxSent
  /\ Fits(m)
  /\ sent' = Append(sent, m)
  /\ wrote' = wrote \o Serialize(m)
  /\ wire' = wire \o Serialize(m)
  /\ UNCHANGED <<reader, buffer_, pos_, got, ended>>

ClientSends(m) == reader = "server" /\ m \in ToServer /\ Write(m)
ServerSends(m) == reader = "client" /\ m \in ToClient /\ Write(m)

Rewind_KeepsTail(b, size) ==  \* mutant: the data after it is not reset
  [i \in 1..Size |-> IF i <= Size - size THEN b[i + size] ELSE b[i]]
Rewind(b, size) ==
  [i \in 1..Size |-> IF i <= Size - size THEN b[i + size] ELSE Filler]

\* pos_ -= size
Left(pos, size) == (pos + Wrap - size) % Wrap

\* The end of getMessage for a buffer b with pos bytes in use.
Take(b, pos) ==
  LET obj == Deserialize(b, pos) IN
  IF obj = nullptr
  THEN buffer_' = b /\ pos_' = pos /\ got' = got
  ELSE /\ buffer_' = Rewind(b, GetSize(obj))
       /\ pos_' = Left(pos, GetSize(obj))
       /\ got' = Append(got, obj)

\* getMessage finds a message in the buffer ...
GetBuffered ==
  /\ pos_ <= Size
  /\ Deserialize(buffer_, pos_) # nullptr
  /\ Take(buffer_, pos_)
  /\ UNCHANGED <<reader, sent, wrote, wire, ended>>

\* ... or reads what there is, at most getSpace() bytes, and tries again.  With
\* pos_ beyond the array getPos() is no place to write to, and recv() fails.
Least(a, b) == IF a < b THEN a ELSE b
Space_SpareByte == Size - 1 - pos_  \* mutant
Space == Size - pos_

Fill(n) ==
  [i \in 1..Size |->
     IF i \in (pos_ + 1)..(pos_ + n) THEN wire[i - pos_] ELSE buffer_[i]]

GetData(n) ==
  /\ pos_ <= Size
  /\ Deserialize(buffer_, pos_) = nullptr
  /\ wire' = SubSeq(wire, n + 1, Len(wire))
  /\ Take(Fill(n), pos_ + n)
  /\ UNCHANGED <<reader, sent, wrote>>

\* recv(): any number of bytes that arrived.
Received(n) ==
  /\ n \in 1..Least(Len(wire), Space)
  /\ GetData(n)
  /\ UNCHANGED ended

\* The next n bytes of the connection end within a status.
CutsStatus(n) ==
  \E i \in DOMAIN sent :
    /\ sent[i].id = MSG_RESP
    /\ Len(wrote) - Len(wire) + n = Len(Bytes(SubSeq(sent, 1, i - 1))) + 1

ServerReads == reader = "server" /\ \E n \in 1..Size : Received(n)
ClientReads ==
  /\ reader = "client"
  /\ \E n \in 1..Size : (CutsStatus(n) => CutStatus) /\ Received(n)

\* fread(): as many bytes as there is space for, fewer only at the end of the
\* file.  The first null ends the loop of load().
LoadReads ==
  /\ reader = "load" /\ ~ended
  /\ GetData(Least(Len(wire), Space))
  /\ ended' = (got' = got)

GetMessage == GetBuffered \/ ServerReads \/ ClientReads \/ LoadReads

Next ==
  \/ \E m \in ToServer : ClientSends(m)
  \/ \E m \in ToClient : ServerSends(m)
  \/ GetMessage

Spec == Init /\ [][Next]_vars

\* Who calls getMessage again and again: load(), and a thread of the server once
\* the login, which gets one call, was read.  The client only calls it when
\* poll() saw something in the socket, whatever the buffer holds.
Loops == reader = "load" \/ (reader = "server" /\ got # <<>>)

FairSpec == Spec /\ WF_vars(Loops /\ GetMessage)

(***************************************************************************)
(* Properties.                                                             *)
(***************************************************************************)
\* The state has its type.  What lies beyond pos_, where deserialize looks for
\* lengths that have not arrived, is filler and nothing of earlier messages.
BufferTypeOK ==
  /\ reader \in {"server", "client", "load"} /\ ended \in BOOLEAN
  /\ sent \in Seq(ToServer \cup ToClient \cup Saved)
  /\ {wrote, wire} \subseteq Seq(Byte)
  /\ buffer_ \in [1..Size -> Byte]
  /\ pos_ \in 0..Size
  /\ \A i \in 1..Size : i > pos_ => buffer_[i] = Filler

\* However the stream is cut, getMessage returns the messages that were sent
\* or saved, complete, unchanged and in order, and none that a crash tore.
GotIsPrefix == IsPrefix(got, sent)

\* No byte is lost or counted twice by rewind and getData: what was returned,
\* what is buffered and what was not read make up what was written.
BytesConserved ==
  Bytes(got) \o SubSeq(buffer_, 1, pos_) \o wire = wrote

\* The buffer is never full without a message in it, which would make every
\* recv() ask for zero bytes: the largest message fits.
NeverJammed == Deserialize(buffer_, pos_) = nullptr => pos_ < Size

\* load() ends at the end of the file only, and what it leaves behind is less
\* than one record: every record that reached the file as a whole is loaded.
LoadsWhole ==
  ended =>
    /\ wire = <<>>
    /\ Len(got) < Len(sent) => pos_ < Len(Serialize(sent[Len(got) + 1]))

\* What a client sends after its login is returned in the end, to a thread that
\* keeps reading, and load() ends.
AllArrive ==
  /\ \A i \in 1..MaxSent :
       (Len(sent) >= i /\ reader = "server" /\ got # <<>>) ~> (Len(got) >= i)
  /\ (reader = "load") ~> ended
=============================================================================

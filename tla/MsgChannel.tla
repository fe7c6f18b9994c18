----------------------------- MODULE MsgChannel -----------------------------
(***************************************************************************)
(* The messages between clients and backend as they lie on the wire: the   *)
(* encoders and decoders of clicon_proto_encode.c, the framing of          *)
(* clicon_proto.c, and the requests of clicon_proto_client.c, on one       *)
(* connection after the other.                                             *)
(*                                                                         *)
(* A cell is a header, a number, a character or the zero that ends a       *)
(* string; a number is one cell whatever its width, and so is the header.  *)
(* The length in the header counts cells modulo LenMod (op_len is a        *)
(* uint16_t), and the sender writes as many cells as the header says.      *)
(* What is written in one piece of at most WholeWrite cells arrives in one *)
(* piece.                                                                  *)
(***************************************************************************)
EXTENDS Integers, Sequences, SequencesExt

CONSTANTS
  Names,       \* strings, as sequences of characters: file names, keys, ...
  Flags,       \* numbers that are flags, operations and identifiers
  Blobs,       \* sequences of characters whose length is sent along
  LenMod,      \* the length wraps around here
  WholeWrite,  \* cells that are read together if they are written together
  MaxMsgs      \* bound: messages in one direction of a connection

ASSUME ChannelAssumption ==
  /\ LenMod \in Nat \ {0, 1} /\ WholeWrite \in Nat \ {0} /\ MaxMsgs \in Nat
  /\ Names \cup Blobs \subseteq Seq(STRING)

Num(n) == <<<<"num", n>>>>
Nul == <<"nul", "0">>
Chars(s) == [i \in DOMAIN s |-> <<"chr", s[i]>>]
Str(s) == Append(Chars(s), Nul)

\* Reading at position p of a body: the end of the string that begins there,
\* the string, a number, n characters.
EndStr(b, p) == SelectInSubSeq(b, p, Len(b), LAMBDA c : c = Nul)
StrAt(b, p) == [i \in 1..(EndStr(b, p) - p) |-> b[p + i - 1][2]]
NumAt(b, p) == b[p][2]
CharsAt(b, p, n) == [i \in 1..n |-> b[p + i - 1][2]]

----------------------------------------------------------------------------
\* Encoders and decoders.  The arguments of a message are a sequence.
OneStrEncode(a) == Str(a[1])
OneStrDecode(b) == <<StrAt(b, 1)>>

CommitEncode(a) == Num(a[1]) \o Num(a[2]) \o Str(a[3]) \o Str(a[4])
CommitDecode(b) == <<NumAt(b, 1), NumAt(b, 2), StrAt(b, 3), StrAt(b, EndStr(b, 3) + 1)>>

ValidateEncode(a) == Str(a[1])
ValidateDecode(b) == <<StrAt(b, 1)>>

\* change: operation, length of the vector, database, key, vector.
ChangeEncode(a) == Num(a[1]) \o Num(Len(a[4])) \o Str(a[2]) \o Str(a[3]) \o Chars(a[4])
ChangeDecode(b) ==
  LET key == EndStr(b, 3) + 1 IN <<NumAt(b, 1), StrAt(b, 3), StrAt(b, key), CharsAt(b, EndStr(b, key) + 1, NumAt(b, 2))>>

\* save: the file name is there unless a snapshot is asked for.
SaveEncode(a) == Num(a[1]) \o Str(a[2]) \o (IF a[1] = 0 THEN Str(a[3]) ELSE <<>>)
SaveDecode(b) == <<NumAt(b, 1), StrAt(b, 2), IF NumAt(b, 1) = 0 THEN StrAt(b, EndStr(b, 2) + 1) ELSE <<>>>>

LoadEncode(a) == Num(a[1]) \o Str(a[2]) \o Str(a[3])
LoadDecode(b) == <<NumAt(b, 1), StrAt(b, 2), StrAt(b, EndStr(b, 2) + 1)>>

InitdbEncode(a) == OneStrEncode(a)
InitdbDecode(b) == OneStrDecode(b)
RmEncode(a) == OneStrEncode(a)
RmDecode(b) == OneStrDecode(b)
LockEncode(a) == OneStrEncode(a)
LockDecode(b) == OneStrDecode(b)
UnlockEncode(a) == OneStrEncode(a)
UnlockDecode(b) == OneStrDecode(b)

CopyEncode(a) == Str(a[1]) \o Str(a[2])
CopyDecode(b) == <<StrAt(b, 1), StrAt(b, EndStr(b, 1) + 1)>>

KillEncode(a) == Num(a[1])
KillDecode(b) == <<NumAt(b, 1)>>
DebugEncode(a) == Num(a[1])
DebugDecode(b) == <<NumAt(b, 1)>>

\* call: a structure with the length of the rest, the operation and the
\* length of the argument, then plugin, function and argument.
CallEncode(a) ==
  LET data == Str(a[2]) \o Str(a[3]) \o Chars(a[4])
  IN Num((3 + Len(data)) % LenMod) \o Num(a[1]) \o Num(Len(a[4])) \o data
CallDecode(b) ==
  LET req == SubSeq(b, 1, NumAt(b, 1))
      func == EndStr(req, 4) + 1
  IN <<NumAt(req, 2), StrAt(req, 4), StrAt(req, func), CharsAt(req, EndStr(req, func) + 1, NumAt(req, 3))>>

SubscriptionEncode(a) == Num(a[1]) \o Num(a[3]) \o Str(a[2]) \o Str(a[4])
SubscriptionDecode(b) == <<NumAt(b, 1), StrAt(b, 3), NumAt(b, 2), StrAt(b, EndStr(b, 3) + 1)>>
NotifyEncode(a) == Num(a[1]) \o Str(a[2])
NotifyDecode(b) == <<NumAt(b, 1), StrAt(b, 2)>>
ErrEncode(a) == Num(a[1]) \o Num(a[2]) \o Str(a[3])
ErrDecode(b) == <<NumAt(b, 1), NumAt(b, 2), StrAt(b, 3)>>

Encode(m) ==
  LET a == m.args
  IN CASE m.type = "commit" -> CommitEncode(a)     [] m.type = "validate" -> ValidateEncode(a)
       [] m.type = "change" -> ChangeEncode(a)     [] m.type = "save" -> SaveEncode(a)
       [] m.type = "load" -> LoadEncode(a)         [] m.type = "copy" -> CopyEncode(a)
       [] m.type = "rm" -> RmEncode(a)             [] m.type = "initdb" -> InitdbEncode(a)
       [] m.type = "lock" -> LockEncode(a)         [] m.type = "unlock" -> UnlockEncode(a)
       [] m.type = "kill" -> KillEncode(a)         [] m.type = "debug" -> DebugEncode(a)
       [] m.type = "call" -> CallEncode(a)         [] m.type = "subscription" -> SubscriptionEncode(a)
       [] m.type = "notify" -> NotifyEncode(a)     [] m.type = "err" -> ErrEncode(a)
       [] m.type = "ok" -> Chars(a[1])

\* from_client() and clicon_rpc() choose the decoder by the type.
Decode(type, b) ==
  [type |-> type, args |->
    CASE type = "commit" -> CommitDecode(b)     [] type = "validate" -> ValidateDecode(b)
      [] type = "change" -> ChangeDecode(b)     [] type = "save" -> SaveDecode(b)
      [] type = "load" -> LoadDecode(b)         [] type = "copy" -> CopyDecode(b)
      [] type = "rm" -> RmDecode(b)             [] type = "initdb" -> InitdbDecode(b)
      [] type = "lock" -> LockDecode(b)         [] type = "unlock" -> UnlockDecode(b)
      [] type = "kill" -> KillDecode(b)         [] type = "debug" -> DebugDecode(b)
      [] type = "call" -> CallDecode(b)         [] type = "subscription" -> SubscriptionDecode(b)
      [] type = "notify" -> NotifyDecode(b)     [] type = "err" -> ErrDecode(b)
      [] type = "ok" -> <<CharsAt(b, 1, Len(b))>>]

\* The whole message; what is written of it when the length has wrapped.
\* The mark cut is for the model: what the decoder of a cut message finds
\* behind its end is not known.
Whole(m) == 1 + Len(Encode(m))
Frame(m) ==
  LET len == Whole(m) % LenMod
  IN SubSeq(<<<<"hdr", [len |-> len, type |-> m.type, cut |-> Whole(m) >= LenMod]>>>> \o Encode(m), 1, len)

----------------------------------------------------------------------------
VARIABLES
  chan,    \* [{"req", "rep"} -> the two directions of the connection]
  caller   \* the client: "idle", "waiting" or "stream"

channelVars == <<chan, caller>>

NoHdr == [len |-> 0, type |-> "none", cut |-> FALSE]
Fresh == [writing |-> <<>>, pipe |-> <<>>, hdr |-> NoHdr, sent |-> <<>>, got |-> <<>>, broken |-> FALSE]
ChannelInit == chan = [d \in {"req", "rep"} |-> Fresh] /\ caller = "idle"

\* clicon_msg_send(): the message is handed to write(), piece by piece.
MsgSend(d, m) ==
  [chan EXCEPT ![d].writing = @ \o Frame(m), ![d].sent = Append(@, m)]

\* clicon_rpc_connect(), clicon_rpc(): a connection, a request, the wait.
Rpc(m) ==
  /\ caller = "idle"
  /\ caller' = "waiting"
  /\ chan' = MsgSend("req", m)

ProtoCopy == \E f, g \in Names : Rpc([type |-> "copy", args |-> <<f, g>>])
ProtoChange == \E op \in Flags, db, key \in Names, lvec \in Blobs :
  Rpc([type |-> "change", args |-> <<op, db, key, lvec>>])
ProtoCommit == \E snap, start \in Flags, f, g \in Names : Rpc([type |-> "commit", args |-> <<snap, start, f, g>>])
ProtoValidate == \E db \in Names : Rpc([type |-> "validate", args |-> <<db>>])
ProtoSave == \E snap \in Flags, db, f \in Names :
  (snap # 0 => f = <<>>) /\ Rpc([type |-> "save", args |-> <<snap, db, f>>])
ProtoLoad == \E replace \in Flags, db, f \in Names : Rpc([type |-> "load", args |-> <<replace, db, f>>])
ProtoInitdb == \E f \in Names : Rpc([type |-> "initdb", args |-> <<f>>])
ProtoRm == \E f \in Names : Rpc([type |-> "rm", args |-> <<f>>])
ProtoLock == \E db \in Names : Rpc([type |-> "lock", args |-> <<db>>])
ProtoUnlock == \E db \in Names : Rpc([type |-> "unlock", args |-> <<db>>])
ProtoKill == \E id \in Flags : Rpc([type |-> "kill", args |-> <<id>>])
ProtoDebug == \E level \in Flags : Rpc([type |-> "debug", args |-> <<level>>])
ProtoSubscription == \E status, format \in Flags, stream, filter \in Names :
  Rpc([type |-> "subscription", args |-> <<status, stream, format, filter>>])
CliDowncall == \E op \in Flags, plugin, func \in Names, arg \in Blobs :
  Rpc([type |-> "call", args |-> <<op, plugin, func, arg>>])

Request ==
  \/ ProtoCopy \/ ProtoChange \/ ProtoCommit \/ ProtoValidate \/ ProtoSave \/ ProtoLoad \/ ProtoInitdb \/ ProtoRm
  \/ ProtoLock \/ ProtoUnlock \/ ProtoKill \/ ProtoDebug \/ ProtoSubscription \/ CliDowncall

\* atomicio(write): everything goes out, in pieces if it is long.
WriteSome(d) ==
  /\ chan[d].writing # <<>>
  /\ LET n == IF Len(chan[d].writing) <= WholeWrite THEN Len(chan[d].writing) ELSE WholeWrite
     IN chan' = [chan EXCEPT ![d].pipe = @ \o SubSeq(chan[d].writing, 1, n),
                             ![d].writing = SubSeq(@, n + 1, Len(@))]
  /\ UNCHANGED caller

\* clicon_msg_rcv(), the header: atomicio(read) waits for all of it.
RcvHeader(d) ==
  /\ chan[d].hdr = NoHdr /\ chan[d].pipe # <<>> /\ ~chan[d].broken
  /\ chan' = [chan EXCEPT ![d].hdr = Head(chan[d].pipe)[2], ![d].pipe = Tail(@)]
  /\ UNCHANGED caller

\* The body: a single read(), and a body that is too short is an error that
\* leaves its rest in the socket.
MutantRcvBody(d) ==
  /\ chan[d].hdr # NoHdr /\ (chan[d].hdr.len > 1 => chan[d].pipe # <<>>)
  /\ LET want == chan[d].hdr.len - 1
         n == IF want <= Len(chan[d].pipe) THEN want ELSE Len(chan[d].pipe)
         taken == [chan EXCEPT ![d].pipe = SubSeq(@, n + 1, Len(@)), ![d].hdr = NoHdr]
     IN IF n < want
        THEN chan' = taken
        ELSE chan' = [taken EXCEPT ![d].got = Append(@,
               IF chan[d].hdr.cut THEN [type |-> chan[d].hdr.type, args |-> <<>>]
               ELSE Decode(chan[d].hdr.type, SubSeq(chan[d].pipe, 1, n)))]
  /\ UNCHANGED caller
RcvBody(d) ==
  /\ chan[d].hdr # NoHdr /\ (chan[d].hdr.len > 1 => chan[d].pipe # <<>>)
  /\ LET want == chan[d].hdr.len - 1
         n == IF want <= Len(chan[d].pipe) THEN want ELSE Len(chan[d].pipe)
         taken == [chan EXCEPT ![d].pipe = SubSeq(@, n + 1, Len(@)), ![d].hdr = NoHdr]
     IN IF n < want
        THEN chan' = [taken EXCEPT ![d].broken = TRUE]
        ELSE chan' = [taken EXCEPT ![d].got = Append(@,
               IF chan[d].hdr.cut THEN [type |-> chan[d].hdr.type, args |-> <<>>]
               ELSE Decode(chan[d].hdr.type, SubSeq(chan[d].pipe, 1, n)))]
  /\ UNCHANGED caller

\* The backend answers the request it has read: send_msg_ok(), a downcall's
\* send_msg_reply() with data, send_msg_err() with the error's numbers.
Answers(type) ==
  {[type |-> "ok", args |-> <<data>>] : data \in IF type = "call" THEN Blobs ELSE {<<>>}}
    \cup {[type |-> "err", args |-> <<err, suberr, reason>>] : err \in Flags, suberr \in Flags, reason \in Names}
Reply ==
  /\ Len(chan["req"].got) = 1 /\ chan["rep"].sent = <<>>
  /\ \E m \in Answers(chan["req"].got[1].type) : chan' = MsgSend("rep", m)
  /\ UNCHANGED caller

\* send_msg_notify() to a subscriber.  The event log may be written while
\* the subscription's own answer is not read yet.
SendEvent ==
  /\ Len(chan["rep"].sent) \in 1..MaxMsgs
  /\ chan["rep"].sent[1].type = "ok" /\ chan["req"].got[1].type = "subscription"
  /\ \A i \in DOMAIN chan["req"].got[1].args : i = 1 => chan["req"].got[1].args[i] # 0
  /\ \E level \in Flags, event \in Names : chan' = MsgSend("rep", [type |-> "notify", args |-> <<level, event>>])
  /\ UNCHANGED caller

\* clicon_rpc() returns: the connection is closed unless a subscription has
\* begun.  A broken answer, an error and any other type are failures.
RpcReturn ==
  /\ caller = "waiting" /\ (chan["rep"].got # <<>> \/ chan["rep"].broken)
  /\ IF ~chan["rep"].broken /\ Head(chan["rep"].got).type = "ok"
          /\ chan["req"].sent[1].type = "subscription" /\ chan["req"].sent[1].args[1] # 0
     THEN caller' = "stream" /\ UNCHANGED chan
     ELSE caller' = "idle" /\ chan' = [d \in {"req", "rep"} |-> Fresh]

\* The backend goes on after a request it could not read (from_client()
\* returns 0): the rest of the body is taken for a header.  What it stands
\* for is not known: an odd message, or the beginning of one that never comes.
RcvRest ==
  /\ chan["req"].broken /\ chan["req"].pipe # <<>>
  /\ \E odd \in {<<>>, <<[type |-> "odd", args |-> <<>>]>>} :
       chan' = [chan EXCEPT !["req"].pipe = <<>>, !["req"].got = @ \o odd]
  /\ UNCHANGED caller

\* The subscriber leaves, of its own will or because it could not read.
CloseStream ==
  /\ caller = "stream"
  /\ caller' = "idle" /\ chan' = [d \in {"req", "rep"} |-> Fresh]

ChannelNext ==
  \/ Request \/ Reply \/ SendEvent \/ RpcReturn \/ RcvRest \/ CloseStream
  \/ \E d \in {"req", "rep"} : WriteSome(d) \/ RcvHeader(d) \/ RcvBody(d)

ChannelSpec == ChannelInit /\ [][ChannelNext]_channelVars

----------------------------------------------------------------------------
\* As long as no body came in pieces, a reader finds a header where it looks
\* for one, even after a message that was too long for op_len, because as many
\* cells are written as the header says.
FramesAligned(d) ==
  (chan[d].hdr = NoHdr /\ chan[d].pipe # <<>> /\ ~chan[d].broken) => Head(chan[d].pipe)[1] = "hdr"
\* As long as no message was too long either, what was decoded is the
\* beginning of what was sent, argument by argument.
ReceivedAsSent(d) ==
  (~chan[d].broken /\ \A i \in DOMAIN chan[d].sent : Whole(chan[d].sent[i]) < LenMod)
    => IsPrefix(chan[d].got, chan[d].sent)

(***************************************************************************)
(* Requests, answers and notifications are never mixed up: whatever is     *)
(* encoded, written in pieces and read by header and body is decoded as it *)
(* was sent, and a message whose length wraps around does not take the     *)
(* next one with it.                                                       *)
(***************************************************************************)
MessagesIntact == \A d \in {"req", "rep"} : FramesAligned(d) /\ ReceivedAsSent(d)
=============================================================================

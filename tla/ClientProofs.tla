----------------------------- MODULE ClientProofs -----------------------------
(***************************************************************************)
(* Proofs about the clients and the data they share: the candidate of the  *)
(* netconf sessions and the order of their answers, the databases the      *)
(* CLI's commands remove and make anew, and the edits that are published   *)
(* at once, for any number of clients, messages and operations.            *)
(***************************************************************************)
EXTENDS NetconfSession, CliSession, SequenceLemmas, SequenceTheorems

------------------------------------------------------------------------------
(***************************************************************************)
(* The candidate of the netconf sessions.  Whoever takes it away is either *)
(* still at work on it, waits for ever, or was told of an error; a session *)
(* that sees none begins only once it has made one.                        *)
(***************************************************************************)
Cells == Texts \cup {EndTag}
NetStages == {"start", "loop", "scan", "packet", "rpc", "stuck", "gone", "aborted"}
Answers == [to : Cells \cup {<<>>}, kind : {"ok", "data", "error", "notification"}, msgs : Nat]
NetRecords ==
  [stage : NetStages, wire : Seq(Cells), chunk : Seq(Cells), buf : Seq(Cells), todo : {<<>>, <<"initdb">>},
   cur : Cells \cup {<<>>}, at : Nat, errs : Nat, out : Seq(Answers), closed : BOOLEAN, subs : Nat, sent : Seq(Texts), split : BOOLEAN]

\* A delete-config between its two calls still has its request in hand.  The
\* dispatcher is at one of the elements, and those before it have left one
\* error each at most.  The answers given so far have as many messages as they
\* may.
AllWorded(out) == \A j \in AnswersIn(out) : Worded(out[j])
HandSound(n) ==
  /\ AllWorded(n.out)
  /\ n.stage = "rpc" => n.cur \in Cells /\ n.at \in 1..Len(n.cur) /\ n.errs \in 0..(n.at - 1)
  /\ n.stage \in {"start", "loop", "scan", "packet"} => n.at = 1 /\ n.errs = 0
  /\ n.todo # <<>> => n.stage \in {"rpc", "stuck"} /\ "delete-config" \in Range(n.cur)

Told(n) == \E i \in DOMAIN n.out : n.out[i].kind = "error" /\ "delete-config" \in Range(n.out[i].to)
Excused(n) == n.todo = <<"initdb">> \/ n.stage = "stuck" \/ Told(n)

\* Done with a request.
AtRest(n) == n.stage \in {"gone", "scan"} /\ (n.stage = "scan" => n.at = 1 /\ n.errs = 0)

NetTypes == net \in [Sessions -> NetRecords] /\ \A s \in Sessions : HandSound(net[s])
NetInv ==
  /\ NetTypes
  /\ ~candFile => \/ \A s \in Sessions : net[s].stage \in {"start", "gone"}
                  \/ \E s \in Sessions : Excused(net[s])

\* A cell is a text or half an end tag: a sequence that is not empty.
LEMMA CellFacts ==
  ASSUME NEW c \in Cells
  PROVE  DOMAIN c = 1..Len(c) /\ Len(c) \in Nat /\ Len(c) >= 1
PROOF
<1>1. CASE c \in Texts
  <2>1. c \in Seq(STRING) /\ c # <<>>
    BY <1>1, NetconfAssumption
  <2> QED
    BY <2>1
<1>2. CASE c = EndTag
  <2>1. PICK x : EndTag = <<x>>
    BY DEF EndTag
  <2>2. Len(<<x>>) = 1 /\ DOMAIN <<x>> = 1..1
    OBVIOUS
  <2> QED
    BY <1>2, <2>1, <2>2
<1> QED
  BY <1>1, <1>2 DEF Cells

\* What the step of one session must leave as it is.
LEMMA NetStepKeeps ==
  ASSUME NetInv, NEW s \in Sessions, NEW n \in NetRecords, net' = [net EXCEPT ![s] = n], HandSound(n),
         Excused(net[s]) => Excused(n) \/ candFile',
         ~candFile' => ~candFile \/ Excused(n),
         net[s].stage \in {"start", "gone"} => n.stage \in {"start", "gone"} \/ candFile'
  PROVE  NetInv'
PROOF
<1>1. net \in [Sessions -> NetRecords] /\ \A t \in Sessions : HandSound(net[t])
  BY DEF NetInv, NetTypes
<1>2. net'[s] = n /\ net' \in [Sessions -> NetRecords] /\ \A t \in Sessions \ {s} : net'[t] = net[t]
  BY <1>1
<1>3. NetTypes'
  BY <1>1, <1>2 DEF NetTypes
<1>4. ASSUME ~candFile'
      PROVE  \/ \A t \in Sessions : net'[t].stage \in {"start", "gone"}
             \/ \E t \in Sessions : Excused(net'[t])
  <2>1. CASE Excused(n)
    BY <1>2, <2>1
  <2>2. CASE ~Excused(n) /\ \A t \in Sessions : net[t].stage \in {"start", "gone"}
    BY <1>2, <1>4, <2>2
  <2>3. CASE ~Excused(n) /\ \E t \in Sessions : Excused(net[t])
    BY <1>2, <1>4, <2>3
  <2> QED
    BY <1>4, <2>1, <2>2, <2>3 DEF NetInv
<1> QED
  BY <1>3, <1>4 DEF NetInv

\* An answer is added to those that were given.
LEMMA OutputFacts ==
  ASSUME NEW n \in NetRecords, NEW kind \in {"ok", "data", "error", "notification"}, NEW msgs \in Nat
  PROVE  LET o == Output(n, kind, msgs)
         IN /\ o \in NetRecords
            /\ o.stage = n.stage /\ o.todo = n.todo /\ o.cur = n.cur /\ o.closed = n.closed
            /\ o.at = n.at /\ o.errs = n.errs
            /\ Told(n) => Told(o)
            /\ kind = "error" /\ "delete-config" \in Range(n.cur) => Told(o)
            /\ AllWorded(n.out) /\ (kind = "error" => msgs \in 1..MostErrors(n.cur)) /\ (kind # "error" => msgs = 1)
                 => AllWorded(o.out)
PROOF
<1> DEFINE o == Output(n, kind, msgs)  x == [to |-> n.cur, kind |-> kind, msgs |-> msgs]
<1>1. x \in Answers /\ x.to = n.cur /\ x.kind = kind /\ x.msgs = msgs /\ n.out \in Seq(Answers)
  BY DEF NetRecords, Answers
<1>2. o = [n EXCEPT !.out = Append(n.out, x)]
  BY DEF Output
<1> HIDE DEF x
<1>3. /\ Append(n.out, x) \in Seq(Answers) /\ Len(Append(n.out, x)) = Len(n.out) + 1
      /\ Append(n.out, x)[Len(n.out) + 1] = x
      /\ \A i \in 1..Len(n.out) : Append(n.out, x)[i] = n.out[i]
  BY <1>1
<1>4. o \in NetRecords /\ o.out = Append(n.out, x)
      /\ o.stage = n.stage /\ o.todo = n.todo /\ o.cur = n.cur /\ o.closed = n.closed
      /\ o.at = n.at /\ o.errs = n.errs
  BY <1>2, <1>3 DEF NetRecords
<1> HIDE DEF o
<1>5. DOMAIN n.out = 1..Len(n.out) /\ DOMAIN o.out = 1..(Len(n.out) + 1) /\ Len(n.out) \in Nat
  BY <1>1, <1>3, <1>4
<1>6. Told(n) => Told(o)
  BY <1>3, <1>4, <1>5 DEF Told
<1>7. ASSUME kind = "error", "delete-config" \in Range(n.cur) PROVE Told(o)
  <2>1. Len(n.out) + 1 \in DOMAIN o.out
    BY <1>5
  <2> QED
    BY <1>1, <1>3, <1>4, <1>7, <2>1 DEF Told
<1>8. ASSUME AllWorded(n.out), kind = "error" => msgs \in 1..MostErrors(n.cur), kind # "error" => msgs = 1
      PROVE  AllWorded(o.out)
  <2>1. Worded(x)
    BY <1>1, <1>8 DEF Worded
  <2> QED
    BY <1>3, <1>4, <1>5, <1>8, <2>1 DEF AllWorded, AnswersIn
<1> QED
  BY <1>4, <1>6, <1>7, <1>8 DEF o

LEMMA ResumeFacts ==
  ASSUME NEW n \in NetRecords
  PROVE  LET r == Resume(n)
         IN r \in NetRecords /\ AtRest(r) /\ r.out = n.out /\ r.todo = n.todo
PROOF
<1>1. <<>> \in Seq(Cells)
  OBVIOUS
<1>2. CASE n.closed
  BY <1>2 DEF Resume, AtRest, NetRecords, NetStages
<1>3. CASE ~n.closed
  BY <1>1, <1>3 DEF Resume, AtRest, NetRecords, NetStages
<1> QED
  BY <1>2, <1>3

\* The answers that were given are worded as they may be.
LEMMA WordedSoFar ==
  ASSUME NetInv, NEW s \in Sessions
  PROVE  AllWorded(net[s].out)
BY DEF NetInv, NetTypes, HandSound

LEMMA ReplyFacts ==
  ASSUME NetInv, NEW s \in Sessions, NEW kind \in {"ok", "data"}
  PROVE  \E o \in NetRecords : /\ o = Output(net[s], kind, 1) /\ o.todo = net[s].todo /\ (Told(net[s]) => Told(o))
                              /\ AllWorded(o.out)
PROOF
<1>1. PICK n \in NetRecords : n = net[s]
  BY DEF NetInv, NetTypes
<1>2. AllWorded(n.out) /\ kind # "error" /\ kind \in {"ok", "data", "error", "notification"} /\ 1 \in Nat
  BY <1>1, WordedSoFar
<1>3. PICK o : o = Output(n, kind, 1)
  OBVIOUS
<1>4. o \in NetRecords /\ o.todo = n.todo /\ (Told(n) => Told(o)) /\ AllWorded(o.out)
  BY <1>2, <1>3, OutputFacts
<1> QED
  BY <1>1, <1>3, <1>4

\* The answer of a request other than the two halves of a delete-config.
LEMMA AnswerKeeps ==
  ASSUME NetInv, NEW s \in Sessions, net[s].stage = "rpc", net[s].todo = <<>>,
         NEW kind \in {"ok", "data"}, candFile => candFile',
         net' = [net EXCEPT ![s] = Resume(Output(net[s], kind, 1))]
  PROVE  NetInv'
PROOF
<1>1. net[s] \in NetRecords
  BY DEF NetInv, NetTypes
<1>2. PICK o \in NetRecords : /\ o = Output(net[s], kind, 1) /\ o.todo = <<>> /\ (Told(net[s]) => Told(o))
                              /\ AllWorded(o.out)
  BY ReplyFacts
<1>3. PICK r \in NetRecords : /\ r = Resume(o) /\ AtRest(r) /\ r.todo = <<>> /\ r.out = o.out
  BY <1>2, ResumeFacts
<1>4. Told(net[s]) => Told(r)
  BY <1>2, <1>3 DEF Told
<1>5. HandSound(r) /\ (Excused(net[s]) => Excused(r))
  BY <1>2, <1>3, <1>4 DEF HandSound, AtRest, Excused
<1>6. net' = [net EXCEPT ![s] = r]
  BY <1>2, <1>3
<1> QED
  BY <1>5, <1>6, NetStepKeeps

\* The least of a set of positions is one of them.
LEMMA MinFacts ==
  ASSUME NEW I, I \subseteq Nat, I # {}
  PROVE  Min(I) \in I
PROOF
<1>1. \E n \in I : \A m \in I : n <= m
  BY LeastNat
<1> QED
  BY <1>1 DEF Min

LEMMA DetectFacts ==
  ASSUME NEW S, NEW chunk \in Seq(S)
  PROVE  DetectEndtag(chunk) \in 0..Len(chunk)
PROOF
<1>1. PICK I : I = {i \in 2..Len(chunk) : chunk[i] = EndTag /\ chunk[i - 1] = EndTag}
  OBVIOUS
<1>2. DetectEndtag(chunk) = IF I = {} THEN 0 ELSE Min(I)
  BY <1>1 DEF DetectEndtag
<1>3. Len(chunk) \in Nat
  OBVIOUS
<1>4. I \subseteq 1..Len(chunk) /\ I \subseteq Nat
  BY <1>1, <1>3
<1>5. CASE I = {}
  BY <1>2, <1>3, <1>5
<1>6. CASE I # {}
  <2>1. Min(I) \in 1..Len(chunk)
    BY <1>4, <1>6, MinFacts
  <2> QED
    BY <1>2, <1>3, <1>6, <2>1
<1> QED
  BY <1>5, <1>6

LEMMA PieceFacts ==
  ASSUME NEW S, NEW q \in Seq(S), NEW n \in 0..Len(q)
  PROVE  SubSeq(q, 1, n) \in Seq(S) /\ SubSeq(q, n + 1, Len(q)) \in Seq(S)
PROOF
<1>1. Len(q) \in Nat /\ \A i \in 1..Len(q) : q[i] \in S
  OBVIOUS
<1>2. SubSeq(q, 1, n) \in Seq(S)
  BY <1>1, SubSeqProperties
<1>3. SubSeq(q, n + 1, Len(q)) \in Seq(S)
  BY <1>1, SubSeqProperties
<1> QED
  BY <1>2, <1>3

\* A step that only reads or writes the wire, or ends the session.
LEMMA ReadKeeps ==
  ASSUME NetInv, NEW s \in Sessions, NEW n \in NetRecords, net' = [net EXCEPT ![s] = n], UNCHANGED candFile,
         n.out = net[s].out \/ (Told(net[s]) => Told(n)), n.todo = net[s].todo,
         n.out = net[s].out \/ AllWorded(n.out),
         n.stage = "gone" \/ (n.at = net[s].at /\ n.errs = net[s].errs),
         \/ n.stage = net[s].stage /\ n.cur = net[s].cur
         \/ net[s].stage \in {"loop", "scan", "packet"} /\ n.stage \in {"loop", "scan", "packet", "gone"}
  PROVE  NetInv'
PROOF
<1>1. HandSound(net[s])
  BY DEF NetInv, NetTypes
<1>2. HandSound(n)
  BY <1>1 DEF HandSound
<1>3. Excused(net[s]) => Excused(n)
  BY DEF Excused, Told
<1>4. net[s].stage \in {"start", "gone"} => n.stage \in {"start", "gone"}
  OBVIOUS
<1> QED
  BY <1>2, <1>3, <1>4, NetStepKeeps

LEMMA PeerSendsKeeps ==
  ASSUME NetInv, NEW s \in Sessions, PeerSends(s)
  PROVE  NetInv'
PROOF
<1>1. PICK x \in Texts : net' = [net EXCEPT ![s].wire = @ \o <<x, EndTag, EndTag>>, ![s].sent = Append(@, x)]
  BY DEF PeerSends
<1>2. net \in [Sessions -> NetRecords] /\ net[s] \in NetRecords
  BY DEF NetInv, NetTypes
<1>3. PICK w : w = net[s].wire \o <<x, EndTag, EndTag>>
  OBVIOUS
<1>4. PICK q : q = Append(net[s].sent, x)
  OBVIOUS
<1>5. w \in Seq(Cells) /\ q \in Seq(Texts)
  <2>1. net[s].wire \in Seq(Cells) /\ net[s].sent \in Seq(Texts)
    BY <1>2 DEF NetRecords
  <2>2. <<x, EndTag, EndTag>> \in Seq(Cells)
    BY DEF Cells
  <2> QED
    BY <1>3, <1>4, <2>1, <2>2
<1>6. PICK n : n = [net[s] EXCEPT !.wire = w, !.sent = q]
  OBVIOUS
<1>7. n \in NetRecords /\ n.out = net[s].out /\ n.todo = net[s].todo /\ n.stage = net[s].stage
      /\ n.cur = net[s].cur /\ n.at = net[s].at /\ n.errs = net[s].errs
  BY <1>2, <1>5, <1>6 DEF NetRecords
<1>8. net' = [net EXCEPT ![s] = n]
  BY <1>1, <1>2, <1>3, <1>4, <1>6
<1>9. UNCHANGED candFile
  BY Zenon DEF PeerSends
<1> QED
  BY <1>7, <1>8, <1>9, ReadKeeps

LEMMA InputCbKeeps ==
  ASSUME NetInv, NEW s \in Sessions, InputCb(s)
  PROVE  NetInv'
PROOF
<1>0. PICK m \in 1..Len(net[s].wire) :
        \E b : /\ b = (net[s].split \/ (m < Len(net[s].wire) /\ net[s].wire[m] = EndTag /\ net[s].wire[m + 1] = EndTag))
              /\ net' = [net EXCEPT ![s].chunk = SubSeq(net[s].wire, 1, m), ![s].wire = SubSeq(@, m + 1, Len(@)),
                                    ![s].stage = "scan", ![s].split = b]
  BY DEF InputCb
<1>1. PICK b :
        /\ b = (net[s].split \/ (m < Len(net[s].wire) /\ net[s].wire[m] = EndTag /\ net[s].wire[m + 1] = EndTag))
        /\ net' = [net EXCEPT ![s].chunk = SubSeq(net[s].wire, 1, m), ![s].wire = SubSeq(@, m + 1, Len(@)),
                              ![s].stage = "scan", ![s].split = b]
  BY <1>0
<1>2. net \in [Sessions -> NetRecords] /\ net[s] \in NetRecords
  BY DEF NetInv, NetTypes
<1>3. PICK c, w : c = SubSeq(net[s].wire, 1, m) /\ w = SubSeq(net[s].wire, m + 1, Len(net[s].wire))
  OBVIOUS
<1>4. c \in Seq(Cells) /\ w \in Seq(Cells)
  <2>1. net[s].wire \in Seq(Cells) /\ m \in 0..Len(net[s].wire)
    BY <1>2 DEF NetRecords
  <2> QED
    BY <1>3, <2>1, PieceFacts
<1>5. b \in BOOLEAN
  BY <1>1, <1>2, Zenon DEF NetRecords
<1>6. PICK n : n = [net[s] EXCEPT !.chunk = c, !.wire = w, !.stage = "scan", !.split = b]
  OBVIOUS
<1>7. n \in NetRecords /\ n.out = net[s].out /\ n.todo = net[s].todo /\ n.at = net[s].at /\ n.errs = net[s].errs /\ n.stage = "scan"
  BY <1>2, <1>4, <1>5, <1>6 DEF NetRecords, NetStages
<1>8. net' = [net EXCEPT ![s] = n]
  BY <1>1, <1>2, <1>3, <1>6
<1> QED
  BY <1>7, <1>8, ReadKeeps DEF InputCb

LEMMA InputEofKeeps ==
  ASSUME NetInv, NEW s \in Sessions, InputEof(s)
  PROVE  NetInv'
PROOF
<1>1. net \in [Sessions -> NetRecords] /\ net[s] \in NetRecords
  BY DEF NetInv, NetTypes
<1>2. PICK n : n = [net[s] EXCEPT !.stage = "gone"]
  OBVIOUS
<1>3. n \in NetRecords /\ n.out = net[s].out /\ n.todo = net[s].todo /\ n.at = net[s].at /\ n.errs = net[s].errs /\ n.stage = "gone"
  BY <1>1, <1>2 DEF NetRecords, NetStages
<1>4. net' = [net EXCEPT ![s] = n]
  BY <1>1, <1>2 DEF InputEof
<1> QED
  BY <1>3, <1>4, ReadKeeps DEF InputEof

LEMMA ScanKeeps ==
  ASSUME NetInv, NEW s \in Sessions, Scan(s)
  PROVE  NetInv'
PROOF
<1>1. net \in [Sessions -> NetRecords] /\ net[s] \in NetRecords
  BY DEF NetInv, NetTypes
<1>2. net[s].chunk \in Seq(Cells) /\ net[s].buf \in Seq(Cells)
  BY <1>1 DEF NetRecords
<1>3. PICK m : m = DetectEndtag(net[s].chunk)
  OBVIOUS
<1>4. m \in 0..Len(net[s].chunk)
  BY <1>2, <1>3, DetectFacts
<1>5. CASE m = 0
  <2>1. PICK b : b = net[s].buf \o net[s].chunk
    OBVIOUS
  <2>2. b \in Seq(Cells) /\ <<>> \in Seq(Cells)
    BY <1>2, <2>1
  <2>3. PICK n : n = [net[s] EXCEPT !.buf = b, !.chunk = <<>>, !.stage = "loop"]
    OBVIOUS
  <2>4. n \in NetRecords /\ n.out = net[s].out /\ n.todo = net[s].todo /\ n.at = net[s].at /\ n.errs = net[s].errs /\ n.stage = "loop"
    BY <1>1, <2>2, <2>3 DEF NetRecords, NetStages
  <2>5. net' = [net EXCEPT ![s] = n]
    BY <1>1, <1>3, <1>5, <2>1, <2>3 DEF Scan
  <2> QED
    BY <2>4, <2>5, ReadKeeps DEF Scan
<1>6. CASE m # 0
  <2>1. PICK b, c : /\ b = net[s].buf \o SubSeq(net[s].chunk, 1, m)
                    /\ c = SubSeq(net[s].chunk, m + 1, Len(net[s].chunk))
    OBVIOUS
  <2>2. b \in Seq(Cells) /\ c \in Seq(Cells)
    <3>1. SubSeq(net[s].chunk, 1, m) \in Seq(Cells) /\ c \in Seq(Cells)
      BY <1>2, <1>4, <2>1, PieceFacts
    <3> QED
      BY <1>2, <2>1, <3>1
  <2>3. PICK n : n = [net[s] EXCEPT !.buf = b, !.chunk = c, !.stage = "packet"]
    OBVIOUS
  <2>4. n \in NetRecords /\ n.out = net[s].out /\ n.todo = net[s].todo /\ n.at = net[s].at /\ n.errs = net[s].errs /\ n.stage = "packet"
    BY <1>1, <2>2, <2>3 DEF NetRecords, NetStages
  <2>5. net' = [net EXCEPT ![s] = n]
    BY <1>1, <1>3, <1>6, <2>1, <2>3 DEF Scan
  <2> QED
    BY <2>4, <2>5, ReadKeeps DEF Scan
<1> QED
  BY <1>5, <1>6

LEMMA PacketKeeps ==
  ASSUME NetInv, NEW s \in Sessions, Packet(s)
  PROVE  NetInv'
PROOF
<1>1. net \in [Sessions -> NetRecords] /\ net[s] \in NetRecords /\ HandSound(net[s])
  BY DEF NetInv, NetTypes
<1>2. net[s].buf \in Seq(Cells) /\ net[s].stage = "packet"
  BY <1>1 DEF NetRecords, Packet
<1>3. PICK i : i = SelectInSeq(net[s].buf, IsRpc)
  OBVIOUS
<1>4. i # 0 => i \in 1..Len(net[s].buf)
  <2>1. PICK I : I = {j \in 1..Len(net[s].buf) : IsRpc(net[s].buf[j])}
    OBVIOUS
  <2>2. i = IF I # {} THEN Min(I) ELSE 0
    BY <1>3, <2>1 DEF SelectInSeq
  <2>3. I \subseteq Nat /\ I \subseteq 1..Len(net[s].buf)
    BY <2>1
  <2> QED
    BY <2>2, <2>3, MinFacts
<1>5. CASE net' = [net EXCEPT ![s] = Resume(net[s])]
  <2>1. PICK r \in NetRecords : r = Resume(net[s]) /\ AtRest(r) /\ r.out = net[s].out /\ r.todo = net[s].todo
    BY <1>1, ResumeFacts
  <2>2. net' = [net EXCEPT ![s] = r]
    BY <1>5, <2>1
  <2>3. net[s].at = 1 /\ net[s].errs = 0 /\ UNCHANGED candFile
    BY <1>1, <1>2 DEF HandSound, Packet
  <2> QED
    BY <1>2, <2>1, <2>2, <2>3, ReadKeeps DEF AtRest
<1>6. CASE i # 0 /\ net' = [net EXCEPT ![s] = [net[s] EXCEPT !.stage = "rpc", !.cur = net[s].buf[i]]]
  <2>1. PICK x : x = net[s].buf[i]
    OBVIOUS
  <2>2. x \in Cells
    BY <1>2, <1>4, <1>6, <2>1
  <2>3. PICK n : n = [net[s] EXCEPT !.stage = "rpc", !.cur = x]
    OBVIOUS
  <2>4. n \in NetRecords /\ n.out = net[s].out /\ n.todo = net[s].todo /\ n.at = net[s].at /\ n.errs = net[s].errs /\ n.stage = "rpc" /\ n.cur = x
    BY <1>1, <2>2, <2>3 DEF NetRecords, NetStages
  <2>5. net[s].todo = <<>>
    BY <1>1, <1>2 DEF HandSound
  <2>8. 1 \in 1..Len(x) /\ 0 \in 0..(1 - 1)
    BY <2>2, CellFacts
  <2>9. n.at = 1 /\ n.errs = 0 /\ AllWorded(n.out)
    BY <1>1, <1>2, <2>4 DEF HandSound
  <2>6. HandSound(n) /\ (Excused(net[s]) => Excused(n))
    BY <1>2, <2>2, <2>4, <2>5, <2>8, <2>9 DEF HandSound, Excused, Told
  <2>7. net' = [net EXCEPT ![s] = n]
    BY <1>6, <2>1, <2>3
  <2> QED
    BY <1>2, <2>4, <2>6, <2>7, NetStepKeeps DEF Packet
<1> QED
  BY <1>3, <1>5, <1>6 DEF Packet

LEMMA InitCandidateKeeps ==
  ASSUME NetInv, NEW s \in Sessions, InitCandidateDb(s)
  PROVE  NetInv'
PROOF
<1>1. net \in [Sessions -> NetRecords] /\ net[s] \in NetRecords /\ HandSound(net[s]) /\ net[s].stage = "start"
  BY DEF NetInv, NetTypes, InitCandidateDb
<1>2. PICK x \in {"loop", "gone"} : /\ net' = [net EXCEPT ![s].stage = x]
                                    /\ candFile' \/ (x = "gone" /\ UNCHANGED candFile)
  BY DEF InitCandidateDb, CopyDone, BackendFails
<1>3. PICK n : n = [net[s] EXCEPT !.stage = x]
  OBVIOUS
<1>4. n \in NetRecords /\ n.out = net[s].out /\ n.todo = net[s].todo /\ n.at = net[s].at /\ n.errs = net[s].errs /\ n.stage = x
  BY <1>1, <1>3 DEF NetRecords, NetStages
<1>5. HandSound(n) /\ (Excused(net[s]) => Excused(n))
  BY <1>1, <1>4 DEF HandSound, AtRest, Excused, Told
<1>6. net' = [net EXCEPT ![s] = n]
  BY <1>1, <1>2, <1>3
<1>7. CASE candFile'
  BY <1>4, <1>5, <1>6, <1>7, NetStepKeeps
<1>8. CASE x = "gone" /\ UNCHANGED candFile
  <2>1. ~candFile' => ~candFile
    BY <1>8, Zenon
  <2>2. n.stage \in {"start", "gone"}
    BY <1>4, <1>8
  <2> QED
    BY <1>4, <1>5, <1>6, <2>1, <2>2, NetStepKeeps
<1> QED
  BY <1>2, <1>7, <1>8, Zenon

\* The session waits for ever, or its process has come to an assertion.
LEMMA StopKeeps ==
  ASSUME NetInv, NEW s \in Sessions, net[s].stage = "rpc", NEW x \in {"stuck", "aborted"},
         net' = [net EXCEPT ![s].stage = x],
         x = "aborted" => net[s].todo = <<>> /\ (candFile => candFile')
  PROVE  NetInv'
PROOF
<1>1. net \in [Sessions -> NetRecords] /\ net[s] \in NetRecords /\ HandSound(net[s])
  BY DEF NetInv, NetTypes
<1>2. PICK n : n = [net[s] EXCEPT !.stage = x]
  OBVIOUS
<1>3. n \in NetRecords /\ n.out = net[s].out /\ n.todo = net[s].todo /\ n.at = net[s].at /\ n.errs = net[s].errs /\ n.stage = x /\ n.cur = net[s].cur
  BY <1>1, <1>2 DEF NetRecords, NetStages
<1>4. HandSound(n) /\ (Excused(net[s]) => Excused(n)) /\ (x = "stuck" => Excused(n))
  BY <1>1, <1>3 DEF HandSound, AtRest, Excused, Told
<1>5. net' = [net EXCEPT ![s] = n]
  BY <1>1, <1>2
<1> QED
  BY <1>3, <1>4, <1>5, NetStepKeeps

\* As many errors as there are elements, and one more for an edit.
LEMMA FailureWorded ==
  ASSUME NetInv, NEW s \in Sessions, net[s].stage = "rpc", NEW own \in Nat,
         own \in 0..1 \/ (own = 2 /\ Range(net[s].cur) \cap EditTags # {}), net[s].errs + own # 0
  PROVE  net[s].errs + own \in 1..MostErrors(net[s].cur)
PROOF
<1>1. net[s].cur \in Cells /\ net[s].at \in 1..Len(net[s].cur) /\ net[s].errs \in 0..(net[s].at - 1)
  BY DEF NetInv, NetTypes, HandSound
<1>2. PICK l \in Nat : l = Len(net[s].cur)
  BY <1>1, CellFacts
<1>3. PICK e \in Nat : e = net[s].errs /\ e + 1 <= l
  <2>1. PICK c : c = net[s].at
    OBVIOUS
  <2>2. PICK e : e = net[s].errs
    OBVIOUS
  <2>3. c \in 1..l /\ e \in 0..(c - 1)
    BY <1>1, <1>2, <2>1, <2>2
  <2>4. e \in Nat /\ e + 1 <= l
    BY <2>3
  <2> QED
    BY <2>2, <2>4
<1>4. CASE own \in 0..1
  <2>1. MostErrors(net[s].cur) \in {l, l + 1}
    <3>1. l + 0 = l
      OBVIOUS
    <3>2. MostErrors(net[s].cur) = l + 0 \/ MostErrors(net[s].cur) = l + 1
      BY <1>2, Zenon DEF MostErrors
    <3> QED
      BY <3>1, <3>2
  <2>2. e + own >= 1 /\ e + own <= l
    BY <1>3, <1>4
  <2> QED
    BY <1>3, <2>1, <2>2
<1>5. CASE own = 2 /\ Range(net[s].cur) \cap EditTags # {}
  <2>1. MostErrors(net[s].cur) = l + 1
    BY <1>2, <1>5 DEF MostErrors
  <2> QED
    BY <1>3, <1>5, <2>1
<1> QED
  BY <1>4, <1>5

\* A handler fails: the peer is told, or the process comes to an assertion.
LEMMA FailureKeeps ==
  ASSUME NetInv, NEW s \in Sessions, net[s].stage = "rpc", NEW own \in Nat, FailsWith(s, own),
         own \in 0..1 \/ (own = 2 /\ Range(net[s].cur) \cap EditTags # {}),
         own = 0 => net[s].todo = <<>>, candFile => candFile'
  PROVE  NetInv'
PROOF
<1>1. net \in [Sessions -> NetRecords] /\ net[s] \in NetRecords /\ HandSound(net[s])
  BY DEF NetInv, NetTypes
<1>2. PICK msgs \in Nat : msgs = net[s].errs + own
  BY <1>1 DEF NetRecords
<1>3. CASE msgs = 0
  <2>1. own = 0
    BY <1>1, <1>2, <1>3 DEF NetRecords
  <2>2. net' = [net EXCEPT ![s].stage = "aborted"]
    BY <1>1, <1>2, <1>3 DEF FailsWith
  <2> QED
    BY <2>1, <2>2, StopKeeps
<1>4. CASE msgs # 0
  <2>0. msgs \in 1..MostErrors(net[s].cur)
    BY <1>2, <1>4, FailureWorded
  <2>1. PICK o \in NetRecords :
          /\ o = Output(net[s], "error", msgs)
          /\ (Told(net[s]) => Told(o))
          /\ ("delete-config" \in Range(net[s].cur) => Told(o))
          /\ AllWorded(o.out)
    BY <1>1, <2>0, OutputFacts DEF HandSound
  <2>2. PICK e : e = [o EXCEPT !.todo = <<>>]
    OBVIOUS
  <2>3. e \in NetRecords /\ e.out = o.out /\ e.todo = <<>>
    BY <2>1, <2>2 DEF NetRecords
  <2>4. PICK r \in NetRecords : /\ r = Resume(e) /\ AtRest(r) /\ r.todo = <<>> /\ r.out = e.out
    BY <2>3, ResumeFacts
  <2>5. Excused(net[s]) => Told(r)
    <3>1. Told(o) => Told(r)
      BY <2>3, <2>4 DEF Told
    <3>2. net[s].todo = <<"initdb">> => "delete-config" \in Range(net[s].cur)
      BY <1>1 DEF HandSound
    <3> QED
      BY <2>1, <3>1, <3>2 DEF Excused
  <2>6. HandSound(r) /\ (Excused(net[s]) => Excused(r))
    BY <2>1, <2>3, <2>4, <2>5 DEF HandSound, AtRest, Excused
  <2>7. net' = [net EXCEPT ![s] = r]
    BY <1>2, <1>4, <2>1, <2>2, <2>4 DEF FailsWith
  <2> QED
    BY <2>6, <2>7, NetStepKeeps
<1> QED
  BY <1>3, <1>4

\* The dispatcher goes on to the next element.
LEMMA NextElementKeeps ==
  ASSUME NetInv, NEW s \in Sessions, net[s].stage = "rpc", net[s].todo = <<>>, ~AtLast(s), NEW own \in 0..1,
         NextElement(s, own), UNCHANGED candFile
  PROVE  NetInv'
PROOF
<1>1. net \in [Sessions -> NetRecords] /\ net[s] \in NetRecords /\ HandSound(net[s])
  BY DEF NetInv, NetTypes
<1>2. PICK at \in Nat, errs \in Nat : at = net[s].at + 1 /\ errs = net[s].errs + own
  BY <1>1 DEF NetRecords
<1>3. PICK n : n = [net[s] EXCEPT !.at = at, !.errs = errs]
  OBVIOUS
<1>4. /\ n \in NetRecords /\ n.out = net[s].out /\ n.todo = <<>> /\ n.stage = "rpc" /\ n.cur = net[s].cur
      /\ n.at = at /\ n.errs = errs
  BY <1>1, <1>2, <1>3 DEF NetRecords
<1>5. HandSound(n)
  <2>1. PICK l : l = Len(net[s].cur)
    OBVIOUS
  <2>2. PICK c : c = net[s].at
    OBVIOUS
  <2>3. c \in 1..l /\ c # l /\ net[s].errs \in 0..(c - 1) /\ at = c + 1 /\ l \in Int
    <3>1. net[s].cur \in Cells /\ Len(net[s].cur) \in Int
      <4>1. net[s].cur \in Cells
        BY <1>1 DEF HandSound
      <4> QED
        BY <4>1, CellFacts
    <3> QED
      BY <1>1, <1>2, <2>1, <2>2, <3>1 DEF HandSound, AtLast
  <2>4. at \in 1..l /\ errs \in 0..(at - 1)
    BY <1>2, <2>3
  <2>5. AllWorded(n.out) /\ n.cur \in Cells
    BY <1>1, <1>4 DEF HandSound
  <2>6. n.at \in 1..Len(n.cur) /\ n.errs \in 0..(n.at - 1)
    BY <1>4, <2>1, <2>4
  <2> QED
    BY <1>4, <2>5, <2>6 DEF HandSound
<1>6. Excused(net[s]) => Excused(n)
  BY <1>4 DEF Excused, Told
<1>7. net' = [net EXCEPT ![s] = n]
  BY <1>1, <1>2, <1>3 DEF NextElement
<1> QED
  BY <1>4, <1>5, <1>6, <1>7, NetStepKeeps

\* What the dispatcher has found is one of the request's elements.
LEMMA DispatchedFacts ==
  ASSUME NetInv, NEW s \in Sessions, NEW tag, Doing(s, tag)
  PROVE  tag \in Range(net[s].cur)
PROOF
<1>1. net[s].cur \in Cells /\ net[s].at \in 1..Len(net[s].cur) /\ tag = net[s].cur[net[s].at]
  BY DEF NetInv, NetTypes, HandSound, Doing
<1>2. DOMAIN net[s].cur = 1..Len(net[s].cur)
  BY <1>1, CellFacts
<1> QED
  BY <1>1, <1>2 DEF Range

LEMMA CloseSessionKeeps ==
  ASSUME NetInv, NEW s \in Sessions, CloseSession(s)
  PROVE  NetInv'
PROOF
<1>1. net[s] \in NetRecords /\ net[s].stage = "rpc" /\ net[s].todo = <<>> /\ UNCHANGED candFile
  BY DEF NetInv, NetTypes, CloseSession, Doing, Local
<1>2. PICK o \in NetRecords : /\ o = Output(net[s], "ok", 1) /\ o.todo = <<>> /\ (Told(net[s]) => Told(o))
                              /\ AllWorded(o.out)
  BY <1>1, ReplyFacts
<1>3. PICK e : e = [o EXCEPT !.closed = TRUE]
  OBVIOUS
<1>4. e \in NetRecords /\ e.out = o.out /\ e.todo = <<>>
  BY <1>2, <1>3 DEF NetRecords
<1>5. PICK r \in NetRecords : /\ r = Resume(e) /\ AtRest(r) /\ r.todo = <<>> /\ r.out = e.out
  BY <1>4, ResumeFacts
<1>6. HandSound(r) /\ (Excused(net[s]) => Excused(r))
  BY <1>1, <1>2, <1>4, <1>5 DEF HandSound, AtRest, Excused, Told
<1>7. net' = [net EXCEPT ![s] = r]
  BY <1>2, <1>3, <1>5 DEF CloseSession
<1> QED
  BY <1>1, <1>6, <1>7, NetStepKeeps

LEMMA CreateSubscriptionKeeps ==
  ASSUME NetInv, NEW s \in Sessions, CreateSubscription(s)
  PROVE  NetInv'
PROOF
<1>1. net[s] \in NetRecords /\ net[s].stage = "rpc" /\ net[s].todo = <<>> /\ UNCHANGED candFile
  BY DEF NetInv, NetTypes, CreateSubscription, Doing, Local
<1>2. CASE Error(s)
  BY <1>1, <1>2, FailureKeeps DEF Error
<1>3. CASE net' = [net EXCEPT ![s] = Resume([Output(net[s], "ok", 1) EXCEPT !.subs = net[s].subs + 1])]
  <2>2. PICK o \in NetRecords : /\ o = Output(net[s], "ok", 1) /\ o.todo = <<>> /\ (Told(net[s]) => Told(o))
                                /\ AllWorded(o.out)
    BY <1>1, ReplyFacts
  <2>3. PICK e : e = [o EXCEPT !.subs = net[s].subs + 1]
    OBVIOUS
  <2>4. e \in NetRecords /\ e.out = o.out /\ e.todo = <<>>
    <3>1. net[s].subs + 1 \in Nat
      BY <1>1, SMTT(30) DEF NetRecords
    <3> QED
      BY <2>2, <2>3, <3>1 DEF NetRecords
  <2>5. PICK r \in NetRecords : /\ r = Resume(e) /\ AtRest(r) /\ r.todo = <<>> /\ r.out = e.out
    BY <2>4, ResumeFacts
  <2>6. HandSound(r) /\ (Excused(net[s]) => Excused(r))
    BY <1>1, <2>2, <2>4, <2>5 DEF HandSound, AtRest, Excused, Told
  <2>7. net' = [net EXCEPT ![s] = r]
    BY <1>3, <2>2, <2>3, <2>5
  <2> QED
    BY <1>1, <2>6, <2>7, NetStepKeeps
<1> QED
  BY <1>2, <1>3 DEF CreateSubscription

\* edit-config and replace-config: the backend that gets stuck takes the
\* candidate away, and so does not answer.
LEMMA EditConfigKeeps ==
  ASSUME NetInv, NEW s \in Sessions, NEW tag \in EditTags, EditConfig(s, tag)
  PROVE  NetInv'
PROOF
<1>1. net[s].stage = "rpc" /\ net[s].todo = <<>>
  BY DEF EditConfig, Doing
<1>5. Range(net[s].cur) \cap EditTags # {}
  BY DispatchedFacts DEF EditConfig
<1>2. CASE LoadDone /\ Ok(s)
  <2>1. candFile => candFile'
    BY <1>2, Zenon DEF LoadDone
  <2> QED
    BY <1>1, <1>2, <2>1, AnswerKeeps DEF Ok
<1>3. CASE BackendFails /\ \E own \in 0..2 : FailsWith(s, own)
  <2>1. candFile => candFile'
    BY <1>3, Zenon DEF BackendFails
  <2> QED
    BY <1>1, <1>3, <1>5, <2>1, FailureKeeps
<1>4. CASE Stuck(s)
  BY <1>1, <1>4, StopKeeps DEF Stuck
<1> QED
  BY <1>2, <1>3, <1>4 DEF EditConfig

LEMMA CopyConfigKeeps ==
  ASSUME NetInv, NEW s \in Sessions, CopyConfig(s)
  PROVE  NetInv'
PROOF
<1>1. net[s].stage = "rpc" /\ net[s].todo = <<>>
  BY DEF CopyConfig, Doing
<1>2. candFile => candFile'
  BY Zenon DEF CopyConfig, CopyDone, BackendFails
<1>3. CASE Ok(s)
  BY <1>1, <1>2, <1>3, AnswerKeeps DEF Ok
<1>4. CASE FailsWith(s, 0)
  BY <1>1, <1>2, <1>4, FailureKeeps
<1> QED
  BY <1>3, <1>4 DEF CopyConfig

\* The two calls of a delete-config: after the first the candidate is gone
\* and the request is in hand; after the second it is there again, or the
\* sender is told or waits.
LEMMA DeleteConfigKeeps ==
  ASSUME NetInv, NEW s \in Sessions, DeleteConfig(s) \/ DeleteConfig2(s)
  PROVE  NetInv'
PROOF
<1>1. net \in [Sessions -> NetRecords] /\ net[s] \in NetRecords /\ HandSound(net[s]) /\ net[s].stage = "rpc"
  BY DEF NetInv, NetTypes, DeleteConfig, DeleteConfig2, Doing
<1>2. CASE RmDone /\ DeleteConfig(s) /\ net' = [net EXCEPT ![s].todo = <<"initdb">>]
  <2>1. PICK n : n = [net[s] EXCEPT !.todo = <<"initdb">>]
    OBVIOUS
  <2>2. /\ n \in NetRecords /\ n.todo = <<"initdb">> /\ n.stage = net[s].stage /\ n.cur = net[s].cur
        /\ n.at = net[s].at /\ n.errs = net[s].errs /\ n.out = net[s].out
    BY <1>1, <2>1 DEF NetRecords
  <2>3. "delete-config" \in Range(net[s].cur)
    BY <1>2, DispatchedFacts DEF DeleteConfig
  <2>4. HandSound(n) /\ Excused(n)
    BY <1>1, <2>2, <2>3 DEF HandSound, Excused
  <2>5. net' = [net EXCEPT ![s] = n]
    BY <1>1, <1>2, <2>1
  <2> QED
    BY <1>1, <2>2, <2>4, <2>5, NetStepKeeps
<1>3. CASE BackendFails /\ Error(s)
  <2>1. candFile => candFile'
    BY <1>3, Zenon DEF BackendFails
  <2> QED
    BY <1>1, <1>3, <2>1, FailureKeeps DEF Error
<1>4. CASE Stuck(s)
  BY <1>1, <1>4, StopKeeps DEF Stuck
<1>5. CASE InitdbDone /\ net' = [net EXCEPT ![s] = Resume([Output(net[s], "ok", 1) EXCEPT !.todo = <<>>])]
  <2>1. PICK o \in NetRecords : o = Output(net[s], "ok", 1) /\ AllWorded(o.out)
    BY <1>1, OutputFacts DEF HandSound
  <2>2. PICK e : e = [o EXCEPT !.todo = <<>>]
    OBVIOUS
  <2>3. e \in NetRecords /\ e.out = o.out /\ e.todo = <<>>
    BY <2>1, <2>2 DEF NetRecords
  <2>4. PICK r \in NetRecords : r = Resume(e) /\ AtRest(r) /\ r.out = e.out /\ r.todo = <<>>
    BY <2>3, ResumeFacts
  <2>5. HandSound(r)
    BY <2>1, <2>3, <2>4 DEF HandSound, AtRest
  <2>6. net' = [net EXCEPT ![s] = r]
    BY <1>5, <2>1, <2>2, <2>4
  <2>7. candFile'
    BY <1>5 DEF InitdbDone
  <2> QED
    BY <2>4, <2>5, <2>6, <2>7, NetStepKeeps
<1>6. DeleteConfig(s) => \/ RmDone /\ net' = [net EXCEPT ![s].todo = <<"initdb">>]
                         \/ BackendFails /\ Error(s)
  BY DEF DeleteConfig
<1>7. DeleteConfig2(s) => \/ InitdbDone /\ net' = [net EXCEPT ![s] = Resume([Output(net[s], "ok", 1) EXCEPT !.todo = <<>>])]
                          \/ BackendFails /\ (Error(s) \/ Stuck(s))
  BY DEF DeleteConfig2
<1> QED
  BY <1>2, <1>3, <1>4, <1>5, <1>6, <1>7

\* The requests whose one call of the backend, if any, leaves the candidate
\* where it is or makes one.
LEMMA RequestKeeps ==
  ASSUME NetInv, NEW s \in Sessions,
         \/ Incomplete(s) \/ GetConfig(s) \/ EditNone(s) \/ Lock(s) \/ Unlock(s) \/ Validate(s) \/ KillSession(s)
         \/ Commit(s) \/ DiscardChanges(s) \/ PluginTag(s) \/ UnknownTag(s)
  PROVE  NetInv'
PROOF
<1>1. net[s].stage = "rpc" /\ net[s].todo = <<>>
  BY DEF Incomplete, GetConfig, EditNone, Lock, Unlock, Validate, KillSession, Commit, DiscardChanges, PluginTag, UnknownTag,
     Doing
<1>2. candFile => candFile'
  BY Zenon DEF Incomplete, GetConfig, EditNone, Lock, Unlock, Validate, KillSession, Commit, DiscardChanges, PluginTag,
     UnknownTag, Local, CommitDone, CopyDone, BackendFails
<1>3. \/ Ok(s) \/ Data(s) \/ \E own \in 0..1 : FailsWith(s, own)
      \/ ~AtLast(s) /\ UNCHANGED candFile /\ \E own \in 0..1 : NextElement(s, own)
  <2>1. 0 \in 0..1 /\ 1 \in 0..1
    OBVIOUS
  <2> QED
    BY <2>1, Zenon DEF Incomplete, GetConfig, EditNone, Lock, Unlock, Validate, KillSession, Commit, DiscardChanges, PluginTag,
       UnknownTag, Error, Local
<1>4. CASE Ok(s)
  BY <1>1, <1>2, <1>4, AnswerKeeps DEF Ok
<1>5. CASE Data(s)
  BY <1>1, <1>2, <1>5, AnswerKeeps DEF Data
<1>6. CASE \E own \in 0..1 : FailsWith(s, own)
  BY <1>1, <1>2, <1>6, FailureKeeps
<1>7. CASE ~AtLast(s) /\ UNCHANGED candFile /\ \E own \in 0..1 : NextElement(s, own)
  BY <1>1, <1>7, NextElementKeeps
<1> QED
  BY <1>3, <1>4, <1>5, <1>6, <1>7

LEMMA NotificationCbKeeps ==
  ASSUME NetInv, NEW s \in Sessions, NotificationCb(s)
  PROVE  NetInv'
PROOF
<1>1. net \in [Sessions -> NetRecords] /\ net[s] \in NetRecords /\ net[s].stage = "loop" /\ UNCHANGED candFile
  BY DEF NetInv, NetTypes, NotificationCb, Local
<1>2. CASE net' = [net EXCEPT ![s] = Output(net[s], "notification", 1)]
  <2>1. PICK o \in NetRecords : /\ o = Output(net[s], "notification", 1) /\ o.todo = net[s].todo
                                /\ o.stage = net[s].stage /\ o.cur = net[s].cur /\ (Told(net[s]) => Told(o))
                                /\ o.at = net[s].at /\ o.errs = net[s].errs /\ AllWorded(o.out)
    BY <1>1, OutputFacts, WordedSoFar
  <2>2. net' = [net EXCEPT ![s] = o]
    BY <1>2, <2>1
  <2> QED
    BY <1>1, <2>1, <2>2, ReadKeeps
<1>3. CASE net' = [net EXCEPT ![s].stage = "gone"]
  <2>1. PICK n : n = [net[s] EXCEPT !.stage = "gone"]
    OBVIOUS
  <2>2. n \in NetRecords /\ n.out = net[s].out /\ n.todo = net[s].todo /\ n.at = net[s].at /\ n.errs = net[s].errs /\ n.stage = "gone"
    BY <1>1, <2>1 DEF NetRecords, NetStages
  <2>3. net' = [net EXCEPT ![s] = n]
    BY <1>1, <1>3, <2>1
  <2> QED
    BY <1>1, <2>2, <2>3, ReadKeeps
<1> QED
  BY <1>2, <1>3 DEF NotificationCb

LEMMA NetStart0 == NetconfInit => NetInv
PROOF
<1> SUFFICES ASSUME NetconfInit PROVE NetInv
  OBVIOUS
<1>1. NetStart \in NetRecords
  <2>1. <<>> \in Seq(Cells) /\ <<>> \in Seq(Answers) /\ <<>> \in Seq(Texts)
    OBVIOUS
  <2> QED
    BY <2>1 DEF NetStart, NetRecords, NetStages
<1>2. HandSound(NetStart) /\ NetStart.stage = "start"
  <2>1. AllWorded(<<>>)
    BY DEF AllWorded, AnswersIn
  <2> QED
    BY <2>1 DEF HandSound, NetStart
<1>3. net \in [Sessions -> NetRecords] /\ \A s \in Sessions : net[s] = NetStart
  BY <1>1 DEF NetconfInit
<1> QED
  BY <1>2, <1>3 DEF NetInv, NetTypes

LEMMA NetStep == NetInv /\ [NetconfNext]_netconfVars => NetInv'
PROOF
<1> SUFFICES ASSUME NetInv, [NetconfNext]_netconfVars PROVE NetInv'
  OBVIOUS
<1>1. CASE UNCHANGED <<net, candFile>>
  BY <1>1 DEF NetInv, NetTypes
<1>2. ASSUME NEW s \in Sessions, NetconfStep(s) PROVE NetInv'
  <2>1. CASE PeerSends(s) \/ InitCandidateDb(s) \/ InputCb(s) \/ InputEof(s) \/ Scan(s) \/ Packet(s)
    BY <2>1, PeerSendsKeeps, InitCandidateKeeps, InputCbKeeps, InputEofKeeps, ScanKeeps, PacketKeeps
  <2>2. CASE EditConfig(s, "edit-config") \/ EditConfig(s, "replace-config") \/ CopyConfig(s)
    BY <2>2, EditConfigKeeps, CopyConfigKeeps DEF EditTags
  <2>3. CASE DeleteConfig(s) \/ DeleteConfig2(s)
    BY <2>3, DeleteConfigKeeps
  <2>4. CASE CloseSession(s) \/ CreateSubscription(s) \/ NotificationCb(s)
    BY <2>4, CloseSessionKeeps, CreateSubscriptionKeeps, NotificationCbKeeps
  <2>5. CASE \/ Incomplete(s) \/ GetConfig(s) \/ EditNone(s) \/ Lock(s) \/ Unlock(s) \/ Validate(s) \/ KillSession(s)
             \/ Commit(s) \/ DiscardChanges(s) \/ PluginTag(s) \/ UnknownTag(s)
    BY <2>5, RequestKeeps
  <2> QED
    BY <1>2, <2>1, <2>2, <2>3, <2>4, <2>5 DEF NetconfStep
<1> QED
  BY <1>1, <1>2 DEF NetconfNext, ForeignLock, netconfVars

\* Whatever the peers send and however their calls of the backend come
\* between each other: once a session runs, the candidate is missing only
\* while a delete-config is between its two calls, or after a request whose
\* sender waits or was told of an error.
THEOREM CandidateStays == NetconfSpec => []CandidateKept
PROOF
<1>1. NetInv => CandidateKept
  <2> SUFFICES ASSUME NetInv, ~candFile, NEW s \in Sessions, net[s].stage = "loop"
               PROVE  \E t \in Sessions : Excused(net[t])
    BY DEF CandidateKept, Excused, Told
  <2> QED
    BY DEF NetInv
<1> QED
  BY <1>1, NetStart0, NetStep, PTL DEF NetconfSpec

------------------------------------------------------------------------------
(***************************************************************************)
(* The answers of a netconf session.  What is buffered, in hand and on the *)
(* wire is the rest of the messages, three cells each, and what was        *)
(* written answers the rpcs before it.  Unless an end tag was cut in two,  *)
(* no read ends between the halves of one, so that the search, which       *)
(* starts anew in every chunk, finds each of them.                         *)
(***************************************************************************)
\* What is left of the cells of the messages once k of them are taken.
CellsLeft(u, sent, k) ==
  /\ Len(u) = 3 * (Len(sent) - k)
  /\ \A m \in 1..(Len(sent) - k) : u[3 * m - 2] = sent[k + m] /\ u[3 * m - 1] = EndTag /\ u[3 * m] = EndTag

\* After so many cells of whole messages, one half of an end tag is read.
SplitsTag(l) == l % 3 = 2

\* A session at work that is done with k messages.
AtWork == {"start", "loop", "scan", "packet", "rpc"}
Reading(n, k) ==
  /\ CellsLeft(Unread(n), n.sent, k) /\ Matched(n.out, n.sent, k)
  /\ ~SplitsTag(Len(n.buf) + Len(n.chunk))
  /\ n.stage \in {"start", "loop"} => n.chunk = <<>>
  /\ n.stage \in {"start", "loop", "scan"} => Len(n.buf) \in 0..1
  /\ n.stage \in {"packet", "rpc"} => Len(n.buf) = 3
  /\ n.stage = "rpc" => n.cur = n.sent[k + 1] /\ IsRpc(n.cur)

InOrder(n) == n.stage \in AtWork /\ ~n.split => \E k \in 0..Len(n.sent) : Reading(n, k)
OrderInv == \A s \in Sessions : InOrder(net[s])

\* Each message has one text.
LEMMA TextsLeft ==
  ASSUME NEW sent \in Seq(Texts), NEW k \in 0..Len(sent), NEW u \in Seq(Cells), CellsLeft(u, sent, k)
  PROVE  Texted(u) = Len(sent) - k
PROOF
<1> DEFINE n == Len(sent) - k
           P == {i \in DOMAIN u : u[i] # EndTag}
           f == [m \in 1..n |-> 3 * m - 2]
<1>1. n \in Nat /\ Len(u) = 3 * n /\ DOMAIN u = 1..(3 * n)
  BY DEF CellsLeft
<1>2. \A m \in 1..n : u[3 * m - 2] # EndTag /\ u[3 * m - 1] = EndTag /\ u[3 * m] = EndTag
  <2> TAKE m \in 1..n
  <2>1. sent[k + m] \in Texts
    OBVIOUS
  <2> QED
    BY <2>1, NetconfAssumption DEF CellsLeft
<1> HIDE DEF n
<1>3. \A i \in 1..(3 * n) : \E m \in 1..n : i = 3 * m - 2 \/ i = 3 * m - 1 \/ i = 3 * m
  <2> TAKE i \in 1..(3 * n)
  <2>1. PICK m \in 1..n : m = (i + 2) \div 3
    BY <1>1
  <2> QED
    BY <1>1, <2>1
<1>4. \A i \in P : \E m \in 1..n : i = 3 * m - 2
  BY <1>1, <1>2, <1>3
<1>5. \A m \in 1..n : 3 * m - 2 \in P
  BY <1>1, <1>2
<1> HIDE DEF P
<1>6. f \in Bijection(1..n, P)
  <2>1. f \in [1..n -> P] /\ \A m \in 1..n : f[m] = 3 * m - 2
    BY <1>5
  <2>2. \A a, b \in 1..n : f[a] = f[b] => a = b
    BY <1>1, <2>1
  <2>3. \A i \in P : \E m \in 1..n : f[m] = i
    BY <1>4, <2>1
  <2> HIDE DEF f
  <2> QED
    BY <2>1, <2>2, <2>3, Fun_IsBij
<1>7. IsFiniteSet(1..n) /\ Cardinality(1..n) = n
  <2>1. 1 \in Int /\ n \in Int
    BY <1>1
  <2>2. IsFiniteSet(1..n) /\ Cardinality(1..n) = IF 1 > n THEN 0 ELSE n - 1 + 1
    BY <2>1, FS_Interval
  <2> QED
    BY <1>1, <2>2
<1>8. Cardinality(P) = n
  BY <1>6, <1>7, FS_Bijection DEF ExistsBijection
<1> QED
  BY <1>8 DEF Texted, P, n

\* The set up to i.
LEMMA PlaceFacts ==
  ASSUME NEW n \in Nat, NEW S, S \subseteq 1..n
  PROVE  /\ IsFiniteSet(S) /\ Cardinality(S) \in Nat
         /\ \A i \in 1..n : Place(S, i) \in 0..Cardinality(S)
         /\ \A m \in Nat : m > n => /\ Cardinality(S \cup {m}) = Cardinality(S) + 1
                                    /\ Place(S \cup {m}, m) = Cardinality(S) + 1
                                    /\ \A i \in 1..n : Place(S \cup {m}, i) = Place(S, i)
PROOF
<1>1. IsFiniteSet(S) /\ Cardinality(S) \in Nat
  <2>1. IsFiniteSet(1..n)
    <3>1. 1 \in Int /\ n \in Int
      OBVIOUS
    <3> QED
      BY <3>1, FS_Interval
  <2> QED
    BY <2>1, FS_Subset, FS_CardinalityType
<1>2. ASSUME NEW i \in 1..n PROVE Place(S, i) \in 0..Cardinality(S)
  <2> DEFINE T == {j \in S : j <= i}
  <2>1. T \subseteq S
    OBVIOUS
  <2> HIDE DEF T
  <2>2. Cardinality(T) <= Cardinality(S) /\ Cardinality(T) \in Nat
    BY <1>1, <2>1, FS_Subset, FS_CardinalityType
  <2> QED
    BY <1>1, <2>2 DEF Place, T
<1>3. ASSUME NEW m \in Nat, m > n PROVE Cardinality(S \cup {m}) = Cardinality(S) + 1
  BY <1>1, <1>3, FS_AddElement
<1>4. ASSUME NEW m \in Nat, m > n PROVE Place(S \cup {m}, m) = Cardinality(S) + 1
  <2>1. \A j \in S \cup {m} : j <= m
    BY <1>4
  <2>2. {j \in S \cup {m} : j <= m} = S \cup {m}
    BY <2>1
  <2> QED
    BY <1>3, <1>4, <2>2 DEF Place
<1>5. ASSUME NEW m \in Nat, m > n, NEW i \in 1..n PROVE Place(S \cup {m}, i) = Place(S, i)
  <2>1. {j \in S \cup {m} : j <= i} = {j \in S : j <= i}
    BY <1>5
  <2> QED
    BY <2>1 DEF Place
<1> QED
  BY <1>1, <1>2, <1>3, <1>4, <1>5

\* Nothing that counts has changed.
LEMMA MatchedSame ==
  ASSUME NEW out, NEW p, NEW sent, NEW q, NEW k, NEW j, Matched(out, sent, k),
         RpcsIn(q, j) = RpcsIn(sent, k), \A i \in RpcsIn(sent, k) : q[i] = sent[i],
         AnswersIn(p) = AnswersIn(out), \A i \in AnswersIn(out) : p[i].to = out[i].to
  PROVE  Matched(p, q, j)
BY DEF Matched

\* One more message to come.
LEMMA SentMore ==
  ASSUME NEW out, NEW sent \in Seq(Texts), NEW k \in 0..Len(sent), NEW x, Matched(out, sent, k)
  PROVE  Matched(out, Append(sent, x), k)
PROOF
<1>1. \A i \in 1..k : Append(sent, x)[i] = sent[i]
  OBVIOUS
<1>2. RpcsIn(Append(sent, x), k) = RpcsIn(sent, k)
  BY <1>1 DEF RpcsIn
<1>3. \A i \in RpcsIn(sent, k) : Append(sent, x)[i] = sent[i]
  BY <1>1 DEF RpcsIn
<1> QED
  BY <1>2, <1>3, MatchedSame

\* A notification, which answers nothing.
LEMMA NoteMore ==
  ASSUME NEW out \in Seq(Answers), NEW sent, NEW k, NEW x \in Answers, x.kind = "notification", Matched(out, sent, k)
  PROVE  Matched(Append(out, x), sent, k)
PROOF
<1>1. /\ DOMAIN Append(out, x) = 1..(Len(out) + 1) /\ DOMAIN out = 1..Len(out) /\ Len(out) \in Nat
      /\ \A i \in 1..Len(out) : Append(out, x)[i] = out[i]
      /\ Append(out, x)[Len(out) + 1] = x
  OBVIOUS
<1>2. AnswersIn(Append(out, x)) = AnswersIn(out)
  BY <1>1 DEF AnswersIn
<1>3. \A i \in AnswersIn(out) : Append(out, x)[i].to = out[i].to
  BY <1>1 DEF AnswersIn
<1> QED
  BY <1>2, <1>3, MatchedSame

\* A message that gets no answer.
LEMMA SkipMore ==
  ASSUME NEW out, NEW sent, NEW k \in Nat, ~IsRpc(sent[k + 1]), Matched(out, sent, k)
  PROVE  Matched(out, sent, k + 1)
PROOF
<1>1. RpcsIn(sent, k + 1) = RpcsIn(sent, k)
  BY DEF RpcsIn
<1> QED
  BY <1>1, MatchedSame

\* One rpc and its answer.
LEMMA AnswerMore ==
  ASSUME NEW out \in Seq(Answers), NEW sent, NEW k \in Nat, NEW x \in Answers, x.kind # "notification",
         IsRpc(sent[k + 1]), x.to = sent[k + 1], Matched(out, sent, k)
  PROVE  Matched(Append(out, x), sent, k + 1)
PROOF
<1> DEFINE p == Append(out, x)
           n == Len(out)
           R == RpcsIn(sent, k)
           A == AnswersIn(out)
<1>1. /\ n \in Nat /\ DOMAIN p = 1..(n + 1) /\ DOMAIN out = 1..n
      /\ \A i \in 1..n : p[i] = out[i]
      /\ p[n + 1] = x
  OBVIOUS
<1> HIDE DEF p, n
<1>2. AnswersIn(p) = A \cup {n + 1} /\ A \subseteq 1..n
  BY <1>1 DEF AnswersIn
<1>3. RpcsIn(sent, k + 1) = R \cup {k + 1} /\ R \subseteq 1..k
  BY DEF RpcsIn
<1>4. /\ Cardinality(R) = Cardinality(A)
      /\ \A i \in R, j \in A : Place(R, i) = Place(A, j) => out[j].to = sent[i]
  BY DEF Matched
<1> HIDE DEF R, A
<1>5. /\ Cardinality(R) \in Nat /\ Cardinality(A) \in Nat
      /\ \A i \in 1..k : Place(R, i) \in 0..Cardinality(R) /\ Place(R \cup {k + 1}, i) = Place(R, i)
      /\ Place(R \cup {k + 1}, k + 1) = Cardinality(R) + 1 /\ Cardinality(R \cup {k + 1}) = Cardinality(R) + 1
      /\ \A j \in 1..n : Place(A, j) \in 0..Cardinality(A) /\ Place(A \cup {n + 1}, j) = Place(A, j)
      /\ Place(A \cup {n + 1}, n + 1) = Cardinality(A) + 1 /\ Cardinality(A \cup {n + 1}) = Cardinality(A) + 1
  <2>1. k + 1 \in Nat /\ k + 1 > k /\ n + 1 \in Nat /\ n + 1 > n
    BY <1>1
  <2>2. /\ Cardinality(R) \in Nat /\ \A i \in 1..k : Place(R, i) \in 0..Cardinality(R)
        /\ \A m \in Nat : m > k => /\ Cardinality(R \cup {m}) = Cardinality(R) + 1
                                   /\ Place(R \cup {m}, m) = Cardinality(R) + 1
                                   /\ \A i \in 1..k : Place(R \cup {m}, i) = Place(R, i)
    BY <1>3, PlaceFacts
  <2>3. /\ Cardinality(A) \in Nat /\ \A i \in 1..n : Place(A, i) \in 0..Cardinality(A)
        /\ \A m \in Nat : m > n => /\ Cardinality(A \cup {m}) = Cardinality(A) + 1
                                   /\ Place(A \cup {m}, m) = Cardinality(A) + 1
                                   /\ \A i \in 1..n : Place(A \cup {m}, i) = Place(A, i)
    BY <1>1, <1>2, PlaceFacts
  <2> QED
    BY <2>1, <2>2, <2>3
<1>6. ASSUME NEW i \in R \cup {k + 1}, NEW j \in A \cup {n + 1},
             Place(R \cup {k + 1}, i) = Place(A \cup {n + 1}, j)
      PROVE  p[j].to = sent[i]
  <2>1. CASE i \in R /\ j \in A
    <3>1. Place(R, i) = Place(A, j) /\ p[j] = out[j]
      BY <1>1, <1>2, <1>3, <1>5, <1>6, <2>1
    <3> QED
      BY <1>4, <2>1, <3>1
  <2>2. CASE i \in R /\ j = n + 1
    BY <1>3, <1>4, <1>5, <1>6, <2>2
  <2>3. CASE i = k + 1 /\ j \in A
    <3>1. Place(A, j) \in 0..Cardinality(A) /\ Place(A \cup {n + 1}, j) = Place(A, j) /\ Cardinality(A) \in Nat
      BY <1>2, <1>5, <2>3
    <3>2. Place(R \cup {k + 1}, i) = Cardinality(A) + 1
      BY <1>4, <1>5, <2>3
    <3> QED
      BY <1>6, <3>1, <3>2
  <2>4. CASE i = k + 1 /\ j = n + 1
    BY <1>1, <2>4
  <2> QED
    BY <2>1, <2>2, <2>3, <2>4
<1>7. Cardinality(AnswersIn(p)) = Cardinality(RpcsIn(sent, k + 1))
  BY <1>2, <1>3, <1>4, <1>5
<1> QED
  BY <1>2, <1>3, <1>6, <1>7 DEF Matched, p

\* Two pieces one after the other.
LEMMA JoinFacts ==
  ASSUME NEW S, NEW a \in Seq(S), NEW b \in Seq(S)
  PROVE  /\ a \o b \in Seq(S) /\ Len(a) \in Nat /\ Len(b) \in Nat
         /\ Len(a \o b) = Len(a) + Len(b)
         /\ \A i \in 1..Len(a) : (a \o b)[i] = a[i]
         /\ \A i \in 1..Len(b) : (a \o b)[Len(a) + i] = b[i]
PROOF
<1>1. /\ a \o b \in Seq(S) /\ Len(a \o b) = Len(a) + Len(b)
      /\ \A i \in 1..Len(a) + Len(b) : (a \o b)[i] = IF i <= Len(a) THEN a[i] ELSE b[i - Len(a)]
  BY ConcatProperties
<1>2. Len(a) \in Nat /\ Len(b) \in Nat
  OBVIOUS
<1>3. ASSUME NEW i \in 1..Len(b) PROVE (a \o b)[Len(a) + i] = b[i]
  <2>1. Len(a) + i \in 1..Len(a) + Len(b) /\ ~(Len(a) + i <= Len(a)) /\ Len(a) + i - Len(a) = i
    BY <1>2
  <2> QED
    BY <1>1, <2>1
<1> QED
  BY <1>1, <1>2, <1>3

\* Counting by threes.
LEMMA ThirdCell ==
  ASSUME NEW l \in Nat, NEW n \in Nat, l <= 3 * n, SplitsTag(l)
  PROVE  \E j \in 1..n : l = 3 * j - 1
PROOF
<1>1. \A j \in Nat : j = (l + 1) \div 3 => l = 3 * j - 1
  BY DEF SplitsTag
<1>2. (l + 1) \div 3 \in Nat
  OBVIOUS
<1>3. PICK j \in Nat : l = 3 * j - 1
  BY <1>1, <1>2
<1>4. j \in 1..n
  BY <1>3
<1> QED
  BY <1>3, <1>4

LEMMA CellPlaces ==
  ASSUME NEW n \in Nat, NEW m \in 1..n
  PROVE  3 * m - 2 \in 1..(3 * n) /\ 3 * m - 1 \in 1..(3 * n) /\ 3 * m \in 1..(3 * n)
OBVIOUS

\* The messages after the first.
LEMMA FirstTaken ==
  ASSUME NEW sent \in Seq(Texts), NEW k \in 0..Len(sent), NEW b \in Seq(Cells), NEW v \in Seq(Cells),
         CellsLeft(b \o v, sent, k)
  PROVE  Len(b) = 3 => /\ k < Len(sent) /\ CellsLeft(v, sent, k + 1)
                       /\ b[1] = sent[k + 1] /\ b[2] = EndTag /\ b[3] = EndTag
PROOF
<1> DEFINE n == Len(sent) - k
<1>0. /\ Len(b \o v) = Len(b) + Len(v) /\ Len(v) \in Nat
      /\ \A i \in 1..Len(b) : (b \o v)[i] = b[i]
      /\ \A i \in 1..Len(v) : (b \o v)[Len(b) + i] = v[i]
  BY JoinFacts
<1> SUFFICES ASSUME Len(b) = 3
             PROVE  /\ k < Len(sent) /\ CellsLeft(v, sent, k + 1)
                    /\ b[1] = sent[k + 1] /\ b[2] = EndTag /\ b[3] = EndTag
  OBVIOUS
<1>1. /\ Len(b \o v) = 3 + Len(v) /\ Len(v) \in Nat
      /\ \A i \in 1..3 : (b \o v)[i] = b[i]
      /\ \A i \in 1..Len(v) : (b \o v)[3 + i] = v[i]
  BY <1>0
<1>2. n \in Nat /\ n >= 1 /\ Len(v) = 3 * (n - 1)
  BY <1>1 DEF CellsLeft
<1>3. ASSUME NEW m \in 1..(n - 1) PROVE v[3 * m - 2] = sent[k + 1 + m] /\ v[3 * m - 1] = EndTag /\ v[3 * m] = EndTag
  <2>1. m + 1 \in 1..n /\ 3 * m - 2 \in 1..Len(v) /\ 3 * m - 1 \in 1..Len(v) /\ 3 * m \in 1..Len(v)
    BY <1>2
  <2>2. (b \o v)[3 * (m + 1) - 2] = sent[k + (m + 1)] /\ (b \o v)[3 * (m + 1) - 1] = EndTag /\ (b \o v)[3 * (m + 1)] = EndTag
    BY <2>1 DEF CellsLeft
  <2>3. (b \o v)[3 + (3 * m - 2)] = v[3 * m - 2] /\ (b \o v)[3 + (3 * m - 1)] = v[3 * m - 1] /\ (b \o v)[3 + 3 * m] = v[3 * m]
    BY <1>1, <2>1
  <2>4. /\ 3 + (3 * m - 2) = 3 * (m + 1) - 2 /\ 3 + (3 * m - 1) = 3 * (m + 1) - 1 /\ 3 + 3 * m = 3 * (m + 1)
        /\ k + 1 + m = k + (m + 1)
    OBVIOUS
  <2> QED
    BY <2>2, <2>3, <2>4
<1>4. b[1] = sent[k + 1] /\ b[2] = EndTag /\ b[3] = EndTag
  <2>1. 1 \in 1..n
    BY <1>2
  <2>2. (b \o v)[3 * 1 - 2] = sent[k + 1] /\ (b \o v)[3 * 1 - 1] = EndTag /\ (b \o v)[3 * 1] = EndTag
    BY <2>1 DEF CellsLeft
  <2> QED
    BY <1>1, <2>2
<1> QED
  BY <1>2, <1>3, <1>4 DEF CellsLeft

\* The peer sends one more.
LEMMA OneMoreSent ==
  ASSUME NEW sent \in Seq(Texts), NEW k \in 0..Len(sent), NEW u \in Seq(Cells), NEW x \in Texts, CellsLeft(u, sent, k)
  PROVE  CellsLeft(u \o <<x, EndTag, EndTag>>, Append(sent, x), k)
PROOF
<1> DEFINE n == Len(sent) - k
           q == Append(sent, x)
           w == u \o <<x, EndTag, EndTag>>
<1>1. /\ Len(u) = 3 * n /\ n \in Nat
      /\ Len(w) = 3 * n + 3 /\ \A i \in 1..(3 * n) : w[i] = u[i]
      /\ w[3 * n + 1] = x /\ w[3 * n + 2] = EndTag /\ w[3 * n + 3] = EndTag
  <2> DEFINE z == <<x, EndTag, EndTag>>
  <2>1. z \in Seq(Cells) /\ Len(z) = 3 /\ z[1] = x /\ z[2] = EndTag /\ z[3] = EndTag
    BY DEF Cells
  <2> HIDE DEF z
  <2>2. Len(u) = 3 * n /\ n \in Nat
    BY DEF CellsLeft
  <2>3. /\ Len(u \o z) = Len(u) + Len(z)
        /\ \A i \in 1..Len(u) : (u \o z)[i] = u[i]
        /\ \A i \in 1..Len(z) : (u \o z)[Len(u) + i] = z[i]
    <3>1. z \in Seq(Cells)
      BY <2>1
    <3> QED
      BY <3>1, JoinFacts
  <2>4. Len(u \o z) = Len(u) + 3 /\ \A i \in 1..3 : (u \o z)[Len(u) + i] = z[i]
    BY <2>1, <2>3
  <2>5. w = u \o z
    BY DEF z
  <2> HIDE DEF w
  <2> QED
    BY <2>1, <2>2, <2>3, <2>4, <2>5
<1>2. /\ Len(q) = Len(sent) + 1 /\ \A i \in 1..Len(sent) : q[i] = sent[i]
      /\ q[Len(sent) + 1] = x
  OBVIOUS
<1> HIDE DEF w, q
<1>3. ASSUME NEW m \in 1..(n + 1) PROVE w[3 * m - 2] = q[k + m] /\ w[3 * m - 1] = EndTag /\ w[3 * m] = EndTag
  <2>1. CASE m \in 1..n
    <3>1. 3 * m - 2 \in 1..(3 * n) /\ 3 * m - 1 \in 1..(3 * n) /\ 3 * m \in 1..(3 * n)
      <4> HIDE DEF n
      <4> QED
        BY <1>1, <2>1, CellPlaces
    <3>0. k + m \in 1..Len(sent)
      BY <2>1
    <3>2. u[3 * m - 2] = sent[k + m] /\ u[3 * m - 1] = EndTag /\ u[3 * m] = EndTag
      BY <2>1 DEF CellsLeft
    <3> QED
      BY <1>1, <1>2, <3>0, <3>1, <3>2
  <2>2. CASE m = n + 1
    <3>1. 3 * m - 2 = 3 * n + 1 /\ 3 * m - 1 = 3 * n + 2 /\ 3 * m = 3 * n + 3 /\ k + m = Len(sent) + 1
      <4>1. k + m = Len(sent) + 1
        BY <2>2
      <4>2. 3 * m - 2 = 3 * n + 1 /\ 3 * m - 1 = 3 * n + 2 /\ 3 * m = 3 * n + 3
        <5> HIDE DEF n
        <5> QED
          BY <1>1, <2>2
      <4> QED
        BY <4>1, <4>2
    <3> QED
      BY <1>1, <1>2, <3>1
  <2> QED
    BY <1>1, <2>1, <2>2
<1>4. Len(w) = 3 * (Len(q) - k) /\ Len(q) - k = n + 1
  BY <1>1, <1>2
<1> QED
  BY <1>3, <1>4 DEF CellsLeft, w, q

\* A read that ends between the halves of an end tag is one that splits it.
LEMMA CutIsSplit ==
  ASSUME NEW sent \in Seq(Texts), NEW k \in 0..Len(sent), NEW b \in Seq(Cells), NEW w \in Seq(Cells),
         CellsLeft(b \o w, sent, k), NEW m \in 1..Len(w), SplitsTag(Len(b) + m)
  PROVE  m < Len(w) /\ w[m] = EndTag /\ w[m + 1] = EndTag
PROOF
<1> DEFINE n == Len(sent) - k
<1>1. /\ Len(b \o w) = Len(b) + Len(w) /\ Len(b) \in Nat /\ Len(w) \in Nat
      /\ \A i \in 1..Len(w) : (b \o w)[Len(b) + i] = w[i]
  BY JoinFacts
<1>2. n \in Nat /\ Len(b) + Len(w) = 3 * n
  BY <1>1 DEF CellsLeft
<1>3. PICK j \in 1..n : Len(b) + m = 3 * j - 1
  <2> HIDE DEF n
  <2>1. Len(b) + m \in Nat /\ Len(b) + m <= Len(b) + Len(w)
    BY <1>1
  <2>2. Len(b) + m <= 3 * n
    BY <1>2, <2>1
  <2> QED
    BY <1>2, <2>1, <2>2, ThirdCell
<1>4. (b \o w)[3 * j - 1] = EndTag /\ (b \o w)[3 * j] = EndTag
  BY <1>2, <1>3 DEF CellsLeft
<1>5. m + 1 \in 1..Len(w) /\ Len(b) + (m + 1) = 3 * j
  BY <1>1, <1>2, <1>3
<1> QED
  BY <1>1, <1>3, <1>4, <1>5

\* The end of the first message is found, if it is there.
LEMMA FirstEnd ==
  ASSUME NEW sent \in Seq(Texts), NEW k \in 0..Len(sent), NEW b \in Seq(Cells), NEW c \in Seq(Cells), NEW w \in Seq(Cells),
         CellsLeft(b \o c \o w, sent, k), Len(b) \in 0..1, ~SplitsTag(Len(b) + Len(c))
  PROVE  DetectEndtag(c) = IF Len(b) + Len(c) <= 1 THEN 0 ELSE 3 - Len(b)
PROOF
<1> DEFINE I == {i \in 2..Len(c) : c[i] = EndTag /\ c[i - 1] = EndTag}
           u == b \o c \o w
<1>1. DetectEndtag(c) = IF I = {} THEN 0 ELSE Min(I)
  BY DEF DetectEndtag
<1>2. /\ Len(b) \in 0..1 /\ Len(c) \in Nat /\ Len(w) \in Nat /\ Len(u) = Len(b) + Len(c) + Len(w)
      /\ \A i \in 1..Len(c) : u[Len(b) + i] = c[i]
  <2>1. /\ b \o c \in Seq(Cells) /\ Len(b) \in Nat /\ Len(c) \in Nat /\ Len(b \o c) = Len(b) + Len(c)
        /\ \A i \in 1..Len(c) : (b \o c)[Len(b) + i] = c[i]
    BY JoinFacts
  <2>2. PICK d \in Seq(Cells) : d = b \o c
    BY <2>1
  <2>3. /\ Len(w) \in Nat /\ Len(d \o w) = Len(d) + Len(w)
        /\ \A i \in 1..Len(d) : (d \o w)[i] = d[i]
    BY JoinFacts
  <2>4. u = d \o w
    BY <2>2
  <2> HIDE DEF u
  <2>5. Len(b) \in 0..1
    BY <2>1
  <2>6. Len(u) = Len(b) + Len(c) + Len(w)
    BY <2>1, <2>2, <2>3, <2>4
  <2>7. ASSUME NEW i \in 1..Len(c) PROVE u[Len(b) + i] = c[i]
    <3>1. Len(b) + i \in 1..Len(d)
      BY <2>1, <2>2
    <3> QED
      BY <2>1, <2>2, <2>3, <2>4, <3>1
  <2> QED
    BY <2>1, <2>3, <2>5, <2>6, <2>7
<1> HIDE DEF u
<1>3. CASE Len(b) + Len(c) <= 1
  <2>1. Len(c) <= 1
    BY <1>2, <1>3
  <2>2. 2..Len(c) = {}
    BY <1>2, <2>1
  <2>3. I = {}
    BY <2>2
  <2> QED
    BY <1>1, <1>3, <2>3
<1>4. CASE Len(b) + Len(c) >= 2
  <2> DEFINE p == 3 - Len(b)
  <2>0. Len(b) + Len(c) # 2
    <3>1. SplitsTag(2)
      BY DEF SplitsTag
    <3> QED
      BY <3>1
  <2>1. Len(b) + Len(c) >= 3 /\ p \in 2..Len(c) /\ p \in 2..3
    <3>1. PICK y \in 0..1, z \in Nat : y = Len(b) /\ z = Len(c)
      BY <1>2
    <3>2. y + z # 2 /\ y + z >= 2
      BY <1>4, <2>0, <3>1
    <3>3. y + z >= 3
      BY <3>2
    <3>4. 3 - y \in 2..z /\ 3 - y \in 2..3
      BY <3>3
    <3> QED
      BY <3>1, <3>3, <3>4
  <2>2. 1 \in 1..(Len(sent) - k) /\ sent[k + 1] \in Texts
    BY <1>2, <2>1 DEF CellsLeft, u
  <2>3. u[3 * 1 - 2] = sent[k + 1] /\ u[3 * 1 - 1] = EndTag /\ u[3 * 1] = EndTag
    BY <2>2 DEF CellsLeft, u
  <2>4. u[1] # EndTag /\ u[2] = EndTag /\ u[3] = EndTag
    <3>1. sent[k + 1] # EndTag
      BY <2>2, NetconfAssumption
    <3>2. 3 * 1 - 2 = 1 /\ 3 * 1 - 1 = 2 /\ 3 * 1 = 3
      OBVIOUS
    <3> QED
      BY <2>3, <3>1, <3>2
  <2>5. u[Len(b) + p] = c[p] /\ u[Len(b) + (p - 1)] = c[p - 1] /\ Len(b) + p = 3 /\ Len(b) + (p - 1) = 2
    <3>1. p - 1 \in 1..Len(c) /\ p \in 1..Len(c) /\ Len(b) + p = 3 /\ Len(b) + (p - 1) = 2
      BY <1>2, <2>1
    <3> HIDE DEF p
    <3> QED
      BY <1>2, <3>1
  <2>6. p \in I
    BY <2>1, <2>4, <2>5
  <2>7. \A i \in I : i >= p
    <3> SUFFICES ASSUME NEW i \in I, i < p PROVE FALSE
      BY <2>1
    <3>1. i = 2 /\ p = 3 /\ Len(b) = 0 /\ c[1] = EndTag
      BY <1>2, <2>1
    <3> QED
      BY <1>2, <2>1, <2>4, <3>1
  <2>8. p \in Int /\ I \subseteq Int
    BY <2>1
  <2> HIDE DEF I, p
  <2>9. Min(I) = p
    <3>1. \A j \in I : p <= j
      BY <2>7, <2>8
    <3>2. ASSUME NEW i \in I, \A j \in I : i <= j PROVE i = p
      <4>1. i <= p /\ i >= p /\ i \in Int
        BY <2>6, <2>7, <2>8, <3>2
      <4> QED
        BY <2>8, <4>1
    <3> QED
      BY <2>6, <3>1, <3>2 DEF Min
  <2> QED
    BY <1>1, <1>4, <2>1, <2>6, <2>9 DEF p
<1> QED
  BY <1>2, <1>3, <1>4

LEMMA PieceJoin ==
  ASSUME NEW S, NEW q \in Seq(S), NEW i \in 0..Len(q)
  PROVE  /\ SubSeq(q, 1, i) \in Seq(S) /\ SubSeq(q, i + 1, Len(q)) \in Seq(S) /\ Len(SubSeq(q, 1, i)) = i
         /\ SubSeq(q, 1, i) \o SubSeq(q, i + 1, Len(q)) = q
PROOF
<1>1. SubSeq(q, 1, i) \in Seq(S) /\ SubSeq(q, i + 1, Len(q)) \in Seq(S)
  BY PieceFacts
<1>2. Len(SubSeq(q, 1, i)) = i
  OBVIOUS
<1>3. SubSeq(q, 1, i) \o SubSeq(q, i + 1, Len(q)) = SubSeq(q, 1, Len(q))
  <2>1. 1 \in 1..Len(q) + 1 /\ i \in 1 - 1..Len(q) /\ Len(q) \in i..Len(q)
    OBVIOUS
  <2> QED
    BY <2>1, ConcatAdjacentSubSeq
<1>4. SubSeq(q, 1, Len(q)) = q
  BY SubSeqFull
<1> QED
  BY <1>1, <1>2, <1>3, <1>4

\* a \o b, for the provers to leave alone.
Joined(a, b) == a \o b

LEMMA JoinedFacts ==
  ASSUME NEW S, NEW a \in Seq(S), NEW b \in Seq(S)
  PROVE  Joined(a, b) \in Seq(S) /\ Len(Joined(a, b)) = Len(a) + Len(b) /\ Len(a) \in Nat /\ Len(b) \in Nat
BY JoinFacts DEF Joined

LEMMA JoinedNothing ==
  ASSUME NEW S, NEW a \in Seq(S)
  PROVE  Joined(a, <<>>) = a
BY ConcatEmptySeq DEF Joined

LEMMA JoinedAgain ==
  ASSUME NEW S, NEW a \in Seq(S), NEW b \in Seq(S), NEW c \in Seq(S)
  PROVE  Joined(Joined(a, b), c) = Joined(a, Joined(b, c))
BY ConcatAssociative DEF Joined

\* A sequence cut in two, likewise.
FirstOf(q, i) == SubSeq(q, 1, i)
RestOf(q, i) == SubSeq(q, i + 1, Len(q))

LEMMA CutFacts ==
  ASSUME NEW S, NEW q \in Seq(S), NEW i \in 0..Len(q)
  PROVE  /\ FirstOf(q, i) \in Seq(S) /\ RestOf(q, i) \in Seq(S) /\ Len(FirstOf(q, i)) = i
         /\ Joined(FirstOf(q, i), RestOf(q, i)) = q
BY PieceJoin DEF FirstOf, RestOf, Joined

\* The fields of a session.
LEMMA RecordFacts ==
  ASSUME NEW n \in NetRecords
  PROVE  /\ n.buf \in Seq(Cells) /\ n.chunk \in Seq(Cells) /\ n.wire \in Seq(Cells) /\ Unread(n) \in Seq(Cells)
         /\ n.sent \in Seq(Texts) /\ Len(n.sent) \in Nat /\ n.out \in Seq(Answers)
PROOF
<1>1. n.buf \in Seq(Cells) /\ n.chunk \in Seq(Cells) /\ n.wire \in Seq(Cells)
  BY DEF NetRecords
<1>2. n.sent \in Seq(Texts) /\ Len(n.sent) \in Nat /\ n.out \in Seq(Answers)
  BY DEF NetRecords
<1>3. Unread(n) \in Seq(Cells)
  BY <1>1, JoinFacts DEF Unread
<1> QED
  BY <1>1, <1>2, <1>3

\* What is left begins with what is buffered.
LEMMA FirstBuffered ==
  ASSUME NEW n \in NetRecords, NEW k \in 0..Len(n.sent), CellsLeft(Unread(n), n.sent, k)
  PROVE  /\ n.chunk \o n.wire \in Seq(Cells) /\ Unread(n) = n.buf \o (n.chunk \o n.wire)
         /\ Len(n.buf) = 3 => /\ k < Len(n.sent) /\ CellsLeft(n.chunk \o n.wire, n.sent, k + 1)
                              /\ n.buf[1] = n.sent[k + 1] /\ n.buf[2] = EndTag /\ n.buf[3] = EndTag
PROOF
<1>1. PICK b, c, w \in Seq(Cells) : b = n.buf /\ c = n.chunk /\ w = n.wire
  BY RecordFacts
<1>2. c \o w \in Seq(Cells) /\ (b \o c) \o w = b \o (c \o w)
  BY JoinFacts, ConcatAssociative
<1>3. Unread(n) = b \o (c \o w)
  BY <1>1, <1>2 DEF Unread
<1>4. PICK v \in Seq(Cells) : v = c \o w
  BY <1>2
<1>5. n.sent \in Seq(Texts) /\ CellsLeft(b \o v, n.sent, k)
  BY <1>3, <1>4, RecordFacts
<1>6. Len(b) = 3 => /\ k < Len(n.sent) /\ CellsLeft(v, n.sent, k + 1)
                    /\ b[1] = n.sent[k + 1] /\ b[2] = EndTag /\ b[3] = EndTag
  BY <1>5, FirstTaken
<1> QED
  BY <1>1, <1>2, <1>3, <1>4, <1>6

\* A message more at the end, a part of the wire, a part of the chunk: the
\* cells in the order they were in.
LEMMA UnreadJoined ==
  ASSUME NEW n
  PROVE  Unread(n) = Joined(Joined(n.buf, n.chunk), n.wire)
BY DEF Unread, Joined

LEMMA WireJoin ==
  ASSUME NEW n \in NetRecords, NEW z \in Seq(Cells)
  PROVE  Joined(Joined(n.buf, n.chunk), Joined(n.wire, z)) = Joined(Unread(n), z)
PROOF
<1>1. n.buf \in Seq(Cells) /\ n.chunk \in Seq(Cells) /\ n.wire \in Seq(Cells)
  BY RecordFacts
<1>2. Joined(n.buf, n.chunk) \in Seq(Cells)
  BY <1>1, JoinedFacts
<1>3. Joined(Joined(Joined(n.buf, n.chunk), n.wire), z) = Joined(Joined(n.buf, n.chunk), Joined(n.wire, z))
  BY <1>1, <1>2, JoinedAgain
<1> QED
  BY <1>3, UnreadJoined

LEMMA WireCut ==
  ASSUME NEW n \in NetRecords, NEW i \in 1..Len(n.wire)
  PROVE  LET c == FirstOf(n.wire, i)
             v == RestOf(n.wire, i)
         IN c \in Seq(Cells) /\ v \in Seq(Cells) /\ Len(c) = i /\ Joined(Joined(n.buf, c), v) = Joined(n.buf, n.wire)
PROOF
<1> DEFINE c == FirstOf(n.wire, i)
           v == RestOf(n.wire, i)
<1>1. n.buf \in Seq(Cells) /\ n.wire \in Seq(Cells) /\ i \in 0..Len(n.wire)
  BY RecordFacts
<1>2. c \in Seq(Cells) /\ v \in Seq(Cells) /\ Len(c) = i /\ Joined(c, v) = n.wire
  BY <1>1, CutFacts
<1> HIDE DEF c, v
<1>3. Joined(Joined(n.buf, c), v) = Joined(n.buf, Joined(c, v))
  BY <1>1, <1>2, JoinedAgain
<1> QED
  BY <1>2, <1>3 DEF c, v

LEMMA ChunkCut ==
  ASSUME NEW n \in NetRecords
  PROVE  LET d == DetectEndtag(n.chunk)
             e == Joined(n.buf, FirstOf(n.chunk, d))
             q == RestOf(n.chunk, d)
         IN /\ d \in 0..Len(n.chunk) /\ e \in Seq(Cells) /\ q \in Seq(Cells) /\ Joined(e, q) = Joined(n.buf, n.chunk)
            /\ Len(e) = Len(n.buf) + d /\ Len(e) + Len(q) = Len(n.buf) + Len(n.chunk)
PROOF
<1> DEFINE d == DetectEndtag(n.chunk)
<1>1. n.buf \in Seq(Cells) /\ n.chunk \in Seq(Cells)
  BY RecordFacts
<1>2. d \in 0..Len(n.chunk)
  BY <1>1, DetectFacts
<1> HIDE DEF d
<1> DEFINE x == FirstOf(n.chunk, d)
           q == RestOf(n.chunk, d)
<1>3. x \in Seq(Cells) /\ q \in Seq(Cells) /\ Len(x) = d /\ Joined(x, q) = n.chunk
  BY <1>1, <1>2, CutFacts
<1> HIDE DEF x, q
<1>4. Joined(Joined(n.buf, x), q) = Joined(n.buf, Joined(x, q))
  BY <1>1, <1>3, JoinedAgain
<1>5. /\ Joined(n.buf, x) \in Seq(Cells) /\ Len(Joined(n.buf, x)) = Len(n.buf) + Len(x)
      /\ Len(n.buf) \in Nat /\ Len(x) \in Nat /\ Len(q) \in Nat
  BY <1>1, <1>3, JoinedFacts
<1>6. Len(Joined(x, q)) = Len(x) + Len(q)
  BY <1>3, JoinedFacts
<1>7. Len(Joined(n.buf, x)) = Len(n.buf) + d /\ Len(Joined(n.buf, x)) + Len(q) = Len(n.buf) + Len(n.chunk)
  BY <1>3, <1>5, <1>6
<1>8. /\ Joined(n.buf, x) \in Seq(Cells) /\ q \in Seq(Cells) /\ Joined(Joined(n.buf, x), q) = Joined(n.buf, n.chunk)
  BY <1>3, <1>4, <1>5
<1> QED
  BY <1>2, <1>7, <1>8 DEF d, x, q

\* Where the search finds the end of the first message.
LEMMA ChunkEnd ==
  ASSUME NEW n \in NetRecords, NEW k \in 0..Len(n.sent)
  PROVE  CellsLeft(Unread(n), n.sent, k) /\ Len(n.buf) \in 0..1 /\ ~SplitsTag(Len(n.buf) + Len(n.chunk)) =>
           DetectEndtag(n.chunk) = IF Len(n.buf) + Len(n.chunk) <= 1 THEN 0 ELSE 3 - Len(n.buf)
PROOF
<1>1. PICK b, c, w \in Seq(Cells) : b = n.buf /\ c = n.chunk /\ w = n.wire
  BY RecordFacts
<1>2. b \in Seq(Cells) /\ c \in Seq(Cells) /\ w \in Seq(Cells) /\ n.sent \in Seq(Texts)
  BY RecordFacts
<1>3. CellsLeft(b \o c \o w, n.sent, k) /\ Len(b) \in 0..1 /\ ~SplitsTag(Len(b) + Len(c)) =>
        DetectEndtag(c) = IF Len(b) + Len(c) <= 1 THEN 0 ELSE 3 - Len(b)
  BY <1>2, FirstEnd
<1> QED
  BY <1>1, <1>3 DEF Unread

LEMMA CutTag ==
  ASSUME NEW n \in NetRecords, NEW k \in 0..Len(n.sent), NEW i \in 1..Len(n.wire)
  PROVE  CellsLeft(Joined(n.buf, n.wire), n.sent, k) /\ SplitsTag(Len(n.buf) + i) =>
           i < Len(n.wire) /\ n.wire[i] = EndTag /\ n.wire[i + 1] = EndTag
PROOF
<1>1. n.buf \in Seq(Cells) /\ n.wire \in Seq(Cells) /\ n.sent \in Seq(Texts)
  BY RecordFacts
<1> QED
  BY <1>1, CutIsSplit DEF Joined

\* The peer sends.
LEMMA SendOrder ==
  ASSUME NEW n \in NetRecords, NEW x \in Texts, InOrder(n), NEW m \in NetRecords,
         m = [n EXCEPT !.wire = n.wire \o <<x, EndTag, EndTag>>, !.sent = Append(n.sent, x)]
  PROVE  InOrder(m)
PROOF
<1> DEFINE z == <<x, EndTag, EndTag>>
<1>1. /\ m.stage = n.stage /\ m.buf = n.buf /\ m.chunk = n.chunk /\ m.out = n.out /\ m.cur = n.cur /\ m.split = n.split
      /\ m.wire = Joined(n.wire, z) /\ m.sent = Append(n.sent, x)
  BY DEF NetRecords, Joined
<1>2. z \in Seq(Cells)
  BY DEF Cells
<1> HIDE DEF z
<1> SUFFICES ASSUME n.stage \in AtWork, ~n.split PROVE \E k \in 0..Len(m.sent) : Reading(m, k)
  BY <1>1 DEF InOrder
<1>3. PICK k \in 0..Len(n.sent) : Reading(n, k)
  BY DEF InOrder
<1>4. Unread(m) = Joined(Unread(n), z)
  BY <1>1, <1>2, WireJoin, UnreadJoined
<1>5. k \in 0..Len(m.sent) /\ \A i \in 1..Len(n.sent) : m.sent[i] = n.sent[i]
  BY <1>1, RecordFacts
<1>6. CellsLeft(Unread(m), m.sent, k)
  <2>1. n.sent \in Seq(Texts) /\ Unread(n) \in Seq(Cells) /\ CellsLeft(Unread(n), n.sent, k)
    BY <1>3, RecordFacts DEF Reading
  <2>2. CellsLeft(Unread(n) \o <<x, EndTag, EndTag>>, Append(n.sent, x), k)
    BY <2>1, OneMoreSent
  <2> QED
    BY <1>1, <1>4, <2>2 DEF Joined, z
<1>7. Matched(m.out, m.sent, k)
  BY <1>1, <1>3, SentMore, RecordFacts DEF Reading
<1>8. n.stage = "rpc" => m.sent[k + 1] = n.sent[k + 1]
  <2>1. n.stage = "rpc" => k < Len(n.sent)
    BY <1>3, FirstBuffered DEF Reading
  <2> QED
    BY <1>5, <2>1, RecordFacts
<1>9. Reading(m, k)
  BY <1>1, <1>3, <1>6, <1>7, <1>8 DEF Reading
<1> QED
  BY <1>5, <1>9

\* One read().
LEMMA ReadOrder ==
  ASSUME NEW n \in NetRecords, InOrder(n), n.stage = "loop", NEW i \in 1..Len(n.wire), NEW m \in NetRecords,
         m = [n EXCEPT !.chunk = SubSeq(n.wire, 1, i), !.wire = SubSeq(n.wire, i + 1, Len(n.wire)), !.stage = "scan",
                       !.split = n.split \/ (i < Len(n.wire) /\ n.wire[i] = EndTag /\ n.wire[i + 1] = EndTag)]
  PROVE  InOrder(m)
PROOF
<1> DEFINE c == FirstOf(n.wire, i)
           v == RestOf(n.wire, i)
<1>1. /\ m.buf = n.buf /\ m.sent = n.sent /\ m.out = n.out /\ m.stage = "scan" /\ m.chunk = c /\ m.wire = v
      /\ m.split = (n.split \/ (i < Len(n.wire) /\ n.wire[i] = EndTag /\ n.wire[i + 1] = EndTag))
  BY DEF NetRecords, FirstOf, RestOf
<1>2. c \in Seq(Cells) /\ v \in Seq(Cells) /\ Len(c) = i /\ Joined(Joined(n.buf, c), v) = Joined(n.buf, n.wire)
  BY WireCut
<1> HIDE DEF c, v
<1> SUFFICES ASSUME ~m.split PROVE \E k \in 0..Len(m.sent) : Reading(m, k)
  BY DEF InOrder
<1>3. ~n.split /\ ~(i < Len(n.wire) /\ n.wire[i] = EndTag /\ n.wire[i + 1] = EndTag)
  BY <1>1
<1>4. PICK k \in 0..Len(n.sent) : Reading(n, k)
  BY <1>3 DEF InOrder, AtWork
<1>5. Unread(m) = Joined(n.buf, n.wire) /\ Unread(n) = Joined(n.buf, n.wire)
  <2>1. n.chunk = <<>>
    BY <1>4 DEF Reading
  <2>2. Joined(n.buf, <<>>) = n.buf
    BY JoinedNothing, RecordFacts
  <2> QED
    BY <1>1, <1>2, <2>1, <2>2, UnreadJoined
<1>6. CellsLeft(Joined(n.buf, n.wire), n.sent, k)
  BY <1>4, <1>5 DEF Reading
<1>7. ~SplitsTag(Len(n.buf) + i)
  BY <1>3, <1>6, CutTag
<1>8. Reading(m, k)
  BY <1>1, <1>2, <1>4, <1>5, <1>6, <1>7 DEF Reading
<1> QED
  BY <1>1, <1>8

\* The search for the end of the message.
LEMMA ScanOrder ==
  ASSUME NEW n \in NetRecords, InOrder(n), n.stage = "scan", NEW m \in NetRecords,
         m.sent = n.sent, m.out = n.out, m.wire = n.wire, m.split = n.split,
         LET d == DetectEndtag(n.chunk)
         IN IF d = 0 THEN m.buf = n.buf \o n.chunk /\ m.chunk = <<>> /\ m.stage = "loop"
            ELSE /\ m.buf = n.buf \o SubSeq(n.chunk, 1, d)
                 /\ m.chunk = SubSeq(n.chunk, d + 1, Len(n.chunk)) /\ m.stage = "packet"
  PROVE  InOrder(m)
PROOF
<1> DEFINE d == DetectEndtag(n.chunk)
           e == Joined(n.buf, FirstOf(n.chunk, d))
           q == RestOf(n.chunk, d)
<1>1. /\ d = 0 => m.buf = Joined(n.buf, n.chunk) /\ m.chunk = <<>> /\ m.stage = "loop"
      /\ d # 0 => m.buf = e /\ m.chunk = q /\ m.stage = "packet"
  BY DEF Joined, FirstOf, RestOf
<1>2. /\ d \in 0..Len(n.chunk) /\ e \in Seq(Cells) /\ q \in Seq(Cells) /\ Joined(e, q) = Joined(n.buf, n.chunk)
      /\ Len(e) = Len(n.buf) + d /\ Len(e) + Len(q) = Len(n.buf) + Len(n.chunk)
  BY ChunkCut
<1> SUFFICES ASSUME ~n.split PROVE \E k \in 0..Len(m.sent) : Reading(m, k)
  BY DEF InOrder
<1>3. PICK k \in 0..Len(n.sent) : Reading(n, k)
  BY DEF InOrder, AtWork
<1>4. /\ CellsLeft(Unread(n), n.sent, k) /\ Len(n.buf) \in 0..1 /\ ~SplitsTag(Len(n.buf) + Len(n.chunk))
      /\ Matched(n.out, n.sent, k)
  BY <1>3 DEF Reading
<1>5. d = IF Len(n.buf) + Len(n.chunk) <= 1 THEN 0 ELSE 3 - Len(n.buf)
  BY <1>4, ChunkEnd
<1>6. Len(n.buf) \in Nat /\ Len(n.chunk) \in Nat
  BY RecordFacts
<1> HIDE DEF d, e, q
<1>7. CASE d = 0
  <2>1. /\ Joined(n.buf, n.chunk) \in Seq(Cells) /\ Len(Joined(n.buf, n.chunk)) = Len(n.buf) + Len(n.chunk)
        /\ Joined(Joined(n.buf, n.chunk), <<>>) = Joined(n.buf, n.chunk)
    <3>1. n.buf \in Seq(Cells) /\ n.chunk \in Seq(Cells)
      BY RecordFacts
    <3>2. Joined(n.buf, n.chunk) \in Seq(Cells) /\ Len(Joined(n.buf, n.chunk)) = Len(n.buf) + Len(n.chunk)
      BY <3>1, JoinedFacts
    <3> QED
      BY <3>2, JoinedNothing
  <2>2. Unread(m) = Unread(n)
    BY <1>1, <1>7, <2>1, UnreadJoined
  <2>3. Len(m.buf) = Len(n.buf) + Len(n.chunk) /\ Len(m.chunk) = 0
    BY <1>1, <1>7, <2>1
  <2>4. Len(m.buf) \in 0..1
    <3>1. PICK y \in Nat, z \in Nat : y = Len(n.buf) /\ z = Len(n.chunk)
      BY <1>6
    <3>2. 0 = IF y + z <= 1 THEN 0 ELSE 3 - y
      BY <1>5, <1>7, <3>1
    <3>3. y \in 0..1
      BY <1>4, <3>1
    <3>4. y + z \in 0..1
      BY <3>2, <3>3
    <3> QED
      BY <2>3, <3>1, <3>4
  <2>5. Len(m.buf) + Len(m.chunk) = Len(n.buf) + Len(n.chunk)
    BY <2>3, <2>4
  <2>6. Reading(m, k)
    BY <1>1, <1>4, <1>7, <2>2, <2>4, <2>5 DEF Reading
  <2> QED
    BY <2>6
<1>8. CASE d # 0
  <2>1. m.buf = e /\ m.chunk = q /\ m.stage = "packet"
    BY <1>1, <1>8
  <2>2. Unread(m) = Unread(n)
    BY <1>2, <2>1, UnreadJoined
  <2>3. Len(e) = 3
    <3>1. PICK y \in Nat, z \in Nat : y = Len(n.buf) /\ z = Len(n.chunk)
      BY <1>6
    <3>2. d = 3 - y
      BY <1>5, <1>8, <3>1
    <3> QED
      BY <1>2, <3>1, <3>2
  <2>4. Reading(m, k)
    BY <1>2, <1>4, <2>1, <2>2, <2>3 DEF Reading
  <2> QED
    BY <2>4
<1> QED
  BY <1>7, <1>8

\* Done with the message in the buffer, and answered if it was an rpc.
Finished(n) ==
  ~n.split => \E k \in 0..Len(n.sent) :
    /\ CellsLeft(Unread(n), n.sent, k) /\ Len(n.buf) = 3 /\ ~SplitsTag(Len(n.buf) + Len(n.chunk))
    /\ Matched(n.out, n.sent, k + 1)

LEMMA WholeMessage ==
  ASSUME NEW l \in Nat
  PROVE  SplitsTag(3 + l) <=> SplitsTag(l)
BY DEF SplitsTag

\* Back in the loop.
LEMMA ResumeOrder ==
  ASSUME NEW n \in NetRecords, Finished(n)
  PROVE  InOrder(Resume(n))
PROOF
<1> DEFINE r == Resume(n)
<1>1. CASE n.closed
  <2>1. r.stage = "gone"
    BY <1>1 DEF Resume, NetRecords
  <2> QED
    BY <2>1 DEF InOrder, AtWork
<1>2. CASE ~n.closed
  <2>1. /\ r.stage = "scan" /\ r.buf = <<>> /\ r.chunk = n.chunk /\ r.wire = n.wire /\ r.sent = n.sent /\ r.out = n.out
        /\ r.split = n.split
    BY <1>2 DEF Resume, NetRecords
  <2> HIDE DEF r
  <2>0. (~n.split => \E k \in 0..Len(n.sent) : Reading(r, k)) => InOrder(r)
    BY <2>1 DEF InOrder
  <2> SUFFICES ASSUME ~n.split PROVE \E k \in 0..Len(n.sent) : Reading(r, k)
    BY <2>0 DEF r
  <2>2. PICK k \in 0..Len(n.sent) :
          /\ CellsLeft(Unread(n), n.sent, k) /\ Len(n.buf) = 3 /\ ~SplitsTag(Len(n.buf) + Len(n.chunk))
          /\ Matched(n.out, n.sent, k + 1)
    BY DEF Finished
  <2>3. k < Len(n.sent) /\ CellsLeft(n.chunk \o n.wire, n.sent, k + 1)
    BY <2>2, FirstBuffered
  <2>4. Unread(r) = n.chunk \o n.wire
    <3>1. n.chunk \in Seq(Cells)
      BY RecordFacts
    <3>2. <<>> \o n.chunk = n.chunk
      BY <3>1, ConcatEmptySeq
    <3> QED
      BY <2>1, <3>2 DEF Unread
  <2>5. ~SplitsTag(Len(r.buf) + Len(r.chunk)) /\ Len(r.buf) \in 0..1
    <3>1. PICK l \in Nat : l = Len(n.chunk)
      BY RecordFacts
    <3>2. ~SplitsTag(3 + l)
      BY <2>2, <3>1
    <3>3. ~SplitsTag(l)
      BY <3>2, WholeMessage
    <3>4. Len(r.buf) = 0 /\ 0 + l = l
      BY <2>1
    <3> QED
      BY <2>1, <3>1, <3>3, <3>4
  <2>6. k + 1 \in 0..Len(n.sent)
    BY <2>3, RecordFacts
  <2>7. Reading(r, k + 1)
    BY <2>1, <2>2, <2>3, <2>4, <2>5 DEF Reading
  <2> QED
    BY <2>6, <2>7
<1> QED
  BY <1>1, <1>2

\* The message in the buffer is found to be an rpc or not.
LEMMA RpcFound ==
  ASSUME NEW b \in Seq(Cells), NEW x \in Texts
  PROVE  Len(b) = 3 /\ b[1] = x /\ b[2] = EndTag /\ b[3] = EndTag =>
           LET i == SelectInSeq(b, IsRpc)
           IN IF <<"unparsable">> \in Range(b) \/ i = 0 THEN ~IsRpc(x) ELSE i = 1 /\ IsRpc(x)
PROOF
<1> SUFFICES ASSUME Len(b) = 3, b[1] = x, b[2] = EndTag, b[3] = EndTag
             PROVE  LET i == SelectInSeq(b, IsRpc)
                    IN IF <<"unparsable">> \in Range(b) \/ i = 0 THEN ~IsRpc(x) ELSE i = 1 /\ IsRpc(x)
  OBVIOUS
<1> DEFINE I == {j \in 1..Len(b) : IsRpc(b[j])}
           i == SelectInSeq(b, IsRpc)
<1>1. i = IF I # {} THEN Min(I) ELSE 0
  BY DEF SelectInSeq
<1>2. ~IsRpc(EndTag)
  BY DEF IsRpc
<1>3. I = IF IsRpc(x) THEN {1} ELSE {}
  BY <1>2
<1>4. <<"unparsable">> \in Range(b) => ~IsRpc(x)
  <2>1. <<"unparsable">> # EndTag
    BY DEF EndTag
  <2>2. DOMAIN b = 1..3
    OBVIOUS
  <2>3. \A y \in Range(b) : \E j \in 1..3 : y = b[j]
    BY <2>2, Zenon DEF Range
  <2>4. \A y \in Range(b) : y = x \/ y = EndTag
    BY <2>3
  <2>5. <<"unparsable">> \in Range(b) => x = <<"unparsable">>
    BY <2>1, <2>4
  <2> QED
    BY <2>5 DEF IsRpc
<1> DEFINE none == <<"unparsable">> \in Range(b)
<1> HIDE DEF i, I, none
<1>5. IsRpc(x) => i = 1
  <2> SUFFICES ASSUME IsRpc(x) PROVE i = 1
    OBVIOUS
  <2>1. I = {1}
    BY <1>3
  <2>2. Min({1}) = 1
    BY DEF Min
  <2> QED
    BY <1>1, <2>1, <2>2
<1>6. ~IsRpc(x) => i = 0
  BY <1>1, <1>3
<1>7. IF none \/ i = 0 THEN ~IsRpc(x) ELSE i = 1 /\ IsRpc(x)
  BY <1>4, <1>5, <1>6 DEF none
<1> QED
  BY <1>7 DEF i, none

\* packet(): a message without an rpc is done, an rpc is in hand.
LEMMA PacketOrder ==
  ASSUME NEW n \in NetRecords, InOrder(n), n.stage = "packet", NEW m \in NetRecords,
         LET i == SelectInSeq(n.buf, IsRpc)
         IN m = IF <<"unparsable">> \in Range(n.buf) \/ i = 0 THEN Resume(n)
                ELSE [n EXCEPT !.stage = "rpc", !.cur = n.buf[i]]
  PROVE  InOrder(m)
PROOF
<1> DEFINE i == SelectInSeq(n.buf, IsRpc)
           none == <<"unparsable">> \in Range(n.buf) \/ i = 0
<1>1. n.split \/ \E k \in 0..Len(n.sent) : Reading(n, k)
  BY DEF InOrder, AtWork
<1>2. none => m = Resume(n)
  OBVIOUS
<1>3. ~none => /\ m.stage = "rpc" /\ m.cur = n.buf[i] /\ m.buf = n.buf /\ m.chunk = n.chunk /\ m.wire = n.wire
               /\ m.sent = n.sent /\ m.out = n.out /\ m.split = n.split
  BY DEF NetRecords
<1>4. ASSUME NEW k \in 0..Len(n.sent), Reading(n, k)
      PROVE  /\ none => ~IsRpc(n.sent[k + 1])
             /\ ~none => i = 1 /\ IsRpc(n.sent[k + 1])
  <2>1. Len(n.buf) = 3 /\ CellsLeft(Unread(n), n.sent, k)
    BY <1>4 DEF Reading
  <2>2. k < Len(n.sent) /\ n.buf[1] = n.sent[k + 1] /\ n.buf[2] = EndTag /\ n.buf[3] = EndTag
    BY <2>1, FirstBuffered
  <2>3. n.sent[k + 1] \in Texts /\ n.buf \in Seq(Cells)
    BY <2>2, RecordFacts
  <2>4. IF none THEN ~IsRpc(n.sent[k + 1]) ELSE i = 1 /\ IsRpc(n.sent[k + 1])
    BY <2>1, <2>2, <2>3, RpcFound
  <2> HIDE DEF none, i
  <2> QED
    BY <2>4
<1>5. ASSUME NEW k \in 0..Len(n.sent), Reading(n, k)
      PROVE  n.buf[1] = n.sent[k + 1] /\ CellsLeft(Unread(n), n.sent, k) /\ Len(n.buf) = 3
             /\ ~SplitsTag(Len(n.buf) + Len(n.chunk)) /\ Matched(n.out, n.sent, k)
  BY <1>5, FirstBuffered DEF Reading
<1> HIDE DEF none, i
<1>6. CASE n.split
  <2>1. CASE none
    <3>1. Finished(n)
      BY <1>6 DEF Finished
    <3> QED
      BY <1>2, <2>1, <3>1, ResumeOrder
  <2>2. CASE ~none
    BY <1>3, <1>6, <2>2 DEF InOrder
  <2> QED
    BY <2>1, <2>2
<1>7. ASSUME NEW k \in 0..Len(n.sent), Reading(n, k) PROVE InOrder(m)
  <2>1. CASE none
    <3>1. k \in Nat /\ ~IsRpc(n.sent[k + 1])
      BY <1>4, <1>7, <2>1
    <3>2. Matched(n.out, n.sent, k)
      BY <1>5, <1>7
    <3>3. Matched(n.out, n.sent, k + 1)
      BY <3>1, <3>2, SkipMore
    <3>4. Finished(n)
      BY <1>5, <1>7, <3>3 DEF Finished
    <3> QED
      BY <1>2, <2>1, <3>4, ResumeOrder
  <2>2. CASE ~none
    <3>1. m.cur = n.sent[k + 1] /\ IsRpc(m.cur)
      BY <1>3, <1>4, <1>5, <1>7, <2>2
    <3>2. Unread(m) = Unread(n)
      BY <1>3, <2>2 DEF Unread
    <3>3. Reading(m, k)
      BY <1>3, <1>5, <1>7, <2>2, <3>1, <3>2 DEF Reading
    <3> QED
      BY <1>3, <2>2, <3>3 DEF InOrder
  <2> QED
    BY <2>1, <2>2
<1> QED
  BY <1>1, <1>6, <1>7

\* The answer of the request in hand.
LEMMA AnswerOrder ==
  ASSUME NEW n \in NetRecords, InOrder(n), n.stage = "rpc", NEW kind \in {"ok", "data", "error"}, NEW msgs \in Nat
  PROVE  Finished(Output(n, kind, msgs))
PROOF
<1> DEFINE o == Output(n, kind, msgs)
           x == [to |-> n.cur, kind |-> kind, msgs |-> msgs]
<1>1. /\ o.buf = n.buf /\ o.chunk = n.chunk /\ o.wire = n.wire /\ o.sent = n.sent /\ o.split = n.split
      /\ o.out = Append(n.out, x)
  BY DEF Output, NetRecords
<1>2. x \in Answers /\ x.kind # "notification" /\ x.to = n.cur
  BY DEF Answers, NetRecords
<1> HIDE DEF o, x
<1> SUFFICES ASSUME ~o.split
             PROVE  \E k \in 0..Len(o.sent) :
                      /\ CellsLeft(Unread(o), o.sent, k) /\ Len(o.buf) = 3 /\ ~SplitsTag(Len(o.buf) + Len(o.chunk))
                      /\ Matched(o.out, o.sent, k + 1)
  BY DEF Finished, o
<1>3. PICK k \in 0..Len(n.sent) : Reading(n, k)
  BY <1>1 DEF InOrder, AtWork
<1>4. /\ CellsLeft(Unread(n), n.sent, k) /\ Len(n.buf) = 3 /\ ~SplitsTag(Len(n.buf) + Len(n.chunk))
      /\ Matched(n.out, n.sent, k) /\ n.cur = n.sent[k + 1] /\ IsRpc(n.cur)
  BY <1>3 DEF Reading
<1>5. Matched(Append(n.out, x), n.sent, k + 1)
  <2>1. n.out \in Seq(Answers) /\ k \in Nat /\ x \in Answers /\ x.kind # "notification"
    BY <1>2, RecordFacts
  <2>2. IsRpc(n.sent[k + 1]) /\ x.to = n.sent[k + 1] /\ Matched(n.out, n.sent, k)
    BY <1>2, <1>4
  <2> QED
    BY <2>1, <2>2, AnswerMore
<1>6. Unread(o) = Unread(n)
  BY <1>1 DEF Unread
<1> QED
  BY <1>1, <1>4, <1>5, <1>6

\* What else an answer changes does not count.
LEMMA AnsweredOrder ==
  ASSUME NEW n \in NetRecords, InOrder(n), n.stage = "rpc", NEW kind \in {"ok", "data", "error"}, NEW msgs \in Nat,
         NEW e \in NetRecords,
         LET o == Output(n, kind, msgs)
         IN e.buf = o.buf /\ e.chunk = o.chunk /\ e.wire = o.wire /\ e.sent = o.sent /\ e.out = o.out /\ e.split = o.split
  PROVE  InOrder(Resume(e))
PROOF
<1> DEFINE o == Output(n, kind, msgs)
<1>1. Finished(o)
  BY AnswerOrder
<1>2. e.buf = o.buf /\ e.chunk = o.chunk /\ e.wire = o.wire /\ e.sent = o.sent /\ e.out = o.out /\ e.split = o.split
  OBVIOUS
<1> HIDE DEF o
<1>3. Finished(e)
  BY <1>1, <1>2 DEF Finished, Unread
<1> QED
  BY <1>3, ResumeOrder

\* A notification between the answers.
LEMMA NoteOrder ==
  ASSUME NEW n \in NetRecords, InOrder(n), n.stage = "loop"
  PROVE  InOrder(Output(n, "notification", 1))
PROOF
<1> DEFINE o == Output(n, "notification", 1)
           x == [to |-> n.cur, kind |-> "notification", msgs |-> 1]
<1>1. /\ o.buf = n.buf /\ o.chunk = n.chunk /\ o.wire = n.wire /\ o.sent = n.sent /\ o.split = n.split
      /\ o.out = Append(n.out, x) /\ o.stage = n.stage
  BY DEF Output, NetRecords
<1>2. x \in Answers /\ x.kind = "notification"
  BY DEF Answers, NetRecords
<1> HIDE DEF o, x
<1> SUFFICES ASSUME ~n.split PROVE \E k \in 0..Len(n.sent) : Reading(o, k)
  BY <1>1 DEF InOrder, o
<1>3. PICK k \in 0..Len(n.sent) : Reading(n, k)
  BY DEF InOrder, AtWork
<1>4. Matched(Append(n.out, x), n.sent, k)
  BY <1>2, <1>3, NoteMore, RecordFacts DEF Reading
<1>5. Unread(o) = Unread(n)
  BY <1>1 DEF Unread
<1>6. Reading(o, k)
  BY <1>1, <1>3, <1>4, <1>5 DEF Reading
<1> QED
  BY <1>6

\* A session that changes nothing of what counts.
LEMMA SameOrder ==
  ASSUME NEW n \in NetRecords, InOrder(n), NEW m \in NetRecords, m.stage = n.stage \/ (n.stage = "start" /\ m.stage = "loop"),
         m.buf = n.buf, m.chunk = n.chunk, m.wire = n.wire, m.sent = n.sent, m.out = n.out, m.split = n.split, m.cur = n.cur
  PROVE  InOrder(m)
PROOF
<1> SUFFICES ASSUME n.stage \in AtWork, ~n.split PROVE \E k \in 0..Len(n.sent) : Reading(m, k)
  BY DEF InOrder, AtWork
<1>1. PICK k \in 0..Len(n.sent) : Reading(n, k)
  BY DEF InOrder
<1>2. Unread(m) = Unread(n)
  BY DEF Unread
<1>3. Reading(m, k)
  BY <1>1, <1>2 DEF Reading
<1> QED
  BY <1>3

\* The step of one session leaves the others as they are.
LEMMA OrderKeeps ==
  ASSUME NetInv, OrderInv, NEW s \in Sessions, NEW n \in NetRecords, net' = [net EXCEPT ![s] = n], InOrder(n)
  PROVE  OrderInv'
PROOF
<1>1. net \in [Sessions -> NetRecords]
  BY DEF NetInv, NetTypes
<1>2. net'[s] = n /\ \A t \in Sessions \ {s} : net'[t] = net[t]
  BY <1>1
<1> QED
  BY <1>2 DEF OrderInv

\* What the peer sends is read, cut into messages and taken up.
LEMMA ReadingInOrder ==
  ASSUME NetInv, NetInv', OrderInv, NEW s \in Sessions, PeerSends(s) \/ InputCb(s) \/ Scan(s) \/ Packet(s)
  PROVE  OrderInv'
PROOF
<1>1. net \in [Sessions -> NetRecords] /\ net[s] \in NetRecords /\ net'[s] \in NetRecords /\ InOrder(net[s])
  BY DEF NetInv, NetTypes, OrderInv
<1>2. CASE PeerSends(s)
  <2>1. PICK x \in Texts : net' = [net EXCEPT ![s].wire = @ \o <<x, EndTag, EndTag>>, ![s].sent = Append(@, x)]
    BY <1>2 DEF PeerSends
  <2>2. PICK m : m = [net[s] EXCEPT !.wire = net[s].wire \o <<x, EndTag, EndTag>>, !.sent = Append(net[s].sent, x)]
    OBVIOUS
  <2>3. net' = [net EXCEPT ![s] = m] /\ m = net'[s]
    BY <1>1, <2>1, <2>2
  <2> QED
    BY <1>1, <2>2, <2>3, SendOrder, OrderKeeps
<1>3. CASE InputCb(s)
  <2>1. PICK i \in 1..Len(net[s].wire) :
          net' = [net EXCEPT ![s].chunk = SubSeq(net[s].wire, 1, i),
                             ![s].wire = SubSeq(@, i + 1, Len(@)),
                             ![s].stage = "scan",
                             ![s].split = @ \/ (i < Len(net[s].wire) /\ net[s].wire[i] = EndTag /\ net[s].wire[i + 1] = EndTag)]
    BY <1>3 DEF InputCb
  <2>2. PICK m : m = [net[s] EXCEPT !.chunk = SubSeq(net[s].wire, 1, i),
                                    !.wire = SubSeq(net[s].wire, i + 1, Len(net[s].wire)), !.stage = "scan",
                                    !.split = net[s].split \/ (i < Len(net[s].wire) /\ net[s].wire[i] = EndTag /\ net[s].wire[i + 1] = EndTag)]
    OBVIOUS
  <2>3. net' = [net EXCEPT ![s] = m] /\ m = net'[s]
    BY <1>1, <2>1, <2>2
  <2>4. net[s].stage = "loop"
    BY <1>3 DEF InputCb
  <2> QED
    BY <1>1, <2>2, <2>3, <2>4, ReadOrder, OrderKeeps
<1>4. CASE Scan(s)
  <2> DEFINE d == DetectEndtag(net[s].chunk)
             m == IF d = 0 THEN [net[s] EXCEPT !.buf = @ \o net[s].chunk, !.chunk = <<>>, !.stage = "loop"]
                  ELSE [net[s] EXCEPT !.buf = @ \o SubSeq(net[s].chunk, 1, d),
                                      !.chunk = SubSeq(@, d + 1, Len(@)), !.stage = "packet"]
  <2>1. net[s].stage = "scan" /\ net' = [net EXCEPT ![s] = m]
    BY <1>1, <1>4 DEF Scan
  <2>2. m = net'[s] /\ m \in NetRecords
    BY <1>1, <2>1
  <2>3. /\ m.sent = net[s].sent /\ m.out = net[s].out /\ m.wire = net[s].wire /\ m.split = net[s].split
        /\ IF d = 0 THEN m.buf = net[s].buf \o net[s].chunk /\ m.chunk = <<>> /\ m.stage = "loop"
           ELSE /\ m.buf = net[s].buf \o SubSeq(net[s].chunk, 1, d)
                /\ m.chunk = SubSeq(net[s].chunk, d + 1, Len(net[s].chunk)) /\ m.stage = "packet"
    BY <1>1 DEF NetRecords
  <2> HIDE DEF m
  <2>4. InOrder(m)
    BY <1>1, <2>1, <2>2, <2>3, ScanOrder
  <2> QED
    BY <2>1, <2>2, <2>4, OrderKeeps
<1>5. CASE Packet(s)
  <2> DEFINE m == IF <<"unparsable">> \in Range(net[s].buf) \/ SelectInSeq(net[s].buf, IsRpc) = 0 THEN Resume(net[s])
                  ELSE [net[s] EXCEPT !.stage = "rpc", !.cur = net[s].buf[SelectInSeq(net[s].buf, IsRpc)]]
  <2>1. net[s].stage = "packet" /\ net' = [net EXCEPT ![s] = m]
    BY <1>5 DEF Packet
  <2>2. m = net'[s] /\ m \in NetRecords
    BY <1>1, <2>1
  <2>3. InOrder(m)
    BY <1>1, <2>1, <2>2, PacketOrder
  <2> HIDE DEF m
  <2> QED
    BY <2>1, <2>2, <2>3, OrderKeeps
<1> QED
  BY <1>2, <1>3, <1>4, <1>5

\* An answer and what goes with it.
LEMMA AnswersInOrder ==
  ASSUME NetInv, OrderInv, NEW s \in Sessions, net[s].stage = "rpc", NEW kind \in {"ok", "data", "error"},
         NEW msgs \in Nat, NEW e \in NetRecords, net' = [net EXCEPT ![s] = Resume(e)],
         LET o == Output(net[s], kind, msgs)
         IN e.buf = o.buf /\ e.chunk = o.chunk /\ e.wire = o.wire /\ e.sent = o.sent /\ e.out = o.out /\ e.split = o.split
  PROVE  OrderInv'
PROOF
<1>1. net[s] \in NetRecords /\ InOrder(net[s])
  BY DEF NetInv, NetTypes, OrderInv
<1>2. InOrder(Resume(e)) /\ Resume(e) \in NetRecords
  BY <1>1, AnsweredOrder, ResumeFacts
<1> QED
  BY <1>2, OrderKeeps

\* A session that stops owes no more answers.
LEMMA StopsInOrder ==
  ASSUME NetInv, NetInv', OrderInv, NEW s \in Sessions, NEW x \in {"gone", "stuck", "aborted"}, net' = [net EXCEPT ![s].stage = x]
  PROVE  OrderInv'
PROOF
<1>1. net \in [Sessions -> NetRecords] /\ net[s] \in NetRecords
  BY DEF NetInv, NetTypes
<1>2. PICK m : m = [net[s] EXCEPT !.stage = x]
  OBVIOUS
<1>3. m \in NetRecords /\ m.stage = x /\ net' = [net EXCEPT ![s] = m]
  BY <1>1, <1>2 DEF NetRecords, NetStages
<1>4. InOrder(m)
  BY <1>3 DEF InOrder, AtWork
<1> QED
  BY <1>3, <1>4, OrderKeeps

\* The same for the forms in which the actions write it.
LEMMA RepliesInOrder ==
  ASSUME NetInv, NetInv', OrderInv, NEW s \in Sessions, net[s].stage = "rpc",
         \/ Ok(s) \/ Data(s) \/ \E own \in Nat : FailsWith(s, own)
         \/ net' = [net EXCEPT ![s] = Resume([Output(net[s], "ok", 1) EXCEPT !.todo = <<>>])]
         \/ net' = [net EXCEPT ![s] = Resume([Output(net[s], "ok", 1) EXCEPT !.closed = TRUE])]
         \/ net' = [net EXCEPT ![s] = Resume([Output(net[s], "ok", 1) EXCEPT !.subs = net[s].subs + 1])]
  PROVE  OrderInv'
PROOF
<1>0. net[s] \in NetRecords
  BY DEF NetInv, NetTypes
<1>1. net[s] \in NetRecords /\ net[s].subs + 1 \in Nat /\ net[s].errs \in Nat
  BY <1>0 DEF NetRecords
<1>2. \A kind \in {"ok", "data", "error"}, msgs \in Nat : Output(net[s], kind, msgs) \in NetRecords
  BY <1>1, OutputFacts
<1>3. CASE Ok(s) \/ Data(s)
  BY <1>2, <1>3, AnswersInOrder DEF Ok, Data
<1>4. ASSUME NEW kind \in {"ok", "error"}, NEW msgs \in Nat,
             net' = [net EXCEPT ![s] = Resume([Output(net[s], kind, msgs) EXCEPT !.todo = <<>>])]
      PROVE  OrderInv'
  <2>1. kind \in {"ok", "data", "error"}
    OBVIOUS
  <2>2. PICK o \in NetRecords : o = Output(net[s], kind, msgs)
    BY <1>2, <2>1
  <2>3. PICK e : e = [o EXCEPT !.todo = <<>>]
    OBVIOUS
  <2>4. /\ e \in NetRecords
        /\ e.buf = o.buf /\ e.chunk = o.chunk /\ e.wire = o.wire /\ e.sent = o.sent /\ e.out = o.out /\ e.split = o.split
    BY <2>3 DEF NetRecords
  <2>5. net' = [net EXCEPT ![s] = Resume(e)]
    BY <1>4, <2>2, <2>3
  <2> QED
    BY <2>1, <2>2, <2>4, <2>5, AnswersInOrder
<1>7. ASSUME NEW own \in Nat, FailsWith(s, own) PROVE OrderInv'
  <2>1. PICK msgs \in Nat : msgs = net[s].errs + own
    BY <1>1
  <2>2. CASE msgs = 0
    <3>1. net' = [net EXCEPT ![s].stage = "aborted"]
      BY <1>7, <2>1, <2>2 DEF FailsWith, NetInv, NetTypes
    <3> QED
      BY <3>1, StopsInOrder
  <2>3. CASE msgs # 0
    <3>1. net' = [net EXCEPT ![s] = Resume([Output(net[s], "error", msgs) EXCEPT !.todo = <<>>])]
      BY <1>7, <2>1, <2>3 DEF FailsWith
    <3> QED
      BY <1>4, <3>1
  <2> QED
    BY <2>2, <2>3
<1>5. CASE net' = [net EXCEPT ![s] = Resume([Output(net[s], "ok", 1) EXCEPT !.closed = TRUE])]
  <2>1. PICK o \in NetRecords : o = Output(net[s], "ok", 1)
    BY <1>2
  <2>2. PICK e : e = [o EXCEPT !.closed = TRUE]
    OBVIOUS
  <2>3. /\ e \in NetRecords
        /\ e.buf = o.buf /\ e.chunk = o.chunk /\ e.wire = o.wire /\ e.sent = o.sent /\ e.out = o.out /\ e.split = o.split
    BY <2>2 DEF NetRecords
  <2>4. net' = [net EXCEPT ![s] = Resume(e)]
    BY <1>5, <2>1, <2>2
  <2> QED
    BY <2>1, <2>3, <2>4, AnswersInOrder
<1>6. CASE net' = [net EXCEPT ![s] = Resume([Output(net[s], "ok", 1) EXCEPT !.subs = net[s].subs + 1])]
  <2>1. PICK o \in NetRecords : o = Output(net[s], "ok", 1)
    BY <1>2
  <2>2. PICK e : e = [o EXCEPT !.subs = net[s].subs + 1]
    OBVIOUS
  <2>3. /\ e \in NetRecords
        /\ e.buf = o.buf /\ e.chunk = o.chunk /\ e.wire = o.wire /\ e.sent = o.sent /\ e.out = o.out /\ e.split = o.split
    BY <1>1, <2>2 DEF NetRecords
  <2>4. net' = [net EXCEPT ![s] = Resume(e)]
    BY <1>6, <2>1, <2>2
  <2> QED
    BY <2>1, <2>3, <2>4, AnswersInOrder
<1> QED
  BY <1>3, <1>4, <1>5, <1>6, <1>7

\* The start, the end, the first half of a delete-config, a notification.
LEMMA ServingInOrder ==
  ASSUME NetInv, NetInv', OrderInv, NEW s \in Sessions,
         InitCandidateDb(s) \/ InputEof(s) \/ DeleteConfig(s) \/ NotificationCb(s)
  PROVE  OrderInv'
PROOF
<1>1. net \in [Sessions -> NetRecords] /\ net[s] \in NetRecords /\ InOrder(net[s])
  BY DEF NetInv, NetTypes, OrderInv
<1>2. CASE net' = [net EXCEPT ![s].stage = "gone"]
  BY <1>2, StopsInOrder
<1>3. CASE net[s].stage = "start" /\ net' = [net EXCEPT ![s].stage = "loop"]
  <2>1. PICK m : m = [net[s] EXCEPT !.stage = "loop"]
    OBVIOUS
  <2>2. /\ m \in NetRecords /\ net' = [net EXCEPT ![s] = m] /\ m.stage = "loop"
        /\ m.buf = net[s].buf /\ m.chunk = net[s].chunk /\ m.wire = net[s].wire /\ m.sent = net[s].sent
        /\ m.out = net[s].out /\ m.split = net[s].split /\ m.cur = net[s].cur
    BY <1>1, <1>3, <2>1 DEF NetRecords, NetStages
  <2>3. InOrder(m)
    BY <1>1, <1>3, <2>2, SameOrder
  <2> QED
    BY <2>2, <2>3, OrderKeeps
<1>4. CASE net' = [net EXCEPT ![s].todo = <<"initdb">>]
  <2>1. PICK m : m = [net[s] EXCEPT !.todo = <<"initdb">>]
    OBVIOUS
  <2>2. /\ m \in NetRecords /\ net' = [net EXCEPT ![s] = m] /\ m.stage = net[s].stage
        /\ m.buf = net[s].buf /\ m.chunk = net[s].chunk /\ m.wire = net[s].wire /\ m.sent = net[s].sent
        /\ m.out = net[s].out /\ m.split = net[s].split /\ m.cur = net[s].cur
    BY <1>1, <1>4, <2>1 DEF NetRecords
  <2>3. InOrder(m)
    BY <1>1, <2>2, SameOrder
  <2> QED
    BY <2>2, <2>3, OrderKeeps
<1>5. CASE net[s].stage = "loop" /\ net' = [net EXCEPT ![s] = Output(net[s], "notification", 1)]
  <2>1. InOrder(Output(net[s], "notification", 1)) /\ Output(net[s], "notification", 1) \in NetRecords
    BY <1>1, <1>5, NoteOrder, OutputFacts
  <2> QED
    BY <1>5, <2>1, OrderKeeps
<1>6. CASE BackendFails /\ net[s].stage = "rpc" /\ Error(s)
  BY <1>6, RepliesInOrder DEF Error
<1>7. InitCandidateDb(s) => net[s].stage = "start" /\ \/ net' = [net EXCEPT ![s].stage = "loop"]
                                                      \/ net' = [net EXCEPT ![s].stage = "gone"]
  BY DEF InitCandidateDb
<1>8. InputEof(s) => net' = [net EXCEPT ![s].stage = "gone"]
  BY DEF InputEof
<1>9. DeleteConfig(s) => \/ net' = [net EXCEPT ![s].todo = <<"initdb">>]
                         \/ BackendFails /\ net[s].stage = "rpc" /\ Error(s)
  BY DEF DeleteConfig, Doing
<1>10. NotificationCb(s) => net[s].stage = "loop" /\ \/ net' = [net EXCEPT ![s] = Output(net[s], "notification", 1)]
                                                     \/ net' = [net EXCEPT ![s].stage = "gone"]
  BY DEF NotificationCb
<1> QED
  BY <1>2, <1>3, <1>4, <1>5, <1>6, <1>7, <1>8, <1>9, <1>10

\* The dispatcher goes on to the next element.
LEMMA ElementInOrder ==
  ASSUME NetInv, OrderInv, NEW s \in Sessions, NEW own \in 0..1, net[s].stage = "rpc", NextElement(s, own)
  PROVE  OrderInv'
PROOF
<1>1. net \in [Sessions -> NetRecords] /\ net[s] \in NetRecords /\ InOrder(net[s])
  BY DEF NetInv, NetTypes, OrderInv
<1>2. PICK at \in Nat, errs \in Nat : at = net[s].at + 1 /\ errs = net[s].errs + own
  BY <1>1 DEF NetRecords
<1>3. PICK m : m = [net[s] EXCEPT !.at = at, !.errs = errs]
  OBVIOUS
<1>4. /\ m \in NetRecords /\ net' = [net EXCEPT ![s] = m] /\ m.stage = net[s].stage
      /\ m.buf = net[s].buf /\ m.chunk = net[s].chunk /\ m.wire = net[s].wire /\ m.sent = net[s].sent
      /\ m.out = net[s].out /\ m.split = net[s].split /\ m.cur = net[s].cur
  BY <1>1, <1>2, <1>3 DEF NetRecords, NextElement
<1>5. InOrder(m)
  BY <1>1, <1>4, SameOrder
<1> QED
  BY <1>4, <1>5, OrderKeeps

\* The requests.
LEMMA RequestsInOrder ==
  ASSUME NetInv, NetInv', OrderInv, NEW s \in Sessions,
         \/ Incomplete(s) \/ CloseSession(s) \/ GetConfig(s) \/ EditConfig(s, "edit-config") \/ EditConfig(s, "replace-config")
         \/ EditNone(s) \/ CopyConfig(s) \/ DeleteConfig2(s) \/ Lock(s) \/ Unlock(s) \/ Validate(s)
         \/ KillSession(s) \/ Commit(s) \/ DiscardChanges(s) \/ CreateSubscription(s) \/ PluginTag(s) \/ UnknownTag(s)
  PROVE  OrderInv'
PROOF
<1> DEFINE Todo == net' = [net EXCEPT ![s] = Resume([Output(net[s], "ok", 1) EXCEPT !.todo = <<>>])]
           Closed == net' = [net EXCEPT ![s] = Resume([Output(net[s], "ok", 1) EXCEPT !.closed = TRUE])]
           Subs == net' = [net EXCEPT ![s] = Resume([Output(net[s], "ok", 1) EXCEPT !.subs = net[s].subs + 1])]
           Failed == \E own \in Nat : FailsWith(s, own)
           Next == \E own \in 0..1 : NextElement(s, own)
<1>1. net[s].stage = "rpc"
  BY Zenon DEF Doing, Incomplete, CloseSession, GetConfig, EditConfig, EditNone, CopyConfig, DeleteConfig2, Lock, Unlock, Validate,
     KillSession, Commit, DiscardChanges, CreateSubscription, PluginTag, UnknownTag
<1>9. (0..1) \subseteq Nat /\ (0..2) \subseteq Nat /\ 0 \in Nat /\ 1 \in Nat /\ 0 \in 0..1 /\ 1 \in 0..1
  OBVIOUS
<1>2. DeleteConfig2(s) => Todo \/ Failed \/ Stuck(s)
  BY <1>9, Zenon DEF DeleteConfig2, Error, Failed
<1>3. CloseSession(s) => Closed
  BY Zenon DEF CloseSession
<1>4. CreateSubscription(s) => Subs \/ Failed
  BY <1>9, Zenon DEF CreateSubscription, Error, Failed
<1>5. /\ EditConfig(s, "edit-config") \/ EditConfig(s, "replace-config") => Ok(s) \/ Failed \/ Stuck(s)
      /\ CopyConfig(s) => Ok(s) \/ Failed
  BY <1>9, Zenon DEF EditConfig, CopyConfig, Failed
<1>6. Incomplete(s) \/ GetConfig(s) \/ EditNone(s) \/ Lock(s) \/ Unlock(s) \/ Validate(s) \/ KillSession(s)
      \/ Commit(s) \/ DiscardChanges(s) \/ PluginTag(s) \/ UnknownTag(s) => Ok(s) \/ Data(s) \/ Failed \/ Next
  BY <1>9, Zenon DEF Incomplete, GetConfig, EditNone, Lock, Unlock, Validate, KillSession, Commit, DiscardChanges, PluginTag,
     UnknownTag, Error, Failed, Next
<1>7. Ok(s) \/ Data(s) \/ Failed \/ Todo \/ Closed \/ Subs => OrderInv'
  BY <1>1, RepliesInOrder
<1>8. Stuck(s) => OrderInv'
  BY StopsInOrder DEF Stuck
<1>10. Next => OrderInv'
  BY <1>1, ElementInOrder
<1> HIDE DEF Todo, Closed, Subs, Failed, Next
<1> QED
  BY <1>2, <1>3, <1>4, <1>5, <1>6, <1>7, <1>8, <1>10

LEMMA OrderStart == NetconfInit => OrderInv
PROOF
<1> SUFFICES ASSUME NetconfInit, NEW s \in Sessions PROVE InOrder(net[s])
  BY DEF OrderInv
<1>1. net[s] = NetStart
  BY DEF NetconfInit
<1>2. Unread(NetStart) = <<>>
  <2>1. <<>> \o <<>> = <<>>
    OBVIOUS
  <2> QED
    BY <2>1 DEF Unread, NetStart
<1>3. CellsLeft(<<>>, <<>>, 0)
  BY DEF CellsLeft
<1>4. Matched(<<>>, <<>>, 0)
  <2>1. RpcsIn(<<>>, 0) = {} /\ AnswersIn(<<>>) = {}
    BY DEF RpcsIn, AnswersIn
  <2> QED
    BY <2>1 DEF Matched
<1>5. Len(NetStart.buf) = 0 /\ Len(NetStart.chunk) = 0 /\ ~SplitsTag(0 + 0)
  BY DEF NetStart, SplitsTag
<1>6. /\ NetStart.stage = "start" /\ NetStart.chunk = <<>> /\ NetStart.sent = <<>> /\ NetStart.out = <<>>
      /\ 0 \in 0..Len(NetStart.sent)
  BY DEF NetStart
<1>7. Reading(NetStart, 0)
  BY <1>2, <1>3, <1>4, <1>5, <1>6 DEF Reading
<1> QED
  BY <1>1, <1>6, <1>7 DEF InOrder

LEMMA OrderStep == NetInv /\ NetInv' /\ OrderInv /\ [NetconfNext]_netconfVars => OrderInv'
PROOF
<1> SUFFICES ASSUME NetInv, NetInv', OrderInv, [NetconfNext]_netconfVars PROVE OrderInv'
  OBVIOUS
<1>1. CASE UNCHANGED net
  BY <1>1 DEF OrderInv
<1>2. ASSUME NEW s \in Sessions, NetconfStep(s) PROVE OrderInv'
  BY <1>2, ReadingInOrder, ServingInOrder, RequestsInOrder, Zenon DEF NetconfStep
<1> QED
  BY <1>1, <1>2 DEF NetconfNext, ForeignLock, netconfVars

\* However the peer's messages are cut into reads and whatever else is
\* written in between: each rpc is answered by one write, in the order in
\* which they were sent, unless an end tag was cut in two; and the write is
\* one message, or no more errors than the rpc has elements (one more for an
\* edit-config).
THEOREM AnswersKeepOrder == NetconfSpec => []AnsweredInOrder
PROOF
<1>1. NetInv /\ OrderInv => AnsweredInOrder
  <2> SUFFICES ASSUME NetInv, OrderInv, NEW s \in Sessions, net[s].stage \in {"loop", "scan"}, ~net[s].split
               PROVE  Matched(net[s].out, net[s].sent, Taken(net[s])) /\ AllWorded(net[s].out)
    BY DEF AnsweredInOrder, AllWorded
  <2>6. AllWorded(net[s].out)
    BY DEF NetInv, NetTypes, HandSound
  <2>1. net[s] \in NetRecords
    BY DEF NetInv, NetTypes
  <2>2. PICK k \in 0..Len(net[s].sent) : Reading(net[s], k)
    BY DEF OrderInv, InOrder, AtWork
  <2>3. net[s].sent \in Seq(Texts) /\ Unread(net[s]) \in Seq(Cells) /\ CellsLeft(Unread(net[s]), net[s].sent, k)
    BY <2>1, <2>2, RecordFacts DEF Reading
  <2>4. Texted(Unread(net[s])) = Len(net[s].sent) - k
    BY <2>3, TextsLeft
  <2>5. Taken(net[s]) = k
    BY <2>1, <2>4, RecordFacts DEF Taken
  <2> QED
    BY <2>2, <2>5, <2>6 DEF Reading
<1> QED
  BY <1>1, NetStart0, NetStep, OrderStart, OrderStep, PTL DEF NetconfSpec

------------------------------------------------------------------------------
(***************************************************************************)
(* The databases of the CLIs.  Only a removal makes one disappear, and the *)
(* CLI that has removed one has a call that makes it anew before it; the   *)
(* others may come in between, but none of their calls can take that call  *)
(* away.                                                                   *)
(***************************************************************************)
Dbs == [DbNames -> (SUBSET Items) \cup {Missing, Cut}]
CliCalls == [kind : Calls, op : {"set", "del", "merge", "replace", "none"}, items : SUBSET Items,
             onfail : {"stop", "go", "restore", "exit"}]

\* What a command may have before it: a removal is followed by the call that
\* makes the database anew, and a commit that can be undone comes after the
\* change it publishes.
InPlace(p, i) ==
  /\ p[i].kind # "lstat"
  /\ p[i].kind = "rm" => i + 1 <= Len(p) /\ p[i + 1].kind = "initdb"
  /\ p[i].kind = "unlink" => i + 1 <= Len(p) /\ p[i + 1].kind = "dbinit"
  /\ p[i].onfail = "restore" <=> (p[i].kind = "commit" /\ p[i].op # "none")
  /\ i > 1 => /\ p[i].kind # "restore"
              /\ p[i].onfail = "restore" => p[i - 1] = Call("change", p[i].op, p[i].items, "stop")
Programs == {p \in Seq(CliCalls) : \A i \in 1..Len(p) : InPlace(p, i)}
\* A command from its beginning.
Whole(p) == Len(p) >= 1 => p[1].onfail # "restore" /\ p[1].kind # "restore"
Commands == {p \in Programs : Whole(p)}

CliRecords ==
  [pc : {"off", "prompt", "busy"}, opt : {"daemon", "direct", "private"}, todo : Seq(CliCalls), target : DbNames,
   alone : BOOLEAN, failed : BOOLEAN, before : Dbs \cup {<<>>}]
Own(x) == IF x.opt = "private" THEN "private" ELSE "candidate"
StartCall == Call("lstat", "none", {}, "stop")
RestoreCall(call) == Call("restore", call.op, call.items, "stop")
CliSound(x) ==
  /\ x.pc = "busy" => Len(x.todo) >= 1
  /\ x.todo \in Programs \/ (x.todo = <<StartCall>> /\ x.target = Own(x))

\* A CLI that is up has a candidate; a call that makes a database anew.
Needs(x, n) == Own(x) = n /\ (x.pc = "prompt" \/ (x.pc = "busy" /\ x.todo[1].kind # "lstat"))
Makes(x, n) == x.pc = "busy" /\ x.target = n /\ x.todo[1].kind \in {"initdb", "dbinit", "copy"}

DbsPresent ==
  \A n \in DbNames : n = "running" \/ (\E c \in Clis : Needs(cli[c], n)) =>
                       db[n] # Missing \/ \E c \in Clis : Makes(cli[c], n)
CliTypes == db \in Dbs /\ cli \in [Clis -> CliRecords] /\ \A c \in Clis : CliSound(cli[c])
CliInv == CliTypes /\ (~unlucky => DbsPresent)

\* What a step must leave as it is: the other CLIs keep their commands, and a
\* database that is missing afterwards has somebody who makes it.
LEMMA CliStepKeeps ==
  ASSUME CliInv, NEW c \in Clis, db' \in Dbs, cli' \in [Clis -> CliRecords], CliSound(cli'[c]),
         \A d \in Clis \ {c} : /\ cli'[d].pc = cli[d].pc /\ cli'[d].opt = cli[d].opt
                               /\ cli'[d].todo = cli[d].todo /\ cli'[d].target = cli[d].target,
         unlucky => unlucky',
         ~unlucky' => \A n \in DbNames :
           /\ db[n] # Missing \/ Makes(cli[c], n) => db'[n] # Missing \/ Makes(cli'[c], n)
           /\ Needs(cli'[c], n) => Needs(cli[c], n) \/ db'[n] # Missing \/ Makes(cli'[c], n)
  PROVE  CliInv'
PROOF
<1>1. CliTypes
  BY DEF CliInv
<1>2. \A d \in Clis \ {c} : CliSound(cli'[d])
  BY <1>1 DEF CliTypes, CliSound, Own
<1>3. CliTypes'
  BY <1>2 DEF CliTypes
<1>4. \A d \in Clis \ {c}, n \in DbNames : /\ Needs(cli'[d], n) <=> Needs(cli[d], n)
                                           /\ Makes(cli'[d], n) <=> Makes(cli[d], n)
  BY DEF Needs, Makes, Own
<1>5. ASSUME ~unlucky' PROVE DbsPresent'
  <2>1. DbsPresent
    BY <1>5, Zenon DEF CliInv
  <2> SUFFICES ASSUME NEW n \in DbNames, n = "running" \/ \E d \in Clis : Needs(cli'[d], n), db'[n] = Missing
               PROVE  \E d \in Clis : Makes(cli'[d], n)
    BY DEF DbsPresent
  <2>2. CASE n = "running" \/ \E d \in Clis : Needs(cli[d], n)
    <3>1. db[n] # Missing \/ \E d \in Clis : Makes(cli[d], n)
      BY <2>1, <2>2 DEF DbsPresent
    <3>2. CASE db[n] # Missing \/ Makes(cli[c], n)
      BY <1>5, <3>2
    <3>3. CASE \E d \in Clis \ {c} : Makes(cli[d], n)
      BY <1>4, <3>3
    <3> QED
      BY <3>1, <3>2, <3>3
  <2>3. CASE Needs(cli'[c], n) /\ ~Needs(cli[c], n)
    BY <1>5, <2>3
  <2> QED
    BY <1>4, <2>2, <2>3
<1> QED
  BY <1>3, <1>5 DEF CliInv

\* The programs: of one call, of a removal and what follows it, and of two
\* programs.
LEMMA OneCall ==
  ASSUME NEW x \in CliCalls, x.kind \notin {"lstat", "rm", "unlink"},
         x.onfail = "restore" <=> (x.kind = "commit" /\ x.op # "none")
  PROVE  /\ <<x>> \in Programs
         /\ x.onfail # "restore" /\ x.kind # "restore" => Whole(<<x>>)
PROOF
<1>1. <<x>> \in Seq(CliCalls) /\ Len(<<x>>) = 1 /\ <<x>>[1] = x
  OBVIOUS
<1>2. \A i \in 1..Len(<<x>>) : i = 1 /\ <<x>>[i] = x
  BY <1>1
<1>3. \A i \in 1..Len(<<x>>) : InPlace(<<x>>, i)
  BY <1>2 DEF InPlace
<1> QED
  BY <1>1, <1>3 DEF Programs, Whole

LEMMA TwoCalls ==
  ASSUME NEW x \in CliCalls, NEW y \in CliCalls,
         \/ x.kind = "rm" /\ y.kind = "initdb" /\ y.onfail # "restore"
         \/ x.kind = "unlink" /\ y.kind = "dbinit" /\ y.onfail # "restore"
         \/ /\ x = Call("change", y.op, y.items, "stop") /\ y.kind = "commit"
            /\ y.op # "none" /\ y.onfail = "restore",
         x.onfail # "restore"
  PROVE  <<x, y>> \in Programs /\ Whole(<<x, y>>)
PROOF
<1>1. PICK p : p = <<x, y>>
  OBVIOUS
<1>2. p \in Seq(CliCalls) /\ Len(p) = 2 /\ p[1] = x /\ p[2] = y
  BY <1>1
<1>3. \A i \in 1..Len(p) : \/ i = 1 /\ p[i] = x /\ p[i + 1] = y /\ i + 1 <= Len(p)
                           \/ i = 2 /\ p[i] = y /\ p[i - 1] = x
  BY <1>2
<1>4. x.kind \in {"rm", "unlink", "change"}
  BY DEF Call
<1>5. ASSUME NEW i \in 1..Len(p) PROVE InPlace(p, i)
  <2>1. CASE i = 1 /\ p[i] = x /\ p[i + 1] = y /\ i + 1 <= Len(p)
    BY <1>4, <2>1 DEF InPlace, Call
  <2>2. CASE i = 2 /\ p[i] = y /\ p[i - 1] = x
    BY <2>2 DEF InPlace
  <2> QED
    BY <1>3, <2>1, <2>2
<1> QED
  BY <1>1, <1>2, <1>4, <1>5 DEF Programs, Whole

LEMMA JoinedPrograms ==
  ASSUME NEW p \in Programs, NEW q \in Programs, Whole(p), Whole(q)
  PROVE  p \o q \in Programs /\ Whole(p \o q)
PROOF
<1>1. PICK r : r = p \o q
  OBVIOUS
<1>2. p \in Seq(CliCalls) /\ q \in Seq(CliCalls) /\ Len(p) \in Nat /\ Len(q) \in Nat
  BY DEF Programs
<1>3. /\ r \in Seq(CliCalls) /\ Len(r) = Len(p) + Len(q)
      /\ \A i \in 1..Len(p) : r[i] = p[i]
      /\ \A i \in 1..Len(q) : r[Len(p) + i] = q[i]
  BY <1>1, <1>2
<1>4. ASSUME NEW i \in 1..Len(r) PROVE InPlace(r, i)
  <2>1. CASE i \in 1..Len(p)
    <3>1. r[i] = p[i] /\ (i + 1 <= Len(p) => r[i + 1] = p[i + 1] /\ i + 1 <= Len(r))
      BY <1>2, <1>3, <2>1
    <3>2. i > 1 => r[i - 1] = p[i - 1]
      BY <1>2, <1>3, <2>1
    <3> QED
      BY <2>1, <3>1, <3>2 DEF Programs, InPlace
  <2>2. CASE i \notin 1..Len(p)
    <3>0. i \in Nat /\ Len(p) < i /\ i <= Len(p) + Len(q)
      BY <1>2, <1>3, <2>2
    <3>1. PICK j \in 1..Len(q) : j = i - Len(p)
      <4>1. i - Len(p) \in 1..Len(q)
        BY <1>2, <3>0
      <4> QED
        BY <4>1
    <3>2. i = Len(p) + j /\ i + 1 = Len(p) + (j + 1) /\ i - 1 = Len(p) + (j - 1)
      BY <1>2, <3>1
    <3>3. r[i] = q[j] /\ (j + 1 <= Len(q) => r[i + 1] = q[j + 1] /\ i + 1 <= Len(r))
      <4>1. r[i] = q[j]
        BY <1>3, <3>2
      <4>2. j + 1 <= Len(q) => j + 1 \in 1..Len(q)
        BY <1>2
      <4>3. j + 1 <= Len(q) => r[Len(p) + (j + 1)] = q[j + 1]
        BY <1>3, <4>2
      <4>4. j + 1 <= Len(q) => i + 1 <= Len(r)
        BY <1>2, <1>3, <3>2
      <4> QED
        BY <3>2, <4>1, <4>3, <4>4
    <3>4. j > 1 => r[i - 1] = q[j - 1]
      <4>1. j > 1 => j - 1 \in 1..Len(q)
        BY <1>2
      <4> QED
        BY <1>3, <3>2, <4>1
    <3>5. j = 1 => q[j].onfail # "restore" /\ q[j].kind # "restore"
      <4>1. j = 1 => Len(q) >= 1
        BY <1>2
      <4> QED
        BY <4>1 DEF Whole
    <3>6. InPlace(q, j) /\ (j = 1 \/ j > 1)
      BY DEF Programs
    <3> QED
      BY <3>3, <3>4, <3>5, <3>6 DEF InPlace
  <2> QED
    BY <2>1, <2>2
<1>5. Whole(r)
  <2>1. CASE Len(p) >= 1
    <3>1. r[1] = p[1]
      BY <1>2, <1>3, <2>1
    <3> QED
      BY <2>1, <3>1 DEF Whole
  <2>2. CASE Len(p) = 0
    <3>1. Len(r) >= 1 => Len(q) >= 1 /\ r[1] = q[1]
      BY <1>2, <1>3, <2>2
    <3> QED
      BY <3>1 DEF Whole
  <2> QED
    BY <1>2, <2>1, <2>2
<1> QED
  BY <1>1, <1>3, <1>4, <1>5 DEF Programs

LEMMA RestOfProgram ==
  ASSUME NEW p \in Programs, Len(p) >= 1
  PROVE  /\ Tail(p) \in Programs /\ Len(Tail(p)) = Len(p) - 1
         /\ Len(p) >= 2 => Tail(p)[1] = p[2]
         /\ \A i \in 1..Len(Tail(p)) : Tail(p)[i] = p[i + 1]
PROOF
<1>1. PICK r : r = Tail(p)
  OBVIOUS
<1>2. p \in Seq(CliCalls) /\ Len(p) \in Nat
  BY DEF Programs
<1>3. r \in Seq(CliCalls) /\ Len(r) = Len(p) - 1 /\ \A i \in 1..Len(r) : r[i] = p[i + 1]
  BY <1>1, <1>2
<1>4. ASSUME NEW i \in 1..Len(r) PROVE InPlace(r, i)
  <2>1. PICK j \in 1..Len(p) : j = i + 1 /\ j > 1
    BY <1>2, <1>3
  <2>2. r[i] = p[j] /\ (j + 1 <= Len(p) => i + 1 <= Len(r) /\ r[i + 1] = p[j + 1])
    BY <1>2, <1>3, <2>1
  <2>3. i > 1 => r[i - 1] = p[j - 1]
    BY <1>2, <1>3, <2>1
  <2>4. InPlace(p, j)
    BY DEF Programs
  <2> QED
    BY <2>1, <2>2, <2>3, <2>4 DEF InPlace
<1>5. r \in Programs
  BY <1>3, <1>4 DEF Programs
<1>6. Len(p) >= 2 => r[1] = p[2]
  BY <1>2, <1>3
<1> QED
  BY <1>1, <1>3, <1>5, <1>6

LEMMA NoCalls == <<>> \in Programs /\ Whole(<<>>) /\ <<>> \in Seq(CliCalls)
PROOF
<1>1. <<>> \in Seq(CliCalls) /\ 1..Len(<<>>) = {} /\ Len(<<>>) = 0
  OBVIOUS
<1> QED
  BY <1>1 DEF Programs, Whole

\* What a command does after a call: it ends, goes on with the rest of its
\* program, or restores the candidate.
LEMMA NextFacts ==
  ASSUME CliTypes, db' \in Dbs, NEW c \in Clis, cli[c].pc = "busy", cli[c].todo[1].kind # "lstat",
         NEW ok \in BOOLEAN, Next1(c, ok)
  PROVE  /\ cli' \in [Clis -> CliRecords] /\ CliSound(cli'[c])
         /\ \A d \in Clis \ {c} : cli'[d] = cli[d]
         /\ cli'[c].pc # "off" => cli'[c].opt = cli[c].opt /\ cli'[c].target = cli[c].target
         /\ ok /\ cli[c].todo[1].kind # "restore" /\ Len(cli[c].todo) >= 2 =>
               cli'[c].pc = "busy" /\ cli'[c].todo[1] = cli[c].todo[2]
         /\ cli'[c].pc = "busy" =>
               /\ cli'[c].alone = cli[c].alone /\ cli'[c].failed = cli[c].failed
               /\ \/ /\ ok \/ cli[c].todo[1].onfail = "go"
                     /\ Len(cli[c].todo) >= 2 /\ cli'[c].todo = Tail(cli[c].todo)
                     /\ cli'[c].before = IF cli[c].todo[2].kind = "change" THEN db' ELSE cli[c].before
                  \/ /\ ~ok /\ cli[c].todo[1].onfail = "restore"
                     /\ cli'[c].todo = <<RestoreCall(cli[c].todo[1])>> /\ cli'[c].before = cli[c].before
         /\ ~ok /\ cli[c].todo[1].onfail = "restore" /\ cli[c].todo[1].kind # "restore" =>
               cli'[c].pc = "busy" /\ cli'[c].todo = <<RestoreCall(cli[c].todo[1])>>
         /\ cli'[c].pc = "prompt" /\ cli'[c].failed =>
               \/ cli[c].todo[1].kind = "restore" \/ cli[c].failed
               \/ ~ok /\ cli[c].todo[1].onfail # "restore"
PROOF
<1>1. PICK x \in CliRecords : x = cli[c] /\ CliSound(x)
  BY DEF CliTypes
<1>2. PICK p \in Programs : p = x.todo /\ Len(p) >= 1
  <2>1. x.todo # <<StartCall>>
    BY <1>1 DEF StartCall, Call
  <2> QED
    BY <1>1, <2>1 DEF CliSound
<1>3. PICK q \in Programs : /\ q = Tail(p) /\ Len(q) = Len(p) - 1 /\ (Len(p) >= 2 => q[1] = p[2])
  BY <1>2, RestOfProgram
<1>4. p \in Seq(CliCalls) /\ q \in Seq(CliCalls) /\ Len(p) \in Nat /\ Len(q) \in Nat
  BY DEF Programs
<1>5. <<>> \in Programs
  BY NoCalls
<1>6. PICK end : end = [f \in BOOLEAN |-> [x EXCEPT !.pc = "prompt", !.todo = <<>>, !.failed = f, !.before = <<>>, !.alone = TRUE]]
  OBVIOUS
<1>7. \A f \in BOOLEAN : end[f] \in CliRecords /\ CliSound(end[f]) /\ end[f].opt = x.opt /\ end[f].target = x.target
                         /\ end[f].pc = "prompt"
  <2> SUFFICES ASSUME NEW f \in BOOLEAN
               PROVE end[f] \in CliRecords /\ CliSound(end[f]) /\ end[f].opt = x.opt /\ end[f].target = x.target
                         /\ end[f].pc = "prompt"
    OBVIOUS
  <2>1. PICK e : e = end[f] /\ e = [x EXCEPT !.pc = "prompt", !.todo = <<>>, !.failed = f, !.before = <<>>, !.alone = TRUE]
    BY <1>6
  <2>2. <<>> \in Seq(CliCalls)
    OBVIOUS
  <2>3. e \in CliRecords /\ e.todo = <<>> /\ e.opt = x.opt /\ e.target = x.target /\ e.pc = "prompt"
    BY <2>1, <2>2 DEF CliRecords
  <2> QED
    BY <1>5, <2>1, <2>3 DEF CliSound
<1>8. PICK b : b = IF q[1].kind = "change" THEN db' ELSE x.before
  OBVIOUS
<1>9. PICK now : now = [x EXCEPT !.todo = q, !.before = b]
  OBVIOUS
<1>10. q # <<>> => /\ now \in CliRecords /\ CliSound(now) /\ now.opt = x.opt /\ now.target = x.target
                   /\ now.pc = "busy" /\ now.todo = q
  <2>1. b \in Dbs \cup {<<>>}
    BY <1>8 DEF CliRecords
  <2>2. now \in CliRecords /\ now.opt = x.opt /\ now.target = x.target /\ now.pc = "busy" /\ now.todo = q
    BY <1>1, <1>4, <1>9, <2>1 DEF CliRecords
  <2>3. q # <<>> => Len(q) >= 1
    BY <1>4
  <2> QED
    BY <2>2, <2>3 DEF CliSound
<1>11. PICK call : call = RestoreCall(p[1])
  OBVIOUS
<1>12. <<call>> \in Programs /\ <<call>> \in Seq(CliCalls)
  <2>0. p[1] \in CliCalls
    BY <1>2, <1>4
  <2>1. call \in CliCalls /\ call.kind = "restore" /\ call.onfail = "stop"
    BY <1>11, <2>0 DEF RestoreCall, Call, CliCalls, Calls
  <2> QED
    BY <2>1, OneCall
<1>13. PICK res : res = [x EXCEPT !.todo = <<call>>]
  OBVIOUS
<1>14. res \in CliRecords /\ CliSound(res) /\ res.opt = x.opt /\ res.target = x.target
  <2>1. res \in CliRecords /\ res.opt = x.opt /\ res.target = x.target /\ res.todo = <<call>>
    BY <1>12, <1>13 DEF CliRecords
  <2>2. Len(res.todo) >= 1
    BY <2>1
  <2> QED
    BY <1>12, <2>1, <2>2 DEF CliSound
<1>15. NoCli \in CliRecords /\ CliSound(NoCli) /\ NoCli.pc = "off"
  <2>1. <<>> \in Seq(CliCalls)
    OBVIOUS
  <2> QED
    BY <1>5, <2>1 DEF NoCli, CliRecords, CliSound, DbNames
<1>16. PICK r : /\ cli' = [cli EXCEPT ![c] = r]
                /\ r = IF p[1].kind = "restore" THEN end[TRUE]
                        ELSE IF ok \/ p[1].onfail = "go" THEN IF q = <<>> THEN end[x.failed] ELSE now
                        ELSE IF p[1].onfail = "restore" THEN res
                        ELSE IF p[1].onfail = "exit" THEN NoCli
                        ELSE end[TRUE]
  <2>1. x.failed \in BOOLEAN
    BY DEF CliRecords
  <2>2. end[TRUE] = [cli[c] EXCEPT !.pc = "prompt", !.todo = <<>>, !.failed = TRUE, !.before = <<>>, !.alone = TRUE]
    BY <1>1, <1>6
  <2>3. end[x.failed] = [cli[c] EXCEPT !.pc = "prompt", !.todo = <<>>, !.failed = cli[c].failed, !.before = <<>>, !.alone = TRUE]
    BY <1>1, <1>6, <2>1
  <2>4. now = [cli[c] EXCEPT !.todo = q, !.before = IF q[1].kind = "change" THEN db' ELSE cli[c].before]
    BY <1>1, <1>8, <1>9
  <2>5. res = [cli[c] EXCEPT !.todo = <<Call("restore", cli[c].todo[1].op, cli[c].todo[1].items, "stop")>>]
    BY <1>1, <1>2, <1>11, <1>13 DEF RestoreCall
  <2>6. p = cli[c].todo /\ q = Tail(cli[c].todo)
    BY <1>1, <1>2, <1>3
  <2> QED
    BY <2>2, <2>3, <2>4, <2>5, <2>6 DEF Next1
<1>17. x.failed \in BOOLEAN
  BY DEF CliRecords
<1>18. r \in CliRecords /\ CliSound(r) /\ (r.pc # "off" => r.opt = x.opt /\ r.target = x.target)
  BY <1>7, <1>10, <1>14, <1>15, <1>16, <1>17
<1>19. ok /\ p[1].kind # "restore" /\ Len(p) >= 2 => r.pc = "busy" /\ r.todo[1] = p[2]
  <2>1. Len(p) >= 2 => Len(q) >= 1
    BY <1>3, <1>4
  <2>2. Len(q) >= 1 => q # <<>>
    OBVIOUS
  <2> QED
    BY <1>3, <1>10, <1>16, <2>1, <2>2
<1>20. Len(p) >= 2 <=> q # <<>>
  <2>1. Len(q) = 0 <=> q = <<>>
    BY <1>4
  <2> QED
    BY <1>3, <1>4, <2>1
<1>21. \A f \in BOOLEAN : end[f].failed = f /\ end[f].pc = "prompt"
  BY <1>6, <1>7 DEF CliRecords
<1>22. /\ now.alone = x.alone /\ now.failed = x.failed /\ now.todo = q /\ now.before = b
       /\ res.alone = x.alone /\ res.failed = x.failed /\ res.todo = <<call>> /\ res.before = x.before
  BY <1>9, <1>13 DEF CliRecords
<1>23. r.pc = "busy" =>
         /\ r.alone = x.alone /\ r.failed = x.failed
         /\ \/ /\ ok \/ p[1].onfail = "go"
               /\ Len(p) >= 2 /\ r.todo = q /\ r.before = IF p[2].kind = "change" THEN db' ELSE x.before
            \/ ~ok /\ p[1].onfail = "restore" /\ r.todo = <<call>> /\ r.before = x.before
  <2>1. CASE r = now /\ (ok \/ p[1].onfail = "go") /\ q # <<>>
    BY <1>3, <1>8, <1>20, <1>22, <2>1
  <2>2. CASE r = res /\ ~ok /\ p[1].onfail = "restore"
    BY <1>22, <2>2
  <2> QED
    BY <1>15, <1>16, <1>17, <1>21, <2>1, <2>2
<1>24. r.pc = "prompt" /\ r.failed => p[1].kind = "restore" \/ x.failed \/ (~ok /\ p[1].onfail # "restore")
  <2>1. res.pc = "busy" /\ now.pc = "busy"
    BY <1>1, <1>9, <1>13 DEF CliRecords
  <2> QED
    BY <1>15, <1>16, <1>17, <1>21, <2>1
<1>27. ~ok /\ p[1].onfail = "restore" /\ p[1].kind # "restore" => r.pc = "busy" /\ r.todo = <<call>>
  <2>1. res.pc = "busy" /\ res.todo = <<call>>
    BY <1>1, <1>13 DEF CliRecords
  <2> QED
    BY <1>16, <2>1
<1>25. cli \in [Clis -> CliRecords]
  BY DEF CliTypes
<1>26. cli'[c] = r /\ cli' \in [Clis -> CliRecords] /\ \A d \in Clis \ {c} : cli'[d] = cli[d]
  BY <1>16, <1>18, <1>25
<1> QED
  BY <1>1, <1>2, <1>3, <1>11, <1>18, <1>19, <1>23, <1>24, <1>26, <1>27

\* A call keeps the invariant when it takes no database away, or is a
\* removal; and when it has made what it was to make.
LEMMA CallKeeps ==
  ASSUME CliInv, NEW c \in Clis, cli[c].pc = "busy", cli[c].todo[1].kind # "lstat", db' \in Dbs,
         NEW ok \in BOOLEAN, Next1(c, ok), unlucky => unlucky',
         ~unlucky' => \A n \in DbNames :
           /\ db[n] # Missing /\ db'[n] = Missing => ok /\ n = cli[c].target /\ cli[c].todo[1].kind \in {"rm", "unlink"}
           /\ Makes(cli[c], n) => db'[n] # Missing
  PROVE  CliInv'
PROOF
<1>1. CliTypes
  BY DEF CliInv
<1>2. /\ cli' \in [Clis -> CliRecords] /\ CliSound(cli'[c])
      /\ \A d \in Clis \ {c} : cli'[d] = cli[d]
      /\ cli'[c].pc # "off" => cli'[c].opt = cli[c].opt /\ cli'[c].target = cli[c].target
      /\ ok /\ cli[c].todo[1].kind # "restore" /\ Len(cli[c].todo) >= 2 =>
            cli'[c].pc = "busy" /\ cli'[c].todo[1] = cli[c].todo[2]
  BY <1>1, NextFacts
<1>3. ASSUME cli[c].todo[1].kind \in {"rm", "unlink"}
      PROVE  Len(cli[c].todo) >= 2 /\ cli[c].todo[2].kind \in {"initdb", "dbinit"}
  <2>1. PICK p \in Programs : p = cli[c].todo /\ Len(p) >= 1
    <3>1. cli[c].todo # <<StartCall>>
      BY DEF StartCall, Call
    <3> QED
      BY <1>1, <3>1 DEF CliTypes, CliSound
  <2>2. p \in Seq(CliCalls) /\ Len(p) \in Nat /\ 1 \in 1..Len(p)
    BY <2>1 DEF Programs
  <2>4. InPlace(p, 1)
    BY <2>2 DEF Programs
  <2>3. 1 + 1 <= Len(p) /\ p[1 + 1].kind \in {"initdb", "dbinit"}
    BY <1>3, <2>1, <2>4 DEF InPlace
  <2> QED
    BY <2>1, <2>2, <2>3
<1>4. ASSUME ~unlucky', NEW n \in DbNames
      PROVE  /\ db[n] # Missing \/ Makes(cli[c], n) => db'[n] # Missing \/ Makes(cli'[c], n)
             /\ Needs(cli'[c], n) => Needs(cli[c], n) \/ db'[n] # Missing \/ Makes(cli'[c], n)
  <2>1. Needs(cli'[c], n) => Needs(cli[c], n)
    BY <1>2 DEF Needs, Own
  <2>2. CASE db[n] # Missing /\ db'[n] = Missing
    <3>1. ok /\ n = cli[c].target /\ cli[c].todo[1].kind \in {"rm", "unlink"}
      BY <1>4, <2>2
    <3>2. Makes(cli'[c], n)
      BY <1>2, <1>3, <3>1 DEF Makes
    <3> QED
      BY <2>1, <3>2
  <2>3. CASE ~(db[n] # Missing /\ db'[n] = Missing)
    BY <1>4, <2>1, <2>3
  <2> QED
    BY <2>2, <2>3
<1> QED
  BY <1>2, <1>4, CliStepKeeps

\* A call that fails has no effect; one that was to make a database is bad
\* luck.
LEMMA FailsKeeps ==
  ASSUME CliInv, NEW c \in Clis, cli[c].pc = "busy", cli[c].todo[1].kind # "lstat", Fails(c),
         cli[c].todo[1].kind \in {"initdb", "dbinit"} => ~Unlocked(c) \/ db[cli[c].target] # Missing
  PROVE  CliInv'
PROOF
<1>1. unlucky => unlucky'
  BY Zenon DEF Fails
<1>2. ~Unlocked(c) => unlucky'
  BY Zenon DEF Fails
<1>3. cli[c].todo[1].kind = "copy" => unlucky'
  BY Zenon DEF Fails
<1>4. db' = db /\ db' \in Dbs /\ Next1(c, FALSE)
  BY DEF Fails, CliInv, CliTypes
<1>5. ~unlucky' => \A n \in DbNames : Makes(cli[c], n) => db[n] # Missing
  BY <1>2, <1>3 DEF Makes
<1> QED
  BY <1>1, <1>4, <1>5, CallKeeps

LEMMA CallFailsKeeps ==
  ASSUME CliInv, NEW c \in Clis, CallFails(c)
  PROVE  CliInv'
PROOF
<1>1. unlucky'
  BY Zenon DEF CallFails
<1>2. db' = db /\ db' \in Dbs /\ Next1(c, FALSE) /\ cli[c].pc = "busy" /\ cli[c].todo[1].kind # "lstat"
  BY DEF CallFails, CliInv, CliTypes
<1> QED
  BY <1>1, <1>2, CallKeeps

\* A call that writes one database.
LEMMA WritesKeeps ==
  ASSUME CliInv, NEW c \in Clis, cli[c].pc = "busy", cli[c].todo[1].kind # "lstat", Works(c),
         NEW n \in DbNames, NEW v \in (SUBSET Items) \cup {Missing, Cut}, db' = [db EXCEPT ![n] = v],
         v = Missing => n = cli[c].target /\ cli[c].todo[1].kind \in {"rm", "unlink"},
         cli[c].todo[1].kind \in {"initdb", "dbinit", "copy"} => n = cli[c].target
  PROVE  CliInv'
PROOF
<1>1. (unlucky => unlucky') /\ Next1(c, TRUE)
  BY Zenon DEF Works
<1>2. db \in Dbs
  BY DEF CliInv, CliTypes
<1>3. db' \in Dbs /\ db'[n] = v /\ \A m \in DbNames \ {n} : db'[m] = db[m]
  BY <1>2 DEF Dbs
<1>4. ASSUME NEW m \in DbNames
      PROVE  /\ db[m] # Missing /\ db'[m] = Missing =>
                   TRUE /\ m = cli[c].target /\ cli[c].todo[1].kind \in {"rm", "unlink"}
             /\ Makes(cli[c], m) => db'[m] # Missing
  BY <1>3 DEF Makes
<1> QED
  BY <1>1, <1>3, <1>4, CallKeeps

\* A call that writes none.
LEMMA LooksKeeps ==
  ASSUME CliInv, NEW c \in Clis, cli[c].pc = "busy", cli[c].todo[1].kind \in {"validate", "save"}, Works(c), UNCHANGED db
  PROVE  CliInv'
PROOF
<1>1. (unlucky => unlucky') /\ Next1(c, TRUE)
  BY Zenon DEF Works
<1>2. db' = db /\ db' \in Dbs
  BY DEF CliInv, CliTypes
<1>3. \A m \in DbNames : ~Makes(cli[c], m)
  BY DEF Makes
<1> QED
  BY <1>1, <1>2, <1>3, CallKeeps

\* The items and the target of the call under way.
LEMMA CallFacts ==
  ASSUME CliInv, NEW c \in Clis, cli[c].pc = "busy"
  PROVE  /\ cli[c].todo[1] \in CliCalls /\ cli[c].target \in DbNames
         /\ \A n \in DbNames : db[n] \in {Missing, Cut} \/ db[n] \in SUBSET Items
         /\ Missing \notin SUBSET Items /\ Cut # Missing
PROOF
<1>1. cli[c] \in CliRecords /\ CliSound(cli[c]) /\ db \in Dbs
  BY DEF CliInv, CliTypes
<1>2. PICK p \in Seq(CliCalls) : p = cli[c].todo /\ Len(p) >= 1
  BY <1>1 DEF CliRecords, CliSound
<1>3. p[1] \in CliCalls
  BY <1>2
<1>4. cli[c].target \in DbNames
  BY <1>1 DEF CliRecords
<1>5. \A n \in DbNames : db[n] \in {Missing, Cut} \/ db[n] \in SUBSET Items
  BY <1>1 DEF Dbs
<1> QED
  BY <1>2, <1>3, <1>4, <1>5, CliSessionAssumption

LEMMA CliChangeKeeps ==
  ASSUME CliInv, NEW c \in Clis, Change(c) \/ LoadCall(c)
  PROVE  CliInv'
PROOF
<1>1. cli[c].pc = "busy" /\ cli[c].todo[1].kind \in {"change", "load", "loadxml"}
  BY DEF Change, LoadCall, At
<1>2. PICK d \in DbNames, x \in CliCalls : d = cli[c].target /\ x = cli[c].todo[1]
  BY <1>1, CallFacts
<1>3. x.items \in SUBSET Items
  BY DEF CliCalls
<1>4. CASE Fails(c)
  BY <1>1, <1>4, FailsKeeps
<1>5. CASE /\ Works(c)
           /\ \E v : /\ v = x.items \/ (Readable(d) /\ v \in {db[d] \ x.items, db[d] \cup x.items})
                     /\ db' = [db EXCEPT ![d] = v]
  <2>1. PICK v : /\ v = x.items \/ (Readable(d) /\ v \in {db[d] \ x.items, db[d] \cup x.items})
                 /\ db' = [db EXCEPT ![d] = v]
    BY <1>5
  <2>2. (Readable(d) => db[d] \in SUBSET Items) /\ Missing \notin SUBSET Items
    BY <1>1, CallFacts DEF Readable
  <2>3. v \in SUBSET Items
    BY <1>3, <2>1, <2>2
  <2>4. v # Missing
    BY <2>2, <2>3
  <2> QED
    BY <1>1, <1>5, <2>1, <2>3, <2>4, WritesKeeps
<1>6. Change(c) => Fails(c) \/ (Works(c) /\ Readable(d) /\ \E v \in {db[d] \ x.items, db[d] \cup x.items} : db' = [db EXCEPT ![d] = v])
  BY <1>2 DEF Change
<1>7. ASSUME LoadCall(c)
      PROVE  Fails(c) \/ (Works(c) /\ \E v : /\ v = x.items \/ (Readable(d) /\ v = db[d] \cup x.items)
                                             /\ db' = [db EXCEPT ![d] = v])
  <2>1. \/ Fails(c)
        \/ /\ Works(c) /\ (x.op # "replace" => Readable(d))
           /\ db' = [db EXCEPT ![d] = IF x.op = "replace" THEN x.items ELSE db[d] \cup x.items]
    BY <1>2, <1>7, Zenon DEF LoadCall
  <2>2. CASE Works(c) /\ x.op = "replace" /\ db' = [db EXCEPT ![d] = x.items]
    BY <2>2
  <2>3. CASE Works(c) /\ Readable(d) /\ db' = [db EXCEPT ![d] = db[d] \cup x.items]
    BY <2>3
  <2> QED
    BY <2>1, <2>2, <2>3
<1> QED
  BY <1>4, <1>5, <1>6, <1>7

\* What a commit leaves: candidate with default values, running as it was or
\* published, and either cut.
LEMMA FilledFacts ==
  ASSUME NEW cand \in SUBSET Items, NEW run \in SUBSET Items
  PROVE  /\ Filled(cand, run) \in SUBSET Items /\ Publishes(cand, Filled(cand, run))
         /\ PartFilled(cand, run) \subseteq SUBSET Items
PROOF
<1>1. \A i \in Items : Fill[i] \subseteq Items
  BY CliSessionAssumption
<1>2. PICK changed : changed = {i \in cand : LET entry == {i} \cup Fill[i] IN entry \cap cand # entry \cap run}
  OBVIOUS
<1>3. Filled(cand, run) = cand \cup UNION {Fill[i] : i \in changed}
  BY <1>2 DEF Filled
<1>4. changed \subseteq cand
  BY <1>2
<1>5. UNION {Fill[i] : i \in changed} \subseteq UNION {Fill[i] : i \in cand}
  BY <1>4
<1>6. UNION {Fill[i] : i \in cand} \subseteq Items
  BY <1>1
<1>7. Filled(cand, run) \in SUBSET Items
  BY <1>3, <1>5, <1>6
<1>8. Publishes(cand, Filled(cand, run))
  BY <1>3, <1>5, <1>7 DEF Publishes
<1> QED
  BY <1>7, <1>8 DEF PartFilled

LEMMA CommitEndsFacts ==
  ASSUME NEW cand \in SUBSET Items, NEW run \in SUBSET Items, NEW end \in CommitEnds(cand, run)
  PROVE  /\ end.cand \in (SUBSET Items) \cup {Cut} /\ end.run \in (SUBSET Items) \cup {Cut} /\ end.ok \in BOOLEAN
         /\ end.ok /\ end.cand # Cut /\ end.run # Cut => end.cand = Filled(cand, run) /\ end.run = Filled(cand, run)
         /\ ~end.ok /\ end.run # Cut => end.run = run \/ end.run = Filled(cand, run)
PROOF
<1>1. Filled(cand, run) \in SUBSET Items /\ PartFilled(cand, run) \subseteq SUBSET Items
  BY FilledFacts
<1>2. CASE end \in Refusals(cand, run)
  <2>1. PICK part \in PartFilled(cand, run) : end = [cand |-> part, run |-> run, ok |-> FALSE]
    BY <1>2 DEF Refusals
  <2>2. end.cand = part /\ end.run = run /\ end.ok = FALSE
    BY <2>1
  <2> QED
    BY <1>1, <2>2
<1>3. CASE end \in Publications(cand, run)
  <2>1. end \in [cand : {Filled(cand, run), Cut}, run : {Filled(cand, run), Cut}, ok : BOOLEAN]
    BY <1>3 DEF Publications
  <2>2. end.cand \in {Filled(cand, run), Cut} /\ end.run \in {Filled(cand, run), Cut} /\ end.ok \in BOOLEAN
    BY <2>1
  <2> QED
    BY <1>1, <2>2
<1> QED
  BY <1>2, <1>3 DEF CommitEnds

LEMMA CommitCallKeeps ==
  ASSUME CliInv, NEW c \in Clis, CommitCall(c)
  PROVE  CliInv'
PROOF
<1>1. cli[c].pc = "busy" /\ cli[c].todo[1].kind = "commit"
  BY DEF CommitCall, At
<1>2. PICK d \in DbNames : d = cli[c].target
  BY <1>1, CallFacts
<1>3. CASE Fails(c)
  BY <1>1, <1>3, FailsKeeps
<1>4. CASE ~Fails(c)
  <2>1. Readable(d) /\ Readable("running")
    BY <1>2, <1>4 DEF CommitCall
  <2>2. db[d] \in SUBSET Items /\ db["running"] \in SUBSET Items /\ "running" \in DbNames
    BY <1>1, <2>1, CallFacts DEF DbNames, Readable
  <2>3. PICK end \in CommitEnds(db[d], db["running"]) :
          /\ db' = [db EXCEPT ![d] = end.cand, !["running"] = end.run]
          /\ Next1(c, end.ok)
          /\ unlucky' = (unlucky \/ end.run = Cut \/ (end.ok /\ end.cand = Cut))
    BY <1>2, <2>1 DEF CommitCall
  <2>4. end.cand \in (SUBSET Items) \cup {Cut} /\ end.run \in (SUBSET Items) \cup {Cut} /\ end.ok \in BOOLEAN
    BY <2>2, CommitEndsFacts
  <2>5. db \in Dbs /\ end.cand # Missing /\ end.run # Missing
    BY <1>1, <2>4, CallFacts DEF CliInv, CliTypes
  <2>6. PICK cand, run : cand = end.cand /\ run = end.run
    OBVIOUS
  <2>7. /\ db' \in Dbs
        /\ \A n \in DbNames : db'[n] = Missing => db[n] = Missing
    BY <2>2, <2>3, <2>4, <2>5, <2>6 DEF Dbs
  <2>8. \A n \in DbNames : ~Makes(cli[c], n)
    BY <1>1 DEF Makes
  <2>9. unlucky => unlucky'
    BY <2>3, Zenon
  <2> QED
    BY <1>1, <2>3, <2>4, <2>7, <2>8, <2>9, CallKeeps
<1> QED
  BY <1>3, <1>4

LEMMA ValidateCallKeeps ==
  ASSUME CliInv, NEW c \in Clis, ValidateCall(c) \/ SaveCall(c)
  PROVE  CliInv'
PROOF
<1>1. cli[c].pc = "busy" /\ cli[c].todo[1].kind \in {"validate", "save"}
  BY DEF ValidateCall, SaveCall, At
<1>2. PICK d \in DbNames : d = cli[c].target
  BY <1>1, CallFacts
<1>3. CASE Fails(c)
  BY <1>1, <1>3, FailsKeeps
<1>4. CASE SaveCall(c) /\ ~Fails(c)
  <2>1. Works(c) /\ UNCHANGED db
    BY <1>4 DEF SaveCall
  <2> QED
    BY <1>1, <2>1, LooksKeeps
<1>5. CASE ValidateCall(c) /\ ~Fails(c)
  <2>1. Readable(d) /\ Readable("running")
    BY <1>2, <1>5 DEF ValidateCall
  <2>2. db[d] \in SUBSET Items /\ db["running"] \in SUBSET Items /\ Missing \notin SUBSET Items
    BY <1>1, <2>1, CallFacts DEF DbNames, Readable
  <2>3. Filled(db[d], db["running"]) \in SUBSET Items /\ PartFilled(db[d], db["running"]) \subseteq SUBSET Items
    BY <2>2, FilledFacts
  <2>4. PICK v \in SUBSET Items, ok \in BOOLEAN : db' = [db EXCEPT ![d] = v] /\ Next1(c, ok) /\ (unlucky => unlucky')
    <3>1. CASE db' = [db EXCEPT ![d] = Filled(db[d], db["running"])] /\ Works(c)
      <4>1. Next1(c, TRUE) /\ (unlucky => unlucky')
        BY <3>1, Zenon DEF Works
      <4> QED
        BY <2>3, <3>1, <4>1
    <3>2. CASE /\ \E part \in PartFilled(db[d], db["running"]) : db' = [db EXCEPT ![d] = part]
               /\ Next1(c, FALSE) /\ UNCHANGED unlucky
      <4>1. unlucky => unlucky'
        BY <3>2, Zenon
      <4> QED
        BY <2>3, <3>2, <4>1
    <3> QED
      BY <1>2, <1>5, <3>1, <3>2 DEF ValidateCall
  <2>5. db \in Dbs
    BY DEF CliInv, CliTypes
  <2>6. db' \in Dbs /\ \A n \in DbNames : db'[n] = Missing => db[n] = Missing
    BY <2>2, <2>4, <2>5 DEF Dbs
  <2>7. \A n \in DbNames : ~Makes(cli[c], n)
    BY <1>1 DEF Makes
  <2> QED
    BY <1>1, <2>4, <2>6, <2>7, CallKeeps
<1> QED
  BY <1>3, <1>4, <1>5

LEMMA CopyCallKeeps ==
  ASSUME CliInv, NEW c \in Clis, CopyCall(c)
  PROVE  CliInv'
PROOF
<1>1. cli[c].pc = "busy" /\ cli[c].todo[1].kind \in {"copy", "restore"}
  BY DEF CopyCall, At
<1>2. CASE Fails(c)
  BY <1>1, <1>2, FailsKeeps
<1>3. CASE db["running"] # Missing /\ Works(c) /\ db' = [db EXCEPT ![cli[c].target] = db["running"]]
  <2>1. db["running"] \in (SUBSET Items) \cup {Missing, Cut} /\ cli[c].target \in DbNames
    BY <1>1, CallFacts DEF DbNames
  <2> QED
    BY <1>1, <1>3, <2>1, WritesKeeps
<1>4. CASE db' = [db EXCEPT ![cli[c].target] = Cut] /\ unlucky' = TRUE /\ \E ok \in BOOLEAN : Next1(c, ok)
  <2>1. PICK ok \in BOOLEAN : Next1(c, ok)
    BY <1>4
  <2>2. db' \in Dbs
    BY <1>4 DEF CliInv, CliTypes, Dbs
  <2>3. unlucky'
    BY <1>4, Zenon
  <2> QED
    BY <1>1, <2>1, <2>2, <2>3, CallKeeps
<1> QED
  BY <1>2, <1>3, <1>4 DEF CopyCall

LEMMA RmCallKeeps ==
  ASSUME CliInv, NEW c \in Clis, RmCall(c)
  PROVE  CliInv'
PROOF
<1>1. cli[c].pc = "busy" /\ cli[c].todo[1].kind \in {"rm", "unlink"}
  BY DEF RmCall, At
<1>2. CASE Fails(c)
  BY <1>1, <1>2, FailsKeeps
<1>3. CASE Works(c) /\ db' = [db EXCEPT ![cli[c].target] = Missing]
  <2>1. cli[c].target \in DbNames
    BY <1>1, CallFacts
  <2> QED
    BY <1>1, <1>3, <2>1, WritesKeeps
<1> QED
  BY <1>2, <1>3 DEF RmCall

LEMMA InitdbCallKeeps ==
  ASSUME CliInv, NEW c \in Clis, InitdbCall(c)
  PROVE  CliInv'
PROOF
<1>1. cli[c].pc = "busy" /\ cli[c].todo[1].kind \in {"initdb", "dbinit"}
  BY DEF InitdbCall, At
<1>2. CASE (~Unlocked(c) \/ db[cli[c].target] = Cut) /\ Fails(c)
  <2>1. Cut # Missing
    BY CliSessionAssumption
  <2> QED
    BY <1>1, <1>2, <2>1, FailsKeeps
<1>3. CASE Works(c) /\ db' = [db EXCEPT ![cli[c].target] = IF @ = Missing THEN {} ELSE @]
  <2>1. PICK d \in DbNames : d = cli[c].target
    BY <1>1, CallFacts
  <2>2. PICK v : v = IF db[d] = Missing THEN {} ELSE db[d]
    OBVIOUS
  <2>3. v \in (SUBSET Items) \cup {Missing, Cut} /\ v # Missing
    BY <1>1, <2>1, <2>2, CallFacts
  <2>4. db' = [db EXCEPT ![d] = v]
    BY <1>3, <2>1, <2>2
  <2> QED
    BY <1>1, <1>3, <2>1, <2>3, <2>4, WritesKeeps
<1> QED
  BY <1>2, <1>3 DEF InitdbCall

\* The start of a CLI looks for its candidate; when there is none, the copy
\* that makes it comes next.
LEMMA LstatKeeps ==
  ASSUME CliInv, NEW c \in Clis, Lstat(c)
  PROVE  CliInv'
PROOF
<1>1. PICK x \in CliRecords : x = cli[c] /\ CliSound(x)
  BY DEF CliInv, CliTypes
<1>2. x.pc = "busy" /\ x.todo[1].kind = "lstat" /\ db' = db /\ db \in Dbs /\ cli \in [Clis -> CliRecords]
  BY <1>1 DEF Lstat, CliInv, CliTypes
<1>3. (unlucky => unlucky') /\ (~unlucky' => ~unlucky)
  BY Zenon DEF Lstat
<1>4. x.target = Own(x) /\ x.target \in DbNames
  <2>1. x.todo \notin Programs
    <3> SUFFICES ASSUME x.todo \in Programs PROVE FALSE
      OBVIOUS
    <3>1. PICK p \in Programs : p = x.todo /\ Len(p) >= 1
      BY <1>1, <1>2 DEF CliSound
    <3>2. 1 \in 1..Len(p)
      BY <3>1 DEF Programs
    <3> QED
      BY <1>2, <3>1, <3>2 DEF Programs, InPlace
  <2> QED
    BY <1>1, <2>1 DEF CliSound, CliRecords
<1>5. <<>> \in Programs /\ <<>> \in Seq(CliCalls)
  BY NoCalls
<1>6. PICK call : call = Call("copy", "none", {}, IF x.opt = "daemon" THEN "go" ELSE "exit")
  OBVIOUS
<1>7. <<call>> \in Programs /\ <<call>> \in Seq(CliCalls) /\ call.kind = "copy"
  <2>1. call \in CliCalls /\ call.kind = "copy" /\ call.onfail # "restore"
    BY <1>6 DEF Call, CliCalls, Calls
  <2> QED
    BY <2>1, OneCall
<1>8. PICK up, copying :
        /\ up = [x EXCEPT !.pc = "prompt", !.todo = <<>>, !.before = <<>>, !.alone = TRUE]
        /\ copying = [x EXCEPT !.todo = <<call>>]
  OBVIOUS
<1>9. up \in CliRecords /\ up.pc = "prompt" /\ up.todo = <<>> /\ up.opt = x.opt
  BY <1>5, <1>8 DEF CliRecords
<1>10. copying \in CliRecords /\ copying.pc = "busy" /\ copying.todo = <<call>> /\ copying.opt = x.opt /\ copying.target = x.target
  BY <1>2, <1>7, <1>8 DEF CliRecords
<1>11. CliSound(up) /\ CliSound(copying)
  <2>1. Len(copying.todo) >= 1
    BY <1>10
  <2> QED
    BY <1>5, <1>7, <1>9, <1>10, <2>1 DEF CliSound
<1>12. NoCli \in CliRecords /\ CliSound(NoCli) /\ NoCli.pc = "off"
  BY <1>5 DEF NoCli, CliRecords, CliSound, DbNames
<1>13. PICK r \in {NoCli, up, copying} : cli' = [cli EXCEPT ![c] = r] /\ (r = up => db[x.target] # Missing)
  <2>1. cli' = [cli EXCEPT ![c] =
          CASE cli[c].opt # "private" /\ db["running"] = Missing -> NoCli
            [] db[cli[c].target] # Missing -> [cli[c] EXCEPT !.pc = "prompt", !.todo = <<>>, !.before = <<>>, !.alone = TRUE]
            [] OTHER -> [cli[c] EXCEPT !.todo = <<Call("copy", "none", {}, IF cli[c].opt = "daemon" THEN "go" ELSE "exit")>>]]
    BY DEF Lstat
  <2>2. CASE cli[c].opt # "private" /\ db["running"] = Missing /\ db[cli[c].target] = Missing
    <3>1. cli' = [cli EXCEPT ![c] = NoCli]
      BY <2>1, <2>2
    <3> QED
      BY <1>9, <1>12, <3>1
  <2>3. CASE ~(cli[c].opt # "private" /\ db["running"] = Missing) /\ db[cli[c].target] # Missing
    <3>1. cli' = [cli EXCEPT ![c] = up]
      BY <1>1, <1>8, <2>1, <2>3
    <3> QED
      BY <1>1, <2>3, <3>1
  <2>4. CASE ~(cli[c].opt # "private" /\ db["running"] = Missing) /\ ~(db[cli[c].target] # Missing)
    <3>1. cli' = [cli EXCEPT ![c] = copying]
      BY <1>1, <1>6, <1>8, <2>1, <2>4
    <3> QED
      BY <1>2, <1>9, <1>10, <3>1
  <2>5. CASE cli[c].opt # "private" /\ db["running"] = Missing /\ db[cli[c].target] # Missing
    <3>1. cli' = [cli EXCEPT ![c] = NoCli] \/ cli' = [cli EXCEPT ![c] = up]
      BY <1>1, <1>8, <2>1, <2>5
    <3> QED
      BY <1>1, <1>9, <1>12, <2>5, <3>1
  <2> QED
    BY <2>2, <2>3, <2>4, <2>5
<1>14. r \in CliRecords /\ CliSound(r)
  BY <1>9, <1>10, <1>11, <1>12, <1>13
<1>15. cli' \in [Clis -> CliRecords] /\ cli'[c] = r /\ \A d \in Clis \ {c} : cli'[d] = cli[d]
  BY <1>2, <1>13, <1>14
<1>16. ASSUME NEW n \in DbNames
       PROVE  /\ ~Makes(cli[c], n)
              /\ Needs(r, n) => db[n] # Missing \/ Makes(r, n)
  <2>1. ~Makes(cli[c], n)
    BY <1>1, <1>2 DEF Makes
  <2>2. CASE r = NoCli
    BY <1>12, <2>1, <2>2 DEF Needs
  <2>3. CASE r = up
    BY <1>4, <1>9, <1>13, <2>1, <2>3 DEF Needs, Own
  <2>4. CASE r = copying
    <3>1. r.todo[1] = call
      BY <1>10, <2>4
    <3> QED
      BY <1>4, <1>7, <1>10, <2>1, <2>4, <3>1 DEF Needs, Own, Makes
  <2> QED
    BY <1>13, <2>2, <2>3, <2>4
<1> QED
  BY <1>2, <1>3, <1>14, <1>15, <1>16, CliStepKeeps

\* A CLI that goes away takes nothing with it that others need, unless it was
\* killed in a command.
LEMMA GoneKeeps ==
  ASSUME CliInv, NEW c \in Clis, Killed(c) \/ Quit(c)
  PROVE  CliInv'
PROOF
<1>1. cli \in [Clis -> CliRecords] /\ db \in Dbs
  BY DEF CliInv, CliTypes
<1>2. NoCli \in CliRecords /\ CliSound(NoCli) /\ NoCli.pc = "off"
  BY NoCalls DEF NoCli, CliRecords, CliSound, DbNames
<1>3. /\ cli' = [cli EXCEPT ![c] = NoCli] /\ db' = db
  BY DEF Killed, Quit
<1>4. unlucky => unlucky'
  BY Zenon DEF Killed, Quit
<1>5. cli[c].pc = "prompt" \/ unlucky'
  BY Zenon DEF Killed, Quit
<1>6. cli' \in [Clis -> CliRecords] /\ cli'[c] = NoCli /\ \A d \in Clis \ {c} : cli'[d] = cli[d]
  BY <1>1, <1>2, <1>3
<1>7. ~unlucky' => \A n \in DbNames : ~Makes(cli[c], n) /\ ~Needs(cli'[c], n)
  BY <1>2, <1>5, <1>6 DEF Makes, Needs
<1> QED
  BY <1>1, <1>2, <1>3, <1>4, <1>6, <1>7, CliStepKeeps

\* A CLI begins: a command at its prompt, or its own start.
LEMMA BeginKeeps ==
  ASSUME CliInv, NEW c \in Clis, NEW r \in CliRecords, CliSound(r), r.pc = "busy",
         cli[c].pc \in {"off", "prompt"},
         Needs(r, Own(r)) => cli[c].pc = "prompt" /\ cli[c].opt = r.opt,
         cli' = [d \in Clis |-> IF d = c THEN r ELSE [cli[d] EXCEPT !.alone = (cli[d].pc # "busy")]],
         UNCHANGED <<db, unlucky>>
  PROVE  CliInv'
PROOF
<1>1. cli \in [Clis -> CliRecords] /\ db' \in Dbs
  BY DEF CliInv, CliTypes
<1>2. ASSUME NEW d \in Clis \ {c}
      PROVE  /\ cli'[d] \in CliRecords
             /\ cli'[d].pc = cli[d].pc /\ cli'[d].opt = cli[d].opt
             /\ cli'[d].todo = cli[d].todo /\ cli'[d].target = cli[d].target
  <2>1. cli[d] \in CliRecords
    BY <1>1
  <2>2. PICK b \in BOOLEAN : b = (cli[d].pc # "busy")
    OBVIOUS
  <2>3. cli'[d] = [cli[d] EXCEPT !.alone = b]
    BY <2>2
  <2> QED
    BY <2>1, <2>3 DEF CliRecords
<1>3. cli' \in [Clis -> CliRecords] /\ cli'[c] = r
  BY <1>2
<1>4. unlucky => unlucky'
  BY Zenon
<1>5. ASSUME NEW n \in DbNames
      PROVE  /\ ~Makes(cli[c], n)
             /\ Needs(cli'[c], n) => Needs(cli[c], n)
  BY <1>3 DEF Makes, Needs, Own
<1> QED
  BY <1>1, <1>2, <1>3, <1>4, <1>5, CliStepKeeps

LEMMA StartCliKeeps ==
  ASSUME CliInv, NEW c \in Clis, NEW opt \in CliOptions, StartCli(c, opt)
  PROVE  CliInv'
PROOF
<1>1. db \in Dbs /\ opt \in {"daemon", "direct", "private"} /\ cli[c].pc = "off"
  BY CliSessionAssumption DEF CliInv, CliTypes, StartCli
<1>2. PICK t, b : t = (IF opt = "private" THEN "private" ELSE "candidate") /\ b = (Atop(c) = {})
  OBVIOUS
<1>3. PICK r : r = [pc |-> "busy", opt |-> opt, todo |-> <<StartCall>>, target |-> t, alone |-> b, failed |-> FALSE, before |-> db]
  OBVIOUS
<1>4. StartCall \in CliCalls /\ <<StartCall>> \in Seq(CliCalls) /\ Len(<<StartCall>>) = 1 /\ <<StartCall>>[1] = StartCall
      /\ StartCall.kind = "lstat"
  <2>1. StartCall \in CliCalls /\ StartCall.kind = "lstat"
    BY DEF StartCall, Call, CliCalls, Calls
  <2> QED
    BY <2>1
<1>5. t \in DbNames /\ b \in BOOLEAN
  BY <1>2 DEF DbNames
<1>6. r \in CliRecords
  BY <1>1, <1>3, <1>4, <1>5 DEF CliRecords
<1>7. r.pc = "busy" /\ r.todo = <<StartCall>> /\ r.target = Own(r) /\ r.todo[1].kind = "lstat"
  BY <1>2, <1>3, <1>4 DEF Own
<1>8. CliSound(r) /\ ~Needs(r, Own(r))
  BY <1>4, <1>7 DEF CliSound, Needs
<1>9. cli' = [d \in Clis |-> IF d = c THEN r ELSE [cli[d] EXCEPT !.alone = (cli[d].pc # "busy")]]
  BY <1>2, <1>3 DEF StartCli, StartCall
<1>10. UNCHANGED <<db, unlucky>>
  BY DEF StartCli
<1> QED
  BY <1>1, <1>6, <1>7, <1>8, <1>9, <1>10, BeginKeeps

LEMMA CommandDoes ==
  ASSUME NEW c, NEW target, NEW program, Command(c, target, program)
  PROVE  /\ cli[c].pc = "prompt" /\ program # <<>> /\ db' = db /\ unlucky' = unlucky
         /\ \E r : /\ r = [cli[c] EXCEPT !.pc = "busy", !.todo = program, !.target = target, !.alone = (Atop(c) = {}),
                                         !.failed = FALSE, !.before = db]
                   /\ cli' = [d \in Clis |-> IF d = c THEN r ELSE [cli[d] EXCEPT !.alone = (cli[d].pc # "busy")]]
PROOF
BY Zenon DEF Command

LEMMA CommandKeeps ==
  ASSUME CliInv, NEW c \in Clis, NEW target \in DbNames, NEW program \in Programs, Command(c, target, program)
  PROVE  CliInv'
PROOF
<1>1. db \in Dbs /\ cli[c] \in CliRecords /\ cli[c].pc = "prompt"
  BY CommandDoes DEF CliInv, CliTypes
<1>2. program \in Seq(CliCalls) /\ Len(program) >= 1 /\ program # <<>>
  <2>1. program \in Seq(CliCalls) /\ program # <<>>
    BY CommandDoes DEF Programs
  <2> QED
    BY <2>1
<1>3. PICK b \in BOOLEAN : b = (Atop(c) = {})
  OBVIOUS
<1>4. PICK r : /\ r = [cli[c] EXCEPT !.pc = "busy", !.todo = program, !.target = target, !.alone = (Atop(c) = {}),
                                     !.failed = FALSE, !.before = db]
               /\ cli' = [d \in Clis |-> IF d = c THEN r ELSE [cli[d] EXCEPT !.alone = (cli[d].pc # "busy")]]
  BY Zenon DEF Command
<1>5. r \in CliRecords /\ r.pc = "busy" /\ r.todo = program /\ r.opt = cli[c].opt
  <2>1. r = [cli[c] EXCEPT !.pc = "busy", !.todo = program, !.target = target, !.alone = b, !.failed = FALSE, !.before = db]
    BY <1>3, <1>4, Zenon
  <2> QED
    BY <1>1, <1>2, <2>1 DEF CliRecords
<1>6. CliSound(r)
  BY <1>2, <1>5 DEF CliSound
<1>7. cli' = [d \in Clis |-> IF d = c THEN r ELSE [cli[d] EXCEPT !.alone = (cli[d].pc # "busy")]]
  BY <1>4
<1>8. UNCHANGED <<db, unlucky>>
  BY CommandDoes
<1> QED
  BY <1>1, <1>5, <1>6, <1>7, <1>8, BeginKeeps

\* The commands of cli_common.c are programs; those on running do not publish.
LEMMA JoinedCommands ==
  ASSUME NEW p \in Commands, NEW q \in Commands
  PROVE  p \o q \in Commands
PROOF
BY JoinedPrograms DEF Commands

LEMMA DbopCommand ==
  ASSUME NEW c, NEW op \in {"set", "del"}, NEW items \in SUBSET Items
  PROVE  Dbop(c, op, items) \in Commands
PROOF
<1>1. PICK x, y : x = Call("change", op, items, "stop") /\ y = Call("commit", op, items, "restore")
  OBVIOUS
<1>2. x \in CliCalls /\ x.kind = "change" /\ x.onfail = "stop"
  BY <1>1 DEF Call, CliCalls, Calls
<1>3. y \in CliCalls /\ y.kind = "commit" /\ y.onfail = "restore" /\ y.op = op /\ y.items = items
  BY <1>1 DEF Call, CliCalls, Calls
<1>4. <<x>> \in Commands
  BY <1>2, OneCall DEF Commands
<1>5. <<x, y>> \in Commands
  BY <1>1, <1>2, <1>3, TwoCalls DEF Commands
<1>6. <<x>> \o <<y>> = <<x, y>> /\ <<x>> \o <<>> = <<x>>
  <2>1. <<x>> \in Seq(CliCalls) /\ <<y>> \in Seq(CliCalls) /\ <<x, y>> \in Seq(CliCalls)
    BY <1>2, <1>3
  <2>2. PICK r : r = <<x>> \o <<y>>
    OBVIOUS
  <2>3. r \in Seq(CliCalls) /\ Len(r) = 2 /\ r[1] = x /\ r[2] = y
    BY <2>1, <2>2
  <2>4. Len(<<x, y>>) = 2 /\ \A i \in 1..2 : r[i] = <<x, y>>[i]
    BY <2>3
  <2>5. r = <<x, y>>
    BY <2>1, <2>3, <2>4, SeqEqual
  <2> QED
    BY <2>1, <2>2, <2>5, ConcatEmptySeq
<1>7. Dbop(c, op, items) = <<x>> \o (IF UseDaemon(c) /\ autocommit THEN <<y>> ELSE <<>>)
  BY <1>1 DEF Dbop
<1> QED
  BY <1>4, <1>5, <1>6, <1>7

LEMMA CommandsArePrograms ==
  ASSUME NEW c \in Clis
  PROVE  /\ \A i, j \in Items : Mset(c, i, j) \in Commands
         /\ \A i \in Items : DelTree(c, i) \in Commands
         /\ CliCommit \in Commands /\ CliValidate \in Commands /\ Discard \in Commands /\ SaveConfig \in Commands
         /\ \A replace \in BOOLEAN : LoadConfig(c, replace) \in Commands
         /\ DeleteAll(c) \in Commands /\ \A i \in 1..Len(DeleteAll(c)) : DeleteAll(c)[i].onfail # "restore"
PROOF
<1>1. ASSUME NEW i \in Items, NEW j \in Items PROVE Mset(c, i, j) \in Commands
  BY DbopCommand, JoinedCommands DEF Mset
<1>2. ASSUME NEW i \in Items PROVE DelTree(c, i) \in Commands
  <2>1. Below[i] \ {i} \in SUBSET Items /\ {i} \in SUBSET Items
    BY CliSessionAssumption
  <2> QED
    BY <2>1, DbopCommand, JoinedCommands DEF DelTree
<1>3. {} \in SUBSET Items /\ LoadFile \in SUBSET Items
  BY CliSessionAssumption
<1>4. CliCommit \in Commands /\ CliValidate \in Commands /\ Discard \in Commands /\ SaveConfig \in Commands
  <2>1. ASSUME NEW k \in {"commit", "validate", "copy", "save"}, NEW f \in {"stop", "go"}
        PROVE  <<Call(k, "none", {}, f)>> \in Commands
    <3>1. PICK x : x = Call(k, "none", {}, f)
      OBVIOUS
    <3>2. x \in CliCalls /\ x.kind = k /\ x.op = "none" /\ x.onfail = f
      BY <1>3, <3>1 DEF Call, CliCalls, Calls
    <3>3. x.kind \notin {"lstat", "rm", "unlink", "restore"} /\ x.onfail # "restore"
      BY <3>2
    <3>4. <<x>> \in Programs /\ Whole(<<x>>)
      BY <3>2, <3>3, OneCall
    <3> QED
      BY <3>1, <3>4 DEF Commands
  <2> QED
    BY <2>1 DEF CliCommit, CliValidate, Discard, SaveConfig
<1>5. PICK anew \in Commands : /\ anew = <<Call("unlink", "none", {}, "stop"), Call("dbinit", "none", {}, "stop")>>
                               /\ \A i \in 1..Len(anew) : anew[i].onfail # "restore"
  <2>1. PICK x, y : x = Call("unlink", "none", {}, "stop") /\ y = Call("dbinit", "none", {}, "stop")
    OBVIOUS
  <2>2. /\ x \in CliCalls /\ x.kind = "unlink" /\ x.onfail = "stop"
        /\ y \in CliCalls /\ y.kind = "dbinit" /\ y.onfail = "stop"
    BY <1>3, <2>1 DEF Call, CliCalls, Calls
  <2>3. \A i \in 1..Len(<<x, y>>) : <<x, y>>[i] \in {x, y}
    OBVIOUS
  <2> QED
    BY <2>1, <2>2, <2>3, TwoCalls DEF Commands
<1>6. PICK again \in Commands : /\ again = <<Call("rm", "none", {}, "go"), Call("initdb", "none", {}, "go")>>
                                /\ \A i \in 1..Len(again) : again[i].onfail # "restore"
  <2>1. PICK x, y : x = Call("rm", "none", {}, "go") /\ y = Call("initdb", "none", {}, "go")
    OBVIOUS
  <2>2. /\ x \in CliCalls /\ x.kind = "rm" /\ x.onfail = "go"
        /\ y \in CliCalls /\ y.kind = "initdb" /\ y.onfail = "go"
    BY <1>3, <2>1 DEF Call, CliCalls, Calls
  <2>3. \A i \in 1..Len(<<x, y>>) : <<x, y>>[i] \in {x, y}
    OBVIOUS
  <2> QED
    BY <2>1, <2>2, <2>3, TwoCalls DEF Commands
<1>7. DeleteAll(c) \in {anew, again}
  BY <1>5, <1>6 DEF DeleteAll
<1>8. ASSUME NEW replace \in BOOLEAN PROVE LoadConfig(c, replace) \in Commands
  <2>1. PICK o, x, y : /\ o = (IF replace THEN "replace" ELSE "merge")
                       /\ x = Call("load", o, LoadFile, "stop") /\ y = Call("loadxml", "none", LoadFile, "stop")
    OBVIOUS
  <2>2. /\ x \in CliCalls /\ x.kind = "load" /\ x.onfail = "stop"
        /\ y \in CliCalls /\ y.kind = "loadxml" /\ y.onfail = "stop"
    BY <1>3, <2>1 DEF Call, CliCalls, Calls
  <2>3. <<x>> \in Commands /\ <<y>> \in Commands
    BY <2>2, OneCall DEF Commands
  <2>4. <<>> \in Commands
    BY NoCalls DEF Commands
  <2>5. PICK q \in Commands : q = IF replace THEN anew ELSE <<>>
    BY <2>4
  <2>6. LoadConfig(c, replace) = IF UseDaemon(c) THEN <<x>> ELSE q \o <<y>>
    BY <1>5, <2>1, <2>5 DEF LoadConfig
  <2> QED
    BY <2>3, <2>6, JoinedCommands
<1> QED
  BY <1>1, <1>2, <1>4, <1>5, <1>6, <1>7, <1>8

LEMMA CliStart == CliSessionInit => CliInv
PROOF
<1> SUFFICES ASSUME CliSessionInit PROVE CliInv
  OBVIOUS
<1>1. db \in Dbs /\ db["running"] # Missing
  BY CliSessionAssumption DEF CliSessionInit, Dbs, DbNames
<1>2. NoCli \in CliRecords /\ CliSound(NoCli) /\ NoCli.pc = "off"
  BY NoCalls DEF NoCli, CliRecords, CliSound, DbNames
<1>3. cli \in [Clis -> CliRecords] /\ \A c \in Clis : cli[c] = NoCli
  BY <1>2 DEF CliSessionInit
<1>4. \A c \in Clis, n \in DbNames : ~Needs(cli[c], n)
  BY <1>2, <1>3 DEF Needs
<1> QED
  BY <1>1, <1>2, <1>3, <1>4 DEF CliInv, CliTypes, DbsPresent

LEMMA CliStep == CliInv /\ [CliSessionNext]_sessionVars => CliInv'
PROOF
<1> SUFFICES ASSUME CliInv, [CliSessionNext]_sessionVars PROVE CliInv'
  OBVIOUS
<1>1. CASE UNCHANGED <<db, cli, unlucky>>
  <2>1. CliTypes'
    BY <1>1 DEF CliInv, CliTypes
  <2>2. ~unlucky' => DbsPresent
    BY <1>1, Zenon DEF CliInv
  <2>3. DbsPresent => DbsPresent'
    BY <1>1 DEF DbsPresent
  <2> QED
    BY <2>1, <2>2, <2>3 DEF CliInv
<1>2. ASSUME NEW c \in Clis,
             \/ \E o \in CliOptions : StartCli(c, o)
             \/ \E op \in {"set", "del"}, i \in Items : Command(c, Candidate(c), Dbop(c, op, {i}))
             \/ \E i, j \in Items : Command(c, Candidate(c), Mset(c, i, j))
             \/ \E i \in Items : Command(c, Candidate(c), DelTree(c, i))
             \/ \E p \in {CliCommit, CliValidate, Discard, SaveConfig, LoadConfig(c, TRUE), LoadConfig(c, FALSE)} :
                  Command(c, Candidate(c), p)
             \/ \E d \in {"running", Candidate(c)} : Command(c, d, DeleteAll(c))
      PROVE  CliInv'
  <2>1. Candidate(c) \in DbNames /\ "running" \in DbNames
    BY DEF Candidate, DbNames
  <2>2. \A op \in {"set", "del"}, i \in Items : Dbop(c, op, {i}) \in Commands
    BY DbopCommand
  <2>3. CASE \E o \in CliOptions : StartCli(c, o)
    BY <2>3, StartCliKeeps
  <2>4. CASE \E d \in DbNames, p \in Programs : Command(c, d, p)
    BY <2>4, CommandKeeps
  <2> QED
    BY <1>2, <2>1, <2>2, <2>3, <2>4, CommandsArePrograms DEF Commands
<1>3. ASSUME NEW c \in Clis,
             \/ Lstat(c) \/ Change(c) \/ CommitCall(c) \/ ValidateCall(c) \/ CopyCall(c) \/ RmCall(c) \/ InitdbCall(c)
             \/ LoadCall(c) \/ SaveCall(c) \/ CallFails(c) \/ Killed(c) \/ Quit(c)
      PROVE  CliInv'
  BY <1>3, LstatKeeps, CliChangeKeeps, CommitCallKeeps, ValidateCallKeeps, CopyCallKeeps, RmCallKeeps, InitdbCallKeeps, CallFailsKeeps, GoneKeeps
<1>4. LockOther => UNCHANGED <<db, cli, unlucky>>
  BY DEF LockOther
<1> QED
  BY <1>1, <1>2, <1>3, <1>4 DEF CliSessionNext, sessionVars

\* Whatever commands the CLIs are given and however their calls come between
\* each other: unless a call was refused, a copy failed or a CLI died in a
\* command, running and the candidate of every CLI are there once nobody is
\* in the middle of a command.
THEOREM CandidatesRemade == CliSessionSpec => []DatabasesExist
PROOF
<1>1. CliInv => DatabasesExist
  <2> SUFFICES ASSUME CliInv, ~unlucky, \A c \in Clis : cli[c].pc # "busy"
               PROVE  /\ db["running"] # Missing
                      /\ \A c \in Clis : cli[c].pc = "prompt" => db[Candidate(c)] # Missing
    BY DEF DatabasesExist
  <2>1. DbsPresent
    BY Zenon DEF CliInv
  <2>2. \A c \in Clis, n \in DbNames : ~Makes(cli[c], n)
    BY DEF Makes
  <2>3. \A c \in Clis : /\ Candidate(c) \in DbNames
                        /\ cli[c].pc = "prompt" => Needs(cli[c], Candidate(c))
    BY DEF Candidate, Own, Needs, DbNames
  <2>4. "running" \in DbNames
    BY DEF DbNames
  <2> QED
    BY <2>1, <2>2, <2>3, <2>4 DEF DbsPresent
<1> QED
  BY <1>1, CliStart, CliStep, PTL DEF CliSessionSpec
------------------------------------------------------------------------------
(***************************************************************************)
(* An edit with autocommit.  As long as no other CLI does anything, the    *)
(* databases are the ones the edit began with, but for what its own calls  *)
(* have done; and it is an edit of a candidate, never of running.          *)
(***************************************************************************)
Edited(was, call) == IF call.op = "del" THEN was \ call.items ELSE was \cup call.items
Restores(x) == x.todo[1].kind = "restore" \/ \E i \in 1..Len(x.todo) : x.todo[i].onfail = "restore"

\* What running is before the copy that undoes an edit.
PutBack(x, run) == run = x.before["running"] \/ Publishes(Edited(x.before[x.target], x.todo[1]), run)

\* How far the edit under way has come.
EditStands(x) ==
  /\ x.todo[1].kind = "change" => x.before = db
  /\ x.todo[1].onfail = "restore" => /\ db[x.target] = Edited(x.before[x.target], x.todo[1])
                                     /\ db["running"] = x.before["running"]
  /\ x.todo[1].kind = "restore" /\ ~unlucky => PutBack(x, db["running"])

EditsApart ==
  \A c \in Clis : cli[c].pc = "busy" =>
    /\ ~cli[c].failed
    /\ Restores(cli[c]) => cli[c].target # "running"
    /\ cli[c].alone => (\A d \in Clis \ {c} : cli[d].pc # "busy") /\ EditStands(cli[c])
AutoInv == CliInv /\ EditsApart
\* The program of a CLI that is past its start.
LEMMA ProgramFacts ==
  ASSUME CliInv, NEW c \in Clis, cli[c].pc = "busy", cli[c].todo[1].kind # "lstat"
  PROVE  /\ cli[c].todo \in Programs /\ Len(cli[c].todo) \in Nat /\ Len(cli[c].todo) >= 1
         /\ cli[c].todo[1].onfail = "restore" <=> (cli[c].todo[1].kind = "commit" /\ cli[c].todo[1].op # "none")
PROOF
<1>1. cli[c].todo # <<StartCall>>
  BY DEF StartCall, Call
<1>2. PICK p \in Programs : p = cli[c].todo /\ Len(p) >= 1
  BY <1>1 DEF CliInv, CliTypes, CliSound
<1>3. Len(p) \in Nat
  BY DEF Programs
<1>4. InPlace(p, 1)
  BY <1>2, <1>3 DEF Programs
<1> QED
  BY <1>2, <1>3, <1>4 DEF InPlace

\* After a call: the rest of the program, or the copy that undoes the change.
LEMMA CallEdits ==
  ASSUME AutoInv, NEW c \in Clis, cli[c].pc = "busy", cli[c].todo[1].kind # "lstat", db' \in Dbs,
         NEW ok \in BOOLEAN, Next1(c, ok),
         ok /\ cli[c].todo[1].kind = "change" =>
           db' = [db EXCEPT ![cli[c].target] = Edited(db[cli[c].target], cli[c].todo[1])],
         ~ok /\ cli[c].todo[1].onfail = "restore" /\ ~unlucky' =>
           db'["running"] = db["running"] \/ Publishes(db[cli[c].target], db'["running"])
  PROVE  EditsApart'
PROOF
<1>1. CliInv /\ CliTypes /\ EditsApart
  BY DEF AutoInv, CliInv
<1>2. PICK x \in CliRecords, p \in Programs : x = cli[c] /\ p = x.todo /\ Len(p) \in Nat /\ Len(p) >= 1
  BY <1>1, ProgramFacts DEF CliTypes
<1>3. PICK y : y = cli'[c]
  OBVIOUS
<1>4. /\ \A d \in Clis \ {c} : cli'[d] = cli[d]
      /\ y.pc = "busy" => y.target = x.target
      /\ y.pc = "busy" =>
           /\ y.alone = x.alone /\ y.failed = x.failed
           /\ \/ /\ ok \/ p[1].onfail = "go"
                 /\ Len(p) >= 2 /\ y.todo = Tail(p)
                 /\ y.before = IF p[2].kind = "change" THEN db' ELSE x.before
              \/ /\ ~ok /\ p[1].onfail = "restore"
                 /\ y.todo = <<RestoreCall(p[1])>> /\ y.before = x.before
  BY <1>1, <1>2, <1>3, NextFacts
<1>5. /\ ~x.failed
      /\ Restores(x) => x.target # "running"
      /\ x.alone => (\A d \in Clis \ {c} : cli[d].pc # "busy") /\ EditStands(x)
  BY <1>1, <1>2 DEF EditsApart
<1>6. ASSUME NEW d \in Clis \ {c}, cli'[d].pc = "busy"
      PROVE  ~cli'[d].failed /\ (Restores(cli'[d]) => cli'[d].target # "running") /\ ~cli'[d].alone
  <2>1. cli'[d] = cli[d] /\ cli[d].pc = "busy"
    BY <1>4, <1>6
  <2>2. ~cli[d].failed /\ (Restores(cli[d]) => cli[d].target # "running") /\ ~cli[d].alone
    BY <1>1, <2>1 DEF EditsApart
  <2> QED
    BY <2>1, <2>2
<1>7. ASSUME y.pc = "busy", y.todo = Tail(p), Len(p) >= 2, ok \/ p[1].onfail = "go",
             y.before = IF p[2].kind = "change" THEN db' ELSE x.before
      PROVE  (Restores(y) => y.target # "running") /\ (x.alone => EditStands(y)')
  <2>0. PICK q : q = Tail(p)
    OBVIOUS
  <2>1. q = y.todo /\ Len(q) = Len(p) - 1 /\ q[1] = p[2] /\ \A i \in 1..Len(q) : q[i] = p[i + 1]
    BY <1>2, <1>7, <2>0, RestOfProgram
  <2>2. p[2].kind # "restore" /\ (p[2].onfail = "restore" => p[1] = Call("change", p[2].op, p[2].items, "stop"))
    <3>1. 2 \in 1..Len(p) /\ 2 - 1 = 1
      BY <1>2, <1>7
    <3>2. InPlace(p, 2)
      BY <3>1 DEF Programs
    <3> QED
      BY <3>1, <3>2 DEF InPlace
  <2>3. Restores(y) => Restores(x)
    <3>1. \A i \in 1..Len(q) : i + 1 \in 1..Len(p)
      BY <1>2, <2>1
    <3> QED
      BY <1>2, <2>1, <2>2, <3>1 DEF Restores
  <2>4. ASSUME p[2].onfail = "restore", x.alone
        PROVE  db'[y.target] = Edited(y.before[y.target], p[2]) /\ db'["running"] = y.before["running"]
    <3>1. p[1] = Call("change", p[2].op, p[2].items, "stop")
      BY <2>2, <2>4
    <3>2. p[1].kind = "change" /\ p[1].onfail = "stop" /\ p[1].op = p[2].op /\ p[1].items = p[2].items
      BY <3>1 DEF Call
    <3>3. ok /\ x.before = db
      BY <1>2, <1>5, <1>7, <2>4, <3>2 DEF EditStands
    <3>4. db' = [db EXCEPT ![x.target] = Edited(db[x.target], p[1])]
      BY <1>2, <3>2, <3>3
    <3>5. db \in [DbNames -> (SUBSET Items) \cup {Missing, Cut}] /\ x.target \in DbNames /\ "running" \in DbNames
      BY <1>1, <1>2 DEF CliTypes, Dbs, CliRecords, DbNames
    <3>6. x.target # "running"
      <4>1. 2 \in 1..Len(p)
        BY <1>2, <1>7
      <4> QED
        BY <1>2, <1>5, <2>4, <4>1 DEF Restores
    <3>7. p[2].kind # "change"
      <4>1. 2 \in 1..Len(p)
        BY <1>2, <1>7
      <4>2. InPlace(p, 2)
        BY <4>1 DEF Programs
      <4> QED
        BY <2>4, <4>2 DEF InPlace
    <3>8. y.before = db /\ y.target = x.target
      BY <1>4, <1>7, <3>3, <3>7
    <3>9. db'[x.target] = Edited(db[x.target], p[1]) /\ db'["running"] = db["running"]
      BY <3>4, <3>5, <3>6
    <3> QED
      BY <3>2, <3>8, <3>9 DEF Edited
  <2>5. x.alone => EditStands(y)'
    BY <1>7, <2>1, <2>2, <2>4 DEF EditStands
  <2> QED
    BY <1>4, <1>5, <1>7, <2>3, <2>5
<1>8. ASSUME y.pc = "busy", ~ok, p[1].onfail = "restore", y.todo = <<RestoreCall(p[1])>>, y.before = x.before
      PROVE  (Restores(y) => y.target # "running") /\ (x.alone => EditStands(y)')
  <2>1. /\ y.todo[1].kind = "restore" /\ y.todo[1].onfail = "stop"
        /\ y.todo[1].op = p[1].op /\ y.todo[1].items = p[1].items
    BY <1>8 DEF RestoreCall, Call
  <2>2. Restores(x) /\ y.target = x.target
    BY <1>2, <1>4, <1>8 DEF Restores
  <2>3. x.alone => db["running"] = x.before["running"] /\ db[x.target] = Edited(x.before[x.target], p[1])
    BY <1>2, <1>5, <1>8 DEF EditStands
  <2>4. x.alone /\ ~unlucky' => db'["running"] = x.before["running"] \/ Publishes(Edited(x.before[x.target], p[1]), db'["running"])
    BY <1>2, <1>8, <2>3
  <2>5. Edited(x.before[x.target], y.todo[1]) = Edited(x.before[x.target], p[1])
    BY <2>1 DEF Edited
  <2>6. x.alone /\ ~unlucky' => PutBack(y, db'["running"])
    BY <1>8, <2>2, <2>4, <2>5 DEF PutBack
  <2>7. x.alone => EditStands(y)'
    BY <2>1, <2>6 DEF EditStands, PutBack
  <2> QED
    BY <1>5, <1>8, <2>1, <2>2, <2>7
<1>9. y.pc = "busy" =>
        /\ ~y.failed
        /\ Restores(y) => y.target # "running"
        /\ y.alone => (\A d \in Clis \ {c} : cli'[d].pc # "busy") /\ EditStands(y)'
  BY <1>4, <1>5, <1>7, <1>8
<1> QED
  BY <1>3, <1>6, <1>9 DEF EditsApart

LEMMA CommitEdits ==
  ASSUME CliInv, NEW c \in Clis, CommitCall(c)
  PROVE  \E ok \in BOOLEAN :
           /\ Next1(c, ok)
           /\ ok /\ ~unlucky' => /\ db'[cli[c].target] = db'["running"]
                                 /\ Publishes(db[cli[c].target], db'["running"])
           /\ ~ok /\ ~unlucky' => db'["running"] = db["running"] \/ Publishes(db[cli[c].target], db'["running"])
PROOF
<1>1. cli[c].pc = "busy"
  BY DEF CommitCall, At
<1>2. PICK d \in DbNames : d = cli[c].target
  BY <1>1, CallFacts
<1>3. CASE Fails(c)
  <2>1. Next1(c, FALSE) /\ db' = db
    BY <1>3 DEF Fails
  <2> QED
    BY <2>1
<1>4. CASE ~Fails(c)
  <2>1. Readable(d) /\ Readable("running")
    BY <1>2, <1>4 DEF CommitCall
  <2>2. db[d] \in SUBSET Items /\ db["running"] \in SUBSET Items /\ "running" \in DbNames
    BY <1>1, <2>1, CallFacts DEF DbNames, Readable
  <2>3. PICK end \in CommitEnds(db[d], db["running"]) :
          /\ db' = [db EXCEPT ![d] = end.cand, !["running"] = end.run]
          /\ Next1(c, end.ok)
          /\ unlucky' = (unlucky \/ end.run = Cut \/ (end.ok /\ end.cand = Cut))
    BY <1>2, <2>1 DEF CommitCall
  <2>4. /\ end.ok \in BOOLEAN
        /\ end.ok /\ end.cand # Cut /\ end.run # Cut =>
              end.cand = Filled(db[d], db["running"]) /\ end.run = Filled(db[d], db["running"])
        /\ ~end.ok /\ end.run # Cut => end.run = db["running"] \/ end.run = Filled(db[d], db["running"])
    BY <2>2, CommitEndsFacts
  <2>5. Publishes(db[d], Filled(db[d], db["running"]))
    BY <2>2, FilledFacts
  <2>6. ~unlucky' => end.run # Cut /\ (end.ok => end.cand # Cut)
    BY <2>3, Zenon
  <2>7. db'["running"] = end.run /\ (d # "running" => db'[d] = end.cand)
    <3>1. db \in Dbs
      BY DEF CliInv, CliTypes
    <3> QED
      BY <2>2, <2>3, <3>1 DEF Dbs
  <2>8. /\ end.ok /\ ~unlucky' => db'[d] = db'["running"] /\ Publishes(db[d], db'["running"])
        /\ ~end.ok /\ ~unlucky' => db'["running"] = db["running"] \/ Publishes(db[d], db'["running"])
    BY <2>4, <2>5, <2>6, <2>7
  <2> QED
    BY <1>2, <2>3, <2>4, <2>8
<1> QED
  BY <1>3, <1>4

LEMMA CallStepEdits ==
  ASSUME AutoInv, CliInv', NEW c \in Clis,
         \/ Change(c) \/ CommitCall(c) \/ ValidateCall(c) \/ CopyCall(c) \/ RmCall(c) \/ InitdbCall(c)
         \/ LoadCall(c) \/ SaveCall(c) \/ CallFails(c)
  PROVE  EditsApart'
PROOF
<1>1. cli[c].pc = "busy" /\ cli[c].todo[1].kind # "lstat" /\ db' \in Dbs
  BY DEF Change, CommitCall, ValidateCall, CopyCall, RmCall, InitdbCall, LoadCall, SaveCall, CallFails, At,
         CliInv, CliTypes
<1>2. CliInv
  BY DEF AutoInv
<1>3. CASE Fails(c) \/ CallFails(c)
  <2>1. db' = db /\ Next1(c, FALSE)
    BY <1>3 DEF Fails, CallFails
  <2> QED
    BY <1>1, <2>1, CallEdits
<1>4. CASE Change(c) /\ ~Fails(c)
  <2>1. Works(c) /\ db' = [db EXCEPT ![cli[c].target] = Edited(db[cli[c].target], cli[c].todo[1])]
    BY <1>4 DEF Change, Edited
  <2>2. Next1(c, TRUE)
    BY <2>1 DEF Works
  <2> QED
    BY <1>1, <2>1, <2>2, CallEdits
<1>5. CASE CommitCall(c)
  <2>1. cli[c].todo[1].kind = "commit"
    BY <1>5 DEF CommitCall, At
  <2> QED
    BY <1>1, <1>2, <1>5, <2>1, CommitEdits, CallEdits
<1>6. CASE ~Change(c) /\ ~CommitCall(c) /\ ~CallFails(c)
  <2>1. cli[c].todo[1].kind \notin {"change", "commit"}
    BY <1>6 DEF ValidateCall, CopyCall, RmCall, InitdbCall, LoadCall, SaveCall, At
  <2>2. cli[c].todo[1].onfail # "restore"
    BY <1>1, <1>2, <2>1, ProgramFacts
  <2>3. \E ok \in BOOLEAN : Next1(c, ok)
    BY <1>6 DEF ValidateCall, CopyCall, RmCall, InitdbCall, LoadCall, SaveCall, Works, Fails
  <2> QED
    BY <1>1, <2>1, <2>2, <2>3, CallEdits
<1> QED
  BY <1>3, <1>4, <1>5, <1>6

\* A command begins with the databases as they are, and ends the time in which
\* an other was alone.
LEMMA BeginEdits ==
  ASSUME AutoInv, NEW c \in Clis, NEW r, cli[c].pc # "busy",
         cli' = [d \in Clis |-> IF d = c THEN r ELSE [cli[d] EXCEPT !.alone = (cli[d].pc # "busy")]],
         UNCHANGED db,
         r.failed = FALSE, r.before = db, r.alone = (Atop(c) = {}),
         r.todo[1].onfail # "restore", r.todo[1].kind # "restore",
         Restores(r) => r.target # "running"
  PROVE  EditsApart'
PROOF
<1>1. ASSUME NEW d \in Clis \ {c}, cli'[d].pc = "busy"
      PROVE  ~cli'[d].failed /\ (Restores(cli'[d]) => cli'[d].target # "running") /\ ~cli'[d].alone
  <2>1. cli[d] \in CliRecords
    BY DEF AutoInv, CliInv, CliTypes
  <2>2. PICK b \in BOOLEAN : b = (cli[d].pc # "busy")
    OBVIOUS
  <2>3. cli'[d] = [cli[d] EXCEPT !.alone = b]
    BY <2>2
  <2>4. /\ cli'[d].pc = cli[d].pc /\ cli'[d].failed = cli[d].failed /\ cli'[d].todo = cli[d].todo
        /\ cli'[d].target = cli[d].target /\ cli'[d].alone = b
    BY <2>1, <2>3 DEF CliRecords
  <2>5. ~cli[d].failed /\ (Restores(cli[d]) => cli[d].target # "running")
    BY <1>1, <2>4 DEF AutoInv, EditsApart
  <2> QED
    BY <1>1, <2>2, <2>4, <2>5 DEF Restores
<1>2. cli'[c] = r /\ \A d \in Clis \ {c} : cli'[d].pc = cli[d].pc
  <2>1. \A d \in Clis \ {c} : cli[d] \in CliRecords
    BY DEF AutoInv, CliInv, CliTypes
  <2> QED
    BY <2>1 DEF CliRecords
<1>3. r.alone => \A d \in Clis \ {c} : cli'[d].pc # "busy"
  BY <1>2 DEF Atop
<1>4. EditStands(r)'
  BY DEF EditStands
<1> QED
  BY <1>1, <1>2, <1>3, <1>4 DEF EditsApart

LEMMA StartCliEdits ==
  ASSUME AutoInv, NEW c \in Clis, NEW opt \in CliOptions, StartCli(c, opt)
  PROVE  EditsApart'
PROOF
<1>1. PICK t, b : t = (IF opt = "private" THEN "private" ELSE "candidate") /\ b = (Atop(c) = {})
  OBVIOUS
<1>2. PICK r : r = [pc |-> "busy", opt |-> opt, todo |-> <<StartCall>>, target |-> t, alone |-> b, failed |-> FALSE, before |-> db]
  OBVIOUS
<1>3. cli' = [d \in Clis |-> IF d = c THEN r ELSE [cli[d] EXCEPT !.alone = (cli[d].pc # "busy")]]
  BY <1>1, <1>2 DEF StartCli, StartCall
<1>4. r.failed = FALSE /\ r.before = db /\ r.alone = b /\ r.todo = <<StartCall>> /\ r.target = t
  BY <1>2
<1>5. r.todo[1].onfail = "stop" /\ r.todo[1].kind = "lstat" /\ t # "running"
  BY <1>1, <1>4 DEF StartCall, Call
<1>6. cli[c].pc # "busy" /\ UNCHANGED db
  BY DEF StartCli
<1> QED
  BY <1>1, <1>3, <1>4, <1>5, <1>6, BeginEdits

LEMMA CommandEdits ==
  ASSUME AutoInv, NEW c \in Clis, NEW target \in DbNames, NEW program \in Commands, Command(c, target, program),
         target # "running" \/ \A i \in 1..Len(program) : program[i].onfail # "restore"
  PROVE  EditsApart'
PROOF
<1>1. cli[c] \in CliRecords /\ cli[c].pc = "prompt" /\ UNCHANGED db
  BY CommandDoes DEF AutoInv, CliInv, CliTypes
<1>2. program[1].onfail # "restore" /\ program[1].kind # "restore"
  <2>1. program \in Seq(CliCalls) /\ program # <<>> /\ Whole(program)
    BY CommandDoes DEF Commands, Programs
  <2>2. Len(program) >= 1
    BY <2>1
  <2> QED
    BY <2>1, <2>2 DEF Whole
<1>3. PICK b : b = (Atop(c) = {})
  OBVIOUS
<1>4. PICK r : /\ r = [cli[c] EXCEPT !.pc = "busy", !.todo = program, !.target = target, !.alone = (Atop(c) = {}),
                                     !.failed = FALSE, !.before = db]
               /\ cli' = [d \in Clis |-> IF d = c THEN r ELSE [cli[d] EXCEPT !.alone = (cli[d].pc # "busy")]]
  BY Zenon DEF Command
<1>5. r.failed = FALSE /\ r.before = db /\ r.alone = b /\ r.todo = program /\ r.target = target
  <2>1. r = [cli[c] EXCEPT !.pc = "busy", !.todo = program, !.target = target, !.alone = b, !.failed = FALSE, !.before = db]
    BY <1>3, <1>4, Zenon
  <2> QED
    BY <1>1, <2>1 DEF CliRecords
<1>6. cli' = [d \in Clis |-> IF d = c THEN r ELSE [cli[d] EXCEPT !.alone = (cli[d].pc # "busy")]]
  BY <1>4
<1>7. Restores(r) => r.target # "running"
  BY <1>2, <1>5 DEF Restores
<1> QED
  BY <1>1, <1>2, <1>3, <1>5, <1>6, <1>7, BeginEdits

\* A start goes on with a copy; a CLI that ends is not in a command any more.
LEMMA OtherEdits ==
  ASSUME AutoInv, NEW c \in Clis, Lstat(c) \/ Killed(c) \/ Quit(c)
  PROVE  EditsApart'
PROOF
<1>1. cli \in [Clis -> CliRecords] /\ EditsApart /\ db' = db
  BY DEF AutoInv, CliInv, CliTypes, Lstat, Killed, Quit
<1>2. PICK r : cli' = [cli EXCEPT ![c] = r] /\ (r.pc = "busy" =>
                 /\ cli[c].pc = "busy" /\ r.failed = cli[c].failed /\ r.alone = cli[c].alone
                 /\ r.todo[1].kind = "copy" /\ r.todo[1].onfail # "restore" /\ Len(r.todo) = 1)
  <2>1. NoCli.pc = "off"
    BY DEF NoCli
  <2>2. CASE Killed(c) \/ Quit(c)
    <3>1. cli' = [cli EXCEPT ![c] = NoCli]
      BY <2>2 DEF Killed, Quit
    <3> QED
      BY <2>1, <3>1
  <2>3. CASE Lstat(c)
    <3>1. PICK call : call = Call("copy", "none", {}, IF cli[c].opt = "daemon" THEN "go" ELSE "exit")
      OBVIOUS
    <3>2. PICK up, copying :
            /\ up = [cli[c] EXCEPT !.pc = "prompt", !.todo = <<>>, !.before = <<>>, !.alone = TRUE]
            /\ copying = [cli[c] EXCEPT !.todo = <<call>>]
      OBVIOUS
    <3>3. cli' = [cli EXCEPT ![c] =
            CASE cli[c].opt # "private" /\ db["running"] = Missing -> NoCli
              [] db[cli[c].target] # Missing -> up
              [] OTHER -> copying]
      BY <3>1, <3>2, <2>3 DEF Lstat
    <3>4. up.pc = "prompt"
      BY <1>1, <3>2 DEF CliRecords
    <3>5. /\ copying.pc = "busy" => cli[c].pc = "busy"
          /\ copying.failed = cli[c].failed /\ copying.alone = cli[c].alone /\ copying.todo = <<call>>
      BY <1>1, <3>2 DEF CliRecords
    <3>6. call.kind = "copy" /\ call.onfail # "restore"
      BY <3>1 DEF Call
    <3>7. copying.todo[1] = call /\ Len(copying.todo) = 1
      BY <3>5
    <3>8. cli' = [cli EXCEPT ![c] = NoCli] \/ cli' = [cli EXCEPT ![c] = up] \/ cli' = [cli EXCEPT ![c] = copying]
      <4>1. CASE cli[c].opt # "private" /\ db["running"] = Missing /\ db[cli[c].target] # Missing
        BY <3>3, <4>1
      <4>2. CASE cli[c].opt # "private" /\ db["running"] = Missing /\ ~(db[cli[c].target] # Missing)
        BY <3>3, <4>2
      <4>3. CASE ~(cli[c].opt # "private" /\ db["running"] = Missing)
        BY <3>3, <4>3
      <4> QED
        BY <4>1, <4>2, <4>3
    <3> QED
      BY <2>1, <3>4, <3>5, <3>6, <3>7, <3>8
  <2> QED
    BY <2>2, <2>3
<1>3. cli'[c] = r /\ \A d \in Clis \ {c} : cli'[d] = cli[d]
  BY <1>1, <1>2
<1>4. ASSUME NEW d \in Clis \ {c}, cli'[d].pc = "busy"
      PROVE  /\ ~cli'[d].failed /\ (Restores(cli'[d]) => cli'[d].target # "running")
             /\ cli'[d].alone => (\A e \in Clis \ {d} : cli'[e].pc # "busy") /\ EditStands(cli[d])'
  <2>1. cli'[d] = cli[d]
    BY <1>3
  <2>2. /\ ~cli[d].failed /\ (Restores(cli[d]) => cli[d].target # "running")
        /\ cli[d].alone => (\A e \in Clis \ {d} : cli[e].pc # "busy") /\ EditStands(cli[d])
    BY <1>1, <1>4, <2>1 DEF EditsApart
  <2>3. EditStands(cli[d]) => EditStands(cli[d])'
    <3>1. ~unlucky' => ~unlucky
      BY Zenon DEF Lstat, Killed, Quit
    <3> QED
      BY <1>1, <2>1, <3>1 DEF EditStands, PutBack
  <2>4. ASSUME NEW e \in Clis \ {d}, cli'[e].pc = "busy" PROVE cli[e].pc = "busy"
    BY <1>2, <1>3, <2>4
  <2> QED
    BY <2>1, <2>2, <2>3, <2>4
<1>5. ASSUME r.pc = "busy"
      PROVE  /\ ~r.failed /\ ~Restores(r)
             /\ r.alone => (\A d \in Clis \ {c} : cli'[d].pc # "busy") /\ EditStands(r)'
  <2>1. /\ ~cli[c].failed
        /\ cli[c].alone => \A d \in Clis \ {c} : cli[d].pc # "busy"
    BY <1>1, <1>2, <1>5 DEF EditsApart
  <2>2. \A i \in 1..Len(r.todo) : i = 1
    <3>1. Len(r.todo) = 1
      BY <1>2, <1>5, Zenon
    <3>2. \A i \in 1..1 : i = 1
      OBVIOUS
    <3> QED
      BY <3>1, <3>2
  <2>3. ~Restores(r)
    BY <1>2, <1>5, <2>2 DEF Restores
  <2>4. EditStands(r)'
    BY <1>2, <1>5 DEF EditStands
  <2> QED
    BY <1>2, <1>3, <1>5, <2>1, <2>3, <2>4
<1> QED
  BY <1>3, <1>4, <1>5 DEF EditsApart

LEMMA AutoStep == AutoInv /\ [CliSessionNext]_sessionVars => AutoInv'
PROOF
<1> SUFFICES ASSUME AutoInv, [CliSessionNext]_sessionVars PROVE AutoInv'
  OBVIOUS
<1>0. CliInv'
  BY CliStep DEF AutoInv
<1>1. CASE UNCHANGED <<db, cli, unlucky>>
  <2>1. ASSUME NEW c \in Clis, EditStands(cli[c]) PROVE EditStands(cli[c])'
    BY <1>1, <2>1 DEF EditStands, PutBack
  <2>2. ASSUME NEW c \in Clis PROVE Restores(cli[c])' <=> Restores(cli[c])
    BY <1>1 DEF Restores
  <2>3. EditsApart'
    BY <1>1, <2>1, <2>2 DEF AutoInv, EditsApart
  <2> QED
    BY <1>0, <2>3 DEF AutoInv
<1>2. ASSUME NEW c \in Clis,
             \/ \E o \in CliOptions : StartCli(c, o)
             \/ \E op \in {"set", "del"}, i \in Items : Command(c, Candidate(c), Dbop(c, op, {i}))
             \/ \E i, j \in Items : Command(c, Candidate(c), Mset(c, i, j))
             \/ \E i \in Items : Command(c, Candidate(c), DelTree(c, i))
             \/ \E p \in {CliCommit, CliValidate, Discard, SaveConfig, LoadConfig(c, TRUE), LoadConfig(c, FALSE)} :
                  Command(c, Candidate(c), p)
             \/ \E d \in {"running", Candidate(c)} : Command(c, d, DeleteAll(c))
      PROVE  EditsApart'
  <2>1. Candidate(c) \in DbNames /\ "running" \in DbNames /\ Candidate(c) # "running"
    BY DEF Candidate, DbNames
  <2>2. \A op \in {"set", "del"}, i \in Items : Dbop(c, op, {i}) \in Commands
    BY DbopCommand
  <2>3. CASE \E o \in CliOptions : StartCli(c, o)
    BY <2>3, StartCliEdits
  <2>4. CASE \E p \in Commands : Command(c, Candidate(c), p)
    BY <2>1, <2>4, CommandEdits
  <2>5. CASE Command(c, "running", DeleteAll(c))
    BY <2>1, <2>5, CommandEdits, CommandsArePrograms
  <2> QED
    BY <1>2, <2>2, <2>3, <2>4, <2>5, CommandsArePrograms
<1>3. ASSUME NEW c \in Clis,
             \/ Lstat(c) \/ Change(c) \/ CommitCall(c) \/ ValidateCall(c) \/ CopyCall(c) \/ RmCall(c) \/ InitdbCall(c)
             \/ LoadCall(c) \/ SaveCall(c) \/ CallFails(c) \/ Killed(c) \/ Quit(c)
      PROVE  EditsApart'
  BY <1>0, <1>3, CallStepEdits, OtherEdits
<1>4. LockOther => UNCHANGED <<db, cli, unlucky>>
  BY DEF LockOther
<1> QED
  BY <1>0, <1>1, <1>2, <1>3, <1>4 DEF AutoInv, CliSessionNext, sessionVars

\* Only the CLI that acts goes on with its program; and a CLI that is alone is
\* the only one that can make a call.
LEMMA AloneActs ==
  ASSUME AutoInv, [CliSessionNext]_sessionVars, NEW c \in Clis, cli[c].alone, cli[c].pc = "busy", ~unlucky',
         cli'[c].todo # cli[c].todo
  PROVE  \/ Lstat(c) \/ Change(c) \/ CommitCall(c) \/ ValidateCall(c) \/ CopyCall(c) \/ RmCall(c)
         \/ InitdbCall(c) \/ LoadCall(c) \/ SaveCall(c)
PROOF
<1>1. cli \in [Clis -> CliRecords] /\ \A d \in Clis \ {c} : cli[d].pc # "busy"
  BY DEF AutoInv, CliInv, CliTypes, EditsApart
<1>2. ASSUME NEW d \in Clis, \/ \E o \in CliOptions : StartCli(d, o)
                             \/ \E n, p : Command(d, n, p)
      PROVE  FALSE
  <2>1. cli[d].pc # "busy"
    BY <1>2, CommandDoes DEF StartCli
  <2>2. cli'[c] = [cli[c] EXCEPT !.alone = (cli[c].pc # "busy")]
    <3>1. CASE \E n, p : Command(d, n, p)
      BY <2>1, <3>1, CommandDoes
    <3>2. CASE \E o \in CliOptions : StartCli(d, o)
      BY <2>1, <3>2 DEF StartCli
    <3> QED
      BY <1>2, <3>1, <3>2
  <2>3. cli'[c].todo = cli[c].todo
    BY <1>1, <2>2 DEF CliRecords
  <2> QED
    BY <2>3
<1>3. PICK d \in Clis : \/ Lstat(d) \/ Change(d) \/ CommitCall(d) \/ ValidateCall(d) \/ CopyCall(d) \/ RmCall(d)
                        \/ InitdbCall(d) \/ LoadCall(d) \/ SaveCall(d) \/ CallFails(d) \/ Killed(d) \/ Quit(d)
  BY <1>2 DEF CliSessionNext, sessionVars, LockOther
<1>4. ~CallFails(d) /\ ~Killed(d)
  BY Zenon DEF CallFails, Killed
<1>5. ~Quit(d)
  <2>1. Quit(d) => cli'[c] = cli[c] \/ d = c
    BY <1>1 DEF Quit
  <2> QED
    BY <2>1 DEF Quit
<1>6. cli[d].pc = "busy"
  BY <1>3, <1>4, <1>5 DEF Lstat, Change, CommitCall, ValidateCall, CopyCall, RmCall, InitdbCall, LoadCall, SaveCall, At
<1> QED
  BY <1>1, <1>3, <1>4, <1>5, <1>6

\* A commit publishes the edited candidate; when the copy that undoes an edit
\* succeeds, candidate is running, which is what it was or the edit.
LEMMA AutoPublishes ==
  ASSUME AutoInv, [CliSessionNext]_sessionVars, NEW c \in Clis, cli[c].alone, cli[c].pc = "busy", ~unlucky',
         cli'[c].todo # cli[c].todo, cli[c].todo[1].kind = "commit", cli[c].todo[1].op # "none",
         IF cli'[c].pc = "prompt" THEN ~cli'[c].failed ELSE cli'[c].todo[1].kind # "restore"
  PROVE  /\ db'[cli[c].target] = db'["running"]
         /\ Publishes(Edited(cli[c].before[cli[c].target], cli[c].todo[1]), db'[cli[c].target])
PROOF
<1>1. CliInv /\ CliTypes /\ cli[c] \in CliRecords
  BY DEF AutoInv, CliInv, CliTypes
<1>2. cli[c].todo[1].onfail = "restore"
  BY <1>1, ProgramFacts
<1>3. db[cli[c].target] = Edited(cli[c].before[cli[c].target], cli[c].todo[1])
  BY <1>2 DEF AutoInv, EditsApart, EditStands
<1>4. CommitCall(c)
  <2>1. \/ Lstat(c) \/ Change(c) \/ CommitCall(c) \/ ValidateCall(c) \/ CopyCall(c) \/ RmCall(c)
        \/ InitdbCall(c) \/ LoadCall(c) \/ SaveCall(c)
    BY AloneActs
  <2> QED
    BY <2>1, Zenon DEF Lstat, Change, ValidateCall, CopyCall, RmCall, InitdbCall, LoadCall, SaveCall, At
<1>5. PICK ok \in BOOLEAN :
        /\ Next1(c, ok)
        /\ ok /\ ~unlucky' => /\ db'[cli[c].target] = db'["running"]
                              /\ Publishes(db[cli[c].target], db'["running"])
  BY <1>1, <1>4, CommitEdits
<1>6. db' \in Dbs
  BY CliStep DEF AutoInv, CliInv, CliTypes
<1>7. ok
  <2> SUFFICES ASSUME ~ok PROVE FALSE
    OBVIOUS
  <2>1. cli'[c].pc = "busy" /\ cli'[c].todo = <<RestoreCall(cli[c].todo[1])>>
    BY <1>1, <1>2, <1>5, <1>6, NextFacts
  <2>2. cli'[c].todo[1].kind = "restore"
    BY <2>1 DEF RestoreCall, Call
  <2> QED
    BY <2>1, <2>2
<1> QED
  BY <1>3, <1>5, <1>7

LEMMA AutoRestores ==
  ASSUME AutoInv, [CliSessionNext]_sessionVars, NEW c \in Clis, cli[c].alone, cli[c].pc = "busy", ~unlucky',
         cli'[c].todo # cli[c].todo,
         \/ cli[c].todo[1].kind = "commit" /\ cli[c].todo[1].op # "none"
         \/ cli[c].todo[1].kind = "restore",
         cli'[c].pc = "prompt", cli'[c].failed
  PROVE  db'[cli[c].target] = db'["running"] /\ PutBack(cli[c], db'["running"])
PROOF
<1>1. CliInv /\ CliTypes /\ db \in Dbs /\ cli \in [Clis -> CliRecords] /\ cli[c] \in CliRecords
  BY DEF AutoInv, CliInv, CliTypes
<1>2. /\ ~cli[c].failed /\ \A d \in Clis \ {c} : cli[d].pc # "busy"
      /\ cli[c].todo[1].kind = "restore" => cli[c].target # "running" /\ (~unlucky => PutBack(cli[c], db["running"]))
  BY DEF AutoInv, EditsApart, EditStands, Restores
<1>3. db' \in Dbs
  BY CliStep DEF AutoInv, CliInv, CliTypes
<1>4. CommitCall(c) \/ CopyCall(c)
  <2>1. \/ Lstat(c) \/ Change(c) \/ CommitCall(c) \/ ValidateCall(c) \/ CopyCall(c) \/ RmCall(c)
        \/ InitdbCall(c) \/ LoadCall(c) \/ SaveCall(c)
    BY AloneActs
  <2> QED
    BY <2>1, Zenon DEF Lstat, Change, ValidateCall, RmCall, InitdbCall, LoadCall, SaveCall, At
<1>5. cli[c].todo[1].kind = "restore"
  <2> SUFFICES ASSUME cli[c].todo[1].kind # "restore" PROVE FALSE
    OBVIOUS
  <2>1. cli[c].todo[1].onfail = "restore"
    BY <1>1, ProgramFacts
  <2>2. CommitCall(c)
    BY <1>4 DEF CopyCall, At
  <2>3. PICK ok \in BOOLEAN : Next1(c, ok)
    BY <1>1, <2>2, CommitEdits
  <2> QED
    BY <1>1, <1>2, <1>3, <2>1, <2>3, NextFacts
<1>6. CopyCall(c)
  BY <1>4, <1>5, Zenon DEF CommitCall, At
<1>7. ~unlucky
  BY <1>6, Zenon DEF CopyCall, Works, Fails
<1>8. db["running"] # Missing
  <2>1. DbsPresent
    BY <1>1, <1>7, Zenon DEF CliInv
  <2>2. \A e \in Clis : ~Makes(cli[e], "running")
    BY <1>2, <1>5 DEF Makes
  <2> QED
    BY <2>1, <2>2 DEF DbsPresent, DbNames
<1>9. Unlocked(c)
  BY <1>6, Zenon DEF CopyCall, Works, Fails
<1>10. db' = [db EXCEPT ![cli[c].target] = db["running"]]
  <2>1. ~(unlucky' = TRUE)
    BY Zenon
  <2> QED
    BY <1>6, <1>8, <1>9, <2>1 DEF CopyCall
<1>11. cli[c].target \in DbNames /\ "running" \in DbNames
  BY <1>1 DEF CliRecords, DbNames
<1>12. db'[cli[c].target] = db["running"] /\ db'["running"] = db["running"]
  BY <1>1, <1>2, <1>5, <1>10, <1>11 DEF Dbs
<1> QED
  BY <1>2, <1>5, <1>7, <1>12

\* With autocommit, an edit that no other CLI came between and no call of which
\* was refused is published whole, or candidate becomes running again, which is
\* as before the edit or, when the commit failed after its last write, has it:
\* whatever the edit, its command and the others before and after.
THEOREM EditsAllOrNothing == CliSessionSpec => AutocommitAtomic
PROOF
<1>1. CliSessionInit => AutoInv
  <2>1. CliSessionInit => \A c \in Clis : cli[c].pc # "busy"
    BY DEF CliSessionInit, NoCli
  <2> QED
    BY <2>1, CliStart DEF AutoInv, EditsApart
<1>2. AutoInv /\ [CliSessionNext]_sessionVars =>
        [\A c \in Clis :
           LET call == cli[c].todo[1]
               d == cli[c].target
               was == cli[c].before[d]
               edited == IF call.op = "del" THEN was \ call.items ELSE was \cup call.items
               alone == autocommit /\ UseDaemon(c) /\ cli[c].alone /\ ~unlucky'
               moves == cli[c].pc = "busy" /\ cli'[c].todo # cli[c].todo /\ call.op # "none"
               ends == cli'[c].pc = "prompt"
               went == IF ends THEN ~cli'[c].failed ELSE cli'[c].todo[1].kind # "restore"
           IN alone /\ moves =>
              /\ call.kind = "commit" /\ went =>
                   db'[d] = db'["running"] /\ Publishes(edited, db'[d])
              /\ call.kind \in {"commit", "restore"} /\ ends /\ cli'[c].failed =>
                   /\ db'[d] = db'["running"]
                   /\ db'["running"] = cli[c].before["running"] \/ Publishes(edited, db'["running"])]_sessionVars
  BY AutoPublishes, AutoRestores DEF Edited, PutBack
<1> QED
  BY <1>1, <1>2, AutoStep, PTL DEF CliSessionSpec, AutocommitAtomic
===============================================================================

------------------------------ MODULE Framing ------------------------------
(***************************************************************************)
(* The framing of NETCONF over SSH, base:1.0 and base:1.1 (ses.c,          *)
(* ses_msg.c): one direction of one session, from the peer's messages to   *)
(* what the XML reader gets to see.                                        *)
(*                                                                         *)
(* The stream has no boundaries: a read returns any number of bytes up to  *)
(* the size of the read buffer, and the bytes of a message go to a queue   *)
(* of buffers of fixed size.  The first message, the <hello>, is framed by *)
(* base:1.0; when it is dispatched the session switches to what the hellos *)
(* agree on.                                                               *)
(*                                                                         *)
(* A message that cannot be parsed is delivered like the others: what the  *)
(* dispatcher makes of it is left out.  So is the <ncx-connect> before the *)
(* <hello>, the limit on buffers, and a byte 0 at the end of a read.       *)
(***************************************************************************)
EXTENDS Integers, Sequences, SequencesExt

CONSTANTS
    Messages,       \* the messages that the peer may send
    Hello,          \* one of them
    BuffSize,       \* SES_MSG_BUFFSIZE
    ReadSize,       \* SES_READBUFF_SIZE
    StartPad,       \* SES_STARTCHUNK_PAD
    EndPad,         \* SES_ENDCHUNK_PAD
    MaxStartChunk,  \* SES_MAX_STARTCHUNK_SIZE
    MaxChunk,       \* the largest chunk size: that of NCX_BT_UINT32
    ChunkSizes,     \* the chunk sizes of other implementations
    Pipelined,      \* whether peers send a request right after their <hello>
    MaxSent,        \* bound: the messages of a session
    Garbage         \* what lies behind the end of a buffer

Digits == <<"0", "1", "2", "3", "4", "5", "6", "7", "8", "9">>
Byte == {"x", "LF", "#", "]", ">"} \cup ToSet(Digits)

NC_SSH_END == <<"]", "]", ">", "]", "]", ">">>
NC_SSH_END_CHUNKS == <<"LF", "#", "#", "LF">>

(* A number in decimal, without a zero in front                            *)
Numeral(n) ==
    LET digits[k \in Nat] == IF k < 10 THEN <<Digits[k + 1]>>
                             ELSE Append(digits[k \div 10], Digits[(k % 10) + 1])
    IN  digits[n]

ASSUME SizeAssumption ==
    /\ BuffSize \in Nat /\ Len(NC_SSH_END) < BuffSize
    /\ ReadSize \in 1..(BuffSize - 1)
    /\ StartPad \in Nat /\ EndPad = Len(NC_SSH_END_CHUNKS)
    /\ MaxStartChunk \in Nat /\ Len(NC_SSH_END) <= MaxStartChunk
    /\ MaxChunk \in Nat
    /\ \A n \in 1..MaxChunk : Len(Numeral(n)) + 2 < MaxStartChunk
    /\ ChunkSizes \subseteq 1..MaxChunk
    /\ BuffSize - EndPad - StartPad \in 1..MaxChunk
    /\ Pipelined \in BOOLEAN
    /\ MaxSent \in Nat

(* Messages are XML: they end with ">", but not with the end of a CDATA    *)
(* section, and do not contain the end mark.                               *)
ASSUME MessageAssumption ==
    /\ Hello \in Messages
    /\ \A m \in Messages :
          /\ m \in Seq(Byte) /\ Len(m) > 2
          /\ m[Len(m)] = ">"
          /\ SubSeq(m, Len(m) - 2, Len(m)) # <<"]", "]", ">">>
          /\ \A i \in 1..(Len(m) - 5) : SubSeq(m, i, i + 5) # NC_SSH_END

VARIABLES
    agreed,     \* the version that the hellos agree on
    sent,       \* what the peer has sent
    net,        \* the bytes on their way
    scb,        \* the session: how far it is with the next message
    msgQ,       \* its messages that are ready
    delivered   \* what the XML reader saw of the messages before

vars == <<agreed, sent, net, scb, msgQ, delivered>>

Session ==
    [protocol : {"1.0", "1.1"},
     instate : {"idle", "instart", "inmsg", "inbetween", "inend"},
     inendpos : 0..MaxStartChunk,
     startchunk : Seq(ToSet(Digits)),
     chunkleft : Nat,          \* expchunksize - curchunksize
     buffQ : Seq(Seq(Byte)),   \* the buffers of the message
     failed : BOOLEAN]         \* closed for a framing error

Init ==
    /\ agreed \in {"1.0", "1.1"}
    /\ sent = <<>>
    /\ net = <<>>
    /\ scb = [protocol |-> "1.0", instate |-> "idle", inendpos |-> 0,
              startchunk |-> <<>>, chunkleft |-> 0, buffQ |-> <<>>,
              failed |-> FALSE]
    /\ msgQ = <<>>
    /\ delivered = <<>>

-----------------------------------------------------------------------------
(* The sender.                                                             *)

DigitValue(d) == (CHOOSE i \in 1..10 : Digits[i] = d) - 1

Number(digits) ==
    LET n[i \in 0..Len(digits)] ==
            IF i = 0 THEN 0 ELSE 10 * n[i - 1] + DigitValue(digits[i])
    IN  n[Len(digits)]

Chunk(data) == <<"LF", "#">> \o Numeral(Len(data)) \o <<"LF">> \o data

(* A message as chunks of a size, the last one with what is left.          *)
Chunks(m, size) ==
    LET last == (Len(m) - 1) \div size
        end(i) == IF i = last THEN Len(m) ELSE (i + 1) * size
        chunk == [i \in 1..(last + 1) |-> Chunk(SubSeq(m, (i - 1) * size + 1, end(i - 1)))]
    IN  FlattenSeq(chunk) \o NC_SSH_END_CHUNKS

(* The room for data in an output buffer of base:1.1 (ses_msg_write_buff): *)
(* each buffer is sent as one chunk.                                       *)
OwnChunkSize == BuffSize - EndPad - StartPad

Transmit(m, bytes) ==
    /\ sent' = Append(sent, m)
    /\ net' = net \o bytes
    /\ UNCHANGED <<agreed, scb, msgQ, delivered>>

SendEOM(m) ==
    /\ Len(sent) < MaxSent
    /\ IF sent = <<>> THEN m = Hello ELSE agreed = "1.0"
    /\ Transmit(m, m \o NC_SSH_END)

SendChunks(m, size) ==
    /\ Len(sent) < MaxSent
    /\ sent # <<>> /\ agreed = "1.1"
    /\ Pipelined \/ scb.protocol = "1.1"
    /\ Transmit(m, Chunks(m, size))

-----------------------------------------------------------------------------
(* The receiver, byte by byte.                                             *)

Unbounded(buffQ) ==   \* mutant: a full buffer is written on
    IF buffQ = <<>> THEN << <<>> >> ELSE buffQ

(* Every byte, also one of the framing, first makes sure of a buffer with  *)
(* room.                                                                   *)
Room(buffQ) ==
    IF buffQ = <<>> \/ Len(Last(buffQ)) = BuffSize
    THEN Append(buffQ, <<>>) ELSE buffQ

Stored(buffQ, ch) == Append(Front(buffQ), Append(Last(buffQ), ch))

Continue(s) == [scb |-> s, ready |-> <<>>]

(* The message is ready: its last buffer is said to hold bufflen bytes.    *)
Finish(s, buffers, len) ==
    [scb |-> [s EXCEPT !.instate = "idle", !.inendpos = 0, !.buffQ = <<>>],
     ready |-> << [buffQ |-> buffers, bufflen |-> len] >>]

EndShown(s, ch) ==   \* mutant: the last byte of the end mark stays
    LET buffers == Stored(Room(s.buffQ), ch)
        t == [s EXCEPT !.buffQ = buffers]
    IN  CASE s.instate = "inend" /\ ch = NC_SSH_END[s.inendpos + 1] ->
                IF s.inendpos + 1 = Len(NC_SSH_END)
                THEN Finish(t, buffers, Len(Last(buffers)) - Len(NC_SSH_END) + 1)
                ELSE Continue([t EXCEPT !.inendpos = @ + 1])
          [] s.instate # "inend" /\ ch = NC_SSH_END[1] ->
                Continue([t EXCEPT !.instate = "inend", !.inendpos = 1])
          [] OTHER -> Continue([t EXCEPT !.instate = "inmsg", !.inendpos = 0])

MatchKept(s, ch) ==   \* mutant: a byte that does not match is passed over
    LET buffers == Stored(Room(s.buffQ), ch)
        t == [s EXCEPT !.buffQ = buffers]
    IN  CASE s.instate = "inend" /\ ch = NC_SSH_END[s.inendpos + 1] ->
                IF s.inendpos + 1 = Len(NC_SSH_END)
                THEN Finish(t, buffers, Len(Last(buffers)) - Len(NC_SSH_END))
                ELSE Continue([t EXCEPT !.inendpos = @ + 1])
          [] s.instate # "inend" /\ ch = NC_SSH_END[1] ->
                Continue([t EXCEPT !.instate = "inend", !.inendpos = 1])
          [] OTHER -> Continue(t)

(* The end mark is stored with the message and cut off the last buffer.    *)
accept_buffer_ssh_v10(s, ch) ==
    LET buffers == Stored(Room(s.buffQ), ch)
        t == [s EXCEPT !.buffQ = buffers]
    IN  CASE s.instate = "inend" /\ ch = NC_SSH_END[s.inendpos + 1] ->
                IF s.inendpos + 1 = Len(NC_SSH_END)
                THEN Finish(t, buffers, Len(Last(buffers)) - Len(NC_SSH_END))
                ELSE Continue([t EXCEPT !.inendpos = @ + 1])
          [] s.instate # "inend" /\ ch = NC_SSH_END[1] ->
                Continue([t EXCEPT !.instate = "inend", !.inendpos = 1])
          [] OTHER -> Continue([t EXCEPT !.instate = "inmsg", !.inendpos = 0])

IsDigit(ch) == ch \in ToSet(Digits)
IsDigit1(ch) == IsDigit(ch) /\ ch # "0"

Fail(s) == Continue([s EXCEPT !.failed = TRUE])
Step(s) == Continue([s EXCEPT !.inendpos = @ + 1])

(* A chunk that is complete, or a byte of it.                              *)
InChunk(s, ch) ==
    LET t == IF s.chunkleft = 0 THEN s
             ELSE [s EXCEPT !.buffQ = Stored(@, ch), !.chunkleft = @ - 1]
    IN  Continue(IF t.chunkleft = 0
                 THEN [t EXCEPT !.instate = "inbetween", !.inendpos = 0]
                 ELSE t)

InStart(s, ch) ==
    CASE s.inendpos = 1 -> IF ch = "#" THEN Step(s) ELSE Fail(s)
      [] s.inendpos = 2 -> IF IsDigit1(ch)
                           THEN Step([s EXCEPT !.startchunk = <<ch>>])
                           ELSE Fail(s)
      [] s.inendpos = MaxStartChunk -> Fail(s)
      [] OTHER ->
            IF ch = "LF"
            THEN IF Number(s.startchunk) > MaxChunk THEN Fail(s)
                 ELSE Continue([s EXCEPT !.instate = "inmsg", !.inendpos = 0,
                                         !.chunkleft = Number(s.startchunk)])
            ELSE IF IsDigit(ch)
            THEN Step([s EXCEPT !.startchunk = Append(@, ch)])
            ELSE Fail(s)

DigitLost(s, ch) ==   \* mutant: the digit that starts a chunk is not read again
    CASE s.inendpos = 0 -> IF ch = "LF" THEN Step(s) ELSE Fail(s)
      [] s.inendpos = 1 -> IF ch = "#" THEN Step(s) ELSE Fail(s)
      [] OTHER ->
            IF ch = "#" THEN Step([s EXCEPT !.instate = "inend"])
            ELSE IF IsDigit1(ch) THEN Continue([s EXCEPT !.instate = "instart"])
            ELSE Fail(s)

(* The first digit of the next chunk is read again as its start.           *)
InBetween(s, ch) ==
    CASE s.inendpos = 0 -> IF ch = "LF" THEN Step(s) ELSE Fail(s)
      [] s.inendpos = 1 -> IF ch = "#" THEN Step(s) ELSE Fail(s)
      [] OTHER ->
            IF ch = "#" THEN Step([s EXCEPT !.instate = "inend"])
            ELSE IF IsDigit1(ch) THEN InStart([s EXCEPT !.instate = "instart"], ch)
            ELSE Fail(s)

InEnd(s, ch) ==
    CASE s.inendpos = 2 -> IF ch = "#" THEN Step(s) ELSE Fail(s)
      [] s.inendpos = 3 -> IF ch = "LF"
                           THEN Finish(s, s.buffQ, Len(Last(s.buffQ)))
                           ELSE Fail(s)
      [] OTHER -> Fail(s)

accept_buffer_ssh_v11(s, ch) ==
    LET t == [s EXCEPT !.buffQ = Room(@)]
    IN  CASE s.instate = "idle" ->
                IF ch = "LF"
                THEN Continue([t EXCEPT !.instate = "instart", !.inendpos = 1])
                ELSE Fail(t)
          [] s.instate = "instart"   -> InStart(t, ch)
          [] s.instate = "inmsg"     -> InChunk(t, ch)
          [] s.instate = "inbetween" -> InBetween(t, ch)
          [] OTHER                   -> InEnd(t, ch)

(* One byte; after an error the rest of the read is thrown away.           *)
Accept(r, ch) ==
    LET next == IF r.scb.protocol = "1.0" THEN accept_buffer_ssh_v10(r.scb, ch)
                ELSE accept_buffer_ssh_v11(r.scb, ch)
    IN  IF r.scb.failed THEN r
        ELSE [scb |-> next.scb, ready |-> r.ready \o next.ready]

(* The session after the bytes of a read, and the messages they complete   *)
AcceptAll(s, bytes) ==
    LET r[i \in 0..Len(bytes)] ==
            IF i = 0 THEN Continue(s) ELSE Accept(r[i - 1], bytes[i])
    IN  r[Len(bytes)]

ses_accept_input(k) ==
    /\ ~scb.failed
    /\ k <= Len(net)
    /\ LET r == AcceptAll(scb, SubSeq(net, 1, k))
       IN  scb' = r.scb /\ msgQ' = msgQ \o r.ready
    /\ net' = SubSeq(net, k + 1, Len(net))
    /\ UNCHANGED <<agreed, sent, delivered>>

(* ses_read_cb goes on until it has met the length of the last buffer, and *)
(* looks at that length only after it has taken a byte.                    *)
Seen(msg) ==
    LET before == FlattenSeq(Front(msg.buffQ))
        last == Last(msg.buffQ)
    IN  IF msg.bufflen > 0 THEN before \o SubSeq(last, 1, msg.bufflen)
        ELSE Append(before \o last, Garbage)

(* The message is processed; the first one is the <hello>, which sets the  *)
(* protocol (ses_set_protocol).                                            *)
agt_ses_process_first_ready ==
    /\ ~scb.failed
    /\ msgQ # <<>>
    /\ delivered' = Append(delivered, Seen(Head(msgQ)))
    /\ msgQ' = Tail(msgQ)
    /\ scb' = IF delivered = <<>> THEN [scb EXCEPT !.protocol = agreed] ELSE scb
    /\ UNCHANGED <<agreed, sent, net>>

-----------------------------------------------------------------------------
Read == \E k \in 1..ReadSize : ses_accept_input(k)

Next ==
    \/ \E m \in Messages :
          \/ SendEOM(m)
          \/ \E size \in {OwnChunkSize} \cup ChunkSizes : SendChunks(m, size)
    \/ Read
    \/ agt_ses_process_first_ready

(* The loop reads what has arrived and drains the ready queue.             *)
Spec ==
    /\ Init /\ [][Next]_vars
    /\ WF_vars(Read) /\ WF_vars(agt_ses_process_first_ready)

-----------------------------------------------------------------------------
TypeOK ==
    /\ agreed \in {"1.0", "1.1"}
    /\ sent \in Seq(Messages) /\ Len(sent) <= MaxSent
    /\ net \in Seq(Byte)
    /\ scb \in Session
    /\ \A i \in DOMAIN scb.buffQ : Len(scb.buffQ[i]) <= BuffSize
    /\ scb.inendpos > 0 => scb.instate # "idle"
    /\ \A i \in DOMAIN msgQ : /\ msgQ[i].buffQ \in Seq(Seq(Byte)) \ {<<>>}
                              /\ msgQ[i].bufflen \in Int
    /\ delivered \in Seq(Seq(Byte \cup {Garbage}))

(* However the bytes arrive, whatever the chunks of the peer and whatever  *)
(* the contents of its messages, what a conforming peer sends is never     *)
(* taken for a framing error.                                              *)
FramesAccepted == ~scb.failed

(* The lengths at which a message ends at the boundary of a buffer:        *)
(* base:1.0 stores the end mark, which then begins in one buffer and ends  *)
(* in the next; base:1.1 has a last buffer without data.                   *)
OnBoundary(i) ==
    LET n == Len(sent[i])
    IN  IF i = 1 \/ agreed = "1.0"
        THEN (n + Len(NC_SSH_END)) % BuffSize \in 1..Len(NC_SSH_END)
        ELSE n % BuffSize = 0

(* The reader sees bytes that do not belong to a message just after each   *)
(* message that ends at the boundary of a buffer.                          *)
GarbageAtBoundary ==
    \A i \in DOMAIN delivered :
        i \in DOMAIN sent => (delivered[i] # sent[i] <=> OnBoundary(i))

(* The messages are received whole and in order, and all of them are: the  *)
(* framing implements the channel.  A message counts as clean if nothing   *)
(* follows it.                                                             *)
Received ==
    [i \in DOMAIN delivered |->
        LET whole == i \in DOMAIN sent /\ IsPrefix(sent[i], delivered[i])
        IN  [msg |-> IF whole THEN sent[i] ELSE delivered[i],
             clean |-> whole => delivered[i] = sent[i]]]

Channel == INSTANCE MessageChannel WITH received <- Received

ImplementsChannel == Channel!Spec
=============================================================================

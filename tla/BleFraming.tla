------------------------------ MODULE BleFraming ------------------------------
(***************************************************************************)
(* How frames cross the BLE link in packs.  A phone cuts a frame into packs *)
(* and writes them; RECV_DATA messages bring them to ble_recv_data_process,  *)
(* which puts the frame together in one static buffer and hands it on; the  *)
(* answer is cut into packs and notified to the phone.                      *)
(*                                                                          *)
(* Contents are segments: n bytes of frame id, from byte src of the frame,  *)
(* at byte "at" of the buffer.                                              *)
(***************************************************************************)
EXTENDS Naturals, Sequences

CONSTANTS
  FrameLens,   \* lengths of the frames the phones send
  PhonePack,   \* bytes of a frame that a phone's pack carries
  RspSizes,    \* lengths of the frames the service answers with
  Mtus,        \* what app_mtu may be: the phone says, and nothing checks it
  MaxFrames,   \* bound: frames the phones begin
  MaxChan,     \* bound: phones write only while fewer packs than this are queued
  MaxStray,    \* bound: packs that do not follow on from the one before
  Faults       \* TRUE: malloc and notify may fail

(* What four digits of seven bits can say. *)
MaxFrame == 128 * 128 * 128 * 128 - 1

(* The frame's head, and a plaintext of 12 + 255 + 2 bytes (its own head,   *)
(* rsp_data, the checksum) filled up to a multiple of 16.                   *)
MaxRsp == 17 + 272

ASSUME FramingAssumption ==
  /\ FrameLens \subseteq 1 .. MaxFrame /\ PhonePack \in Nat \ {0}
  /\ RspSizes \subseteq 1 .. MaxRsp
  /\ Mtus \subseteq Nat
  /\ MaxFrames \in Nat /\ MaxChan \in Nat /\ MaxStray \in Nat /\ Faults \in BOOLEAN

VARIABLES
  phone,     \* the frame being sent: its number, length, bytes written, packs written
  chan,      \* packs queued as RECV_DATA messages
  buf,       \* recv_pack.data: the segments in it; NoBuf when NULL
  frameLen,  \* recv_pack.frame_len
  offset,    \* data_offset
  got,       \* history: frames put together and handed on
  whole,     \* history: frames written to the last byte
  stray,     \* history: the number of packs that do not follow on
  lost,      \* history: a message, a buffer or an answer could not be allocated
  crashed,   \* "no", "null": by a copy through NULL, "heap": past the end of a block
  rsp        \* the answer to the last frame: its size, and its packs that were notified

recvVars == <<buf, frameLen, offset>>
vars == <<phone, chan, recvVars, got, whole, stray, lost, crashed, rsp>>

NoBuf == {}
NoAnswer == [size |-> 0, packs |-> <<>>, done |-> FALSE]
NoPhone == [id |-> 0, len |-> 0, src |-> 0, seq |-> 0]

(* sizeof(tuya_ble_frame_s): &pack->data[data_offset] is this many bytes    *)
(* into the buffer for each unit of data_offset.                            *)
FRAME_HEAD == 17

AtMost(a, b) == IF a <= b THEN a ELSE b

(* A number in base 128, least digit first, at most four digits; 0 is one   *)
(* digit.  And what ble_recv_data_unpack reads such digits as: the weights  *)
(* are 1, 128, 128 * 256, 128 * 256 * 256.                                  *)
Digits(n) == IF n < 128 THEN <<n>>
             ELSE IF n < 16384 THEN <<n % 128, n \div 128>>
             ELSE IF n < 2097152 THEN <<n % 128, (n \div 128) % 128, n \div 16384>>
             ELSE <<n % 128, (n \div 128) % 128, (n \div 16384) % 128, (n \div 2097152) % 128>>

(* Mutant: the second digit has the third one's weight. *)
ReadShifted(d) ==
  d[1] + (IF Len(d) > 1 THEN 32768 * d[2] ELSE 0)
       + (IF Len(d) > 2 THEN 8388608 * d[3] ELSE 0)

Read(d) ==
  d[1] + (IF Len(d) > 1 THEN 128 * d[2] ELSE 0)
       + (IF Len(d) > 2 THEN 32768 * d[3] ELSE 0)
       + (IF Len(d) > 3 THEN 8388608 * d[4] ELSE 0)

Init ==
  /\ phone = NoPhone /\ chan = <<>>
  /\ buf = NoBuf /\ frameLen = 0 /\ offset = 0
  /\ got = <<>> /\ whole = <<>> /\ stray = 0 /\ lost = FALSE /\ crashed = "no"
  /\ rsp = NoAnswer

-----------------------------------------------------------------------------
(* The phones (external): one at a time, each writes its frames in order    *)
(* and may leave at any point of a frame.                                   *)

Running == crashed = "no"

Queue(p) ==
  \/ chan' = Append(chan, p) /\ UNCHANGED lost
  \/ Faults /\ chan' = chan /\ lost' = TRUE      \* ble_msg_queue_insert drops it

(* The frame whose pack is written next: a new one when none is being sent. *)
ToWrite ==
  {f \in IF phone.src = phone.len
         THEN {[id |-> phone.id + 1, len |-> l, src |-> 0, seq |-> 0] : l \in FrameLens}
         ELSE {phone} : f.id <= MaxFrames}

Pack(f, seq, src) ==
  [id |-> f.id, seq |-> Digits(seq), len |-> Digits(f.len), src |-> src,
   n |-> AtMost(PhonePack, f.len - src)]

WritePack ==
  /\ Running /\ Len(chan) < MaxChan
  /\ \E f \in ToWrite :
       LET p == Pack(f, f.seq, f.src)
       IN /\ Queue(p)
          /\ phone' = [f EXCEPT !.src = @ + p.n, !.seq = @ + 1]
          /\ whole' = IF f.src + p.n = f.len THEN Append(whole, f.id) ELSE whole
  /\ UNCHANGED <<recvVars, got, stray, crashed, rsp>>

(* A phone repeats or skips a pack of its frame, or writes one pack of a    *)
(* frame, not always the first, and leaves.                                 *)
WriteStray ==
  /\ Running /\ Len(chan) < MaxChan /\ stray < MaxStray
  /\ \E f \in ToWrite : \E k \in 0 .. f.len - 1 :
       /\ PhonePack * k < f.len
       /\ Queue(Pack(f, k, PhonePack * k))
       /\ phone' = IF phone.src = phone.len THEN [f EXCEPT !.src = f.len, !.seq = 1] ELSE phone
  /\ stray' = stray + 1
  /\ UNCHANGED <<recvVars, got, whole, crashed, rsp>>

Leave ==
  /\ phone.src # phone.len
  /\ phone' = [phone EXCEPT !.src = phone.len]
  /\ UNCHANGED <<chan, recvVars, got, whole, stray, lost, crashed, rsp>>

-----------------------------------------------------------------------------
(* ble_rsp_data_pack_and_send: the packs of an answer of "size" bytes.  Each *)
(* is filled up to pack_len, or with as many bytes as the frame has, never  *)
(* with what is left: the last one may run past the end of the frame.       *)
PackHead(seq, size) ==
  Len(Digits(seq)) + (IF seq = 0 THEN Len(Digits(size)) + 1 ELSE 0)
PackLen(size, mtu) == IF size + 9 > mtu THEN mtu ELSE size + 9

(* pack_len - data_offset is unsigned: when there is no room for the head,  *)
(* all of the frame is copied behind it.                                    *)
PackBytes(seq, size, mtu) ==
  IF PackLen(size, mtu) < PackHead(seq, size) THEN size
  ELSE AtMost(PackLen(size, mtu) - PackHead(seq, size), size)

(* The first pack is written past the pack_len bytes allocated for it.      *)
Overruns(size, mtu) == PackLen(size, mtu) < PackHead(0, size)

(* The bytes that are counted as sent when pack number seq is filled. *)
Sent(size, mtu) ==
  LET sent[seq \in Nat] ==
        IF seq = 0 THEN 0 ELSE sent[seq - 1] + PackBytes(seq - 1, size, mtu)
  IN  sent

(* The loop ends with the first pack at which no byte of the frame remains. *)
PackCount(size, mtu) ==
  CHOOSE k \in 1 .. size + 1 :
    /\ size <= Sent(size, mtu)[k]
    /\ k = 1 \/ Sent(size, mtu)[k - 1] < size

FirstPacks(size, mtu, count) ==
  [i \in 1 .. count |->
     [seq |-> Digits(i - 1), src |-> Sent(size, mtu)[i - 1], n |-> PackBytes(i - 1, size, mtu)]]

(* Mutant: only the last bytes of the frame are counted as sent. *)
PacksShort(size, mtu) ==
  LET count == PackCount(size, mtu)
  IN  FirstPacks(size, mtu, IF count > 1 THEN count - 1 ELSE count)

Packs(size, mtu) == FirstPacks(size, mtu, PackCount(size, mtu))

(* The packs of every answer, one of 0 bytes too: of no state, so TLC works *)
(* them out once.                                                           *)
Answers == [size \in RspSizes \cup {0} |-> [mtu \in Mtus |-> Packs(size, mtu)]]

(* What is notified of an answer: only the first packs when notify fails.   *)
(* A copy past the end of a block may end the program.                      *)
Send(size) ==
  \E mtu \in Mtus :
    LET all == Answers[size][mtu]
    IN \/ rsp' = [size |-> size, packs |-> all, done |-> TRUE] /\ UNCHANGED crashed
       \/ /\ Faults
          /\ \E k \in 0 .. Len(all) - 1 :
               rsp' = [size |-> size, packs |-> SubSeq(all, 1, k), done |-> FALSE]
          /\ UNCHANGED crashed
       \/ Overruns(size, mtu) /\ crashed' = "heap" /\ rsp' = NoAnswer

(* The answer to a frame: none when it is not decrypted or not understood.  *)
(* When there is no memory for it the result is OPRT_OK all the same, and   *)
(* an answer of no bytes is sent, or one that is read from NULL.            *)
Answer ==
  \/ rsp' = NoAnswer /\ UNCHANGED <<lost, crashed>>
  \/ \E size \in RspSizes : Send(size) /\ UNCHANGED lost
  \/ Faults /\ Send(0) /\ lost' = TRUE
  \/ Faults /\ rsp' = NoAnswer /\ lost' = TRUE /\ crashed' = "null"

-----------------------------------------------------------------------------
(* ble_recv_data_unpack: the first pack of a frame frees what was left of   *)
(* the last one and allocates frame_len bytes; any other pack is added to   *)
(* what is there.                                                           *)

Segment(p, at) == [id |-> p.id, src |-> p.src, at |-> at, n |-> p.n]

(* A frame is intact when every segment in the buffer is one of its own and *)
(* lies where it belongs.                                                   *)
Intact(b, id) == \A s \in b : s.id = id /\ s.at = s.src

(* Hand the frame on when frame_len bytes have come, answer it, and free    *)
(* the buffer.                                                              *)
HandOn(p, b) ==
  /\ buf' = NoBuf
  /\ got' = Append(got, [id |-> p.id, single |-> Read(p.seq) = 0, intact |-> Intact(b, p.id)])
  /\ Answer

(* Mutant: the buffer is freed after every pack. *)
CollectFrees(p, b, off, len) ==
  /\ offset' = off /\ frameLen' = len
  /\ \/ off < len /\ buf' = NoBuf /\ UNCHANGED <<got, rsp, lost, crashed>>
     \/ off >= len /\ HandOn(p, b)

Collect(p, b, off, len) ==
  /\ offset' = off /\ frameLen' = len
  /\ \/ off < len /\ buf' = b /\ UNCHANGED <<got, rsp, lost, crashed>>
     \/ off >= len /\ HandOn(p, b)

(* Mutant: the rest of an abandoned frame stays in the buffer. *)
FirstPackKeeps ==
  /\ Running /\ chan # <<>>
  /\ LET p == Head(chan)
     IN /\ Read(p.seq) = 0
        /\ Collect(p, buf \cup {Segment(p, 0)}, p.n, Read(p.len))
  /\ chan' = Tail(chan)
  /\ UNCHANGED <<phone, whole, stray>>

(* Mutant: the error code of a failed allocation is kept as the offset. *)
FirstPackErrorOffset ==
  /\ Running /\ chan # <<>>
  /\ LET p == Head(chan)
     IN /\ Read(p.seq) = 0
        /\ \/ Collect(p, {Segment(p, 0)}, p.n, Read(p.len))
           \/ /\ Faults
              /\ offset' = 0 - 1 /\ frameLen' = Read(p.len) /\ buf' = NoBuf
              /\ lost' = TRUE /\ UNCHANGED <<got, rsp, crashed>>
  /\ chan' = Tail(chan)
  /\ UNCHANGED <<phone, whole, stray>>

FirstPack ==
  /\ Running /\ chan # <<>>
  /\ LET p == Head(chan)
     IN /\ Read(p.seq) = 0
        /\ \/ Collect(p, {Segment(p, 0)}, p.n, Read(p.len))
           \/ /\ Faults                                      \* no memory for the frame
              /\ offset' = 0 /\ frameLen' = Read(p.len) /\ buf' = NoBuf
              /\ lost' = TRUE /\ UNCHANGED <<got, rsp, crashed>>
  /\ chan' = Tail(chan)
  /\ UNCHANGED <<phone, whole, stray>>

(* Without a buffer the copy is one through NULL.  Past the end of the      *)
(* buffer it may end the program; otherwise what it overwrites is taken to  *)
(* be none of the variables here.                                           *)
NextPack ==
  /\ Running /\ chan # <<>>
  /\ LET p == Head(chan)
         at == FRAME_HEAD * offset
     IN /\ Read(p.seq) # 0
        /\ \/ /\ \/ buf = NoBuf /\ crashed' = "null"
                 \/ buf # NoBuf /\ at + p.n > frameLen /\ crashed' = "heap"
              /\ UNCHANGED <<recvVars, got, rsp, lost>>
           \/ /\ buf # NoBuf
              /\ Collect(p, buf \cup {Segment(p, at)}, offset + p.n, frameLen)
  /\ chan' = Tail(chan)
  /\ UNCHANGED <<phone, whole, stray>>

-----------------------------------------------------------------------------
Next == WritePack \/ WriteStray \/ Leave \/ FirstPack \/ NextPack

Spec == Init /\ [][Next]_vars

-----------------------------------------------------------------------------
(* Lengths, offsets and packs are what their fields can hold. *)
TypeOK ==
  /\ phone \in [id : 0 .. MaxFrames, len : FrameLens \cup {0}, src : Nat, seq : Nat]
  /\ chan \in Seq([id : 1 .. MaxFrames, seq : Seq(0 .. 127), len : Seq(0 .. 127), src : Nat, n : Nat])
  /\ buf \subseteq [id : 1 .. MaxFrames, src : Nat, at : Nat, n : Nat]
  /\ frameLen \in Nat /\ offset \in Nat
  /\ got \in Seq([id : 1 .. MaxFrames, single : BOOLEAN, intact : BOOLEAN])
  /\ whole \in Seq(1 .. MaxFrames) /\ stray \in Nat
  /\ lost \in BOOLEAN /\ crashed \in {"no", "null", "heap"}
  /\ rsp \in [size : RspSizes \cup {0}, done : BOOLEAN,
              packs : Seq([seq : Seq(0 .. 127), src : Nat, n : Nat])]

(* Every complete frame is handed on once, in the order the frames were     *)
(* written, and nothing else is, as long as memory lasts, phones write the  *)
(* packs in their order and the program runs: neither a frame cut short by  *)
(* a phone that left nor its length confuses the next one.                  *)
Steady == ~lost /\ stray = 0 /\ Running

FramesInOrder ==
  Steady /\ chan = <<>> => [i \in DOMAIN got |-> got[i].id] = whole

(* A frame that came in one pack is what the phone wrote, whatever was left *)
(* in the buffer before it, whatever was lost and whatever packs came in    *)
(* between.                                                                 *)
SinglePackIntact == \A i \in DOMAIN got : got[i].single => got[i].intact

(* A pack finds no buffer to go to, nor an answer any frame to be read from, *)
(* only when an allocation has failed or a phone wrote a stray pack.        *)
BufferIsThere == crashed = "null" => lost \/ stray # 0

(* The packs of an answer, put together by the phone as this device puts    *)
(* its own together, are the answer: numbered from 0, each beginning where  *)
(* the one before ended, all of it once notify has not failed, whatever     *)
(* app_mtu is, as long as the program runs.                                 *)
AnswerComplete ==
  /\ \A i \in DOMAIN rsp.packs :
       /\ Read(rsp.packs[i].seq) = i - 1
       /\ rsp.packs[i].src = (IF i = 1 THEN 0 ELSE rsp.packs[i - 1].src + rsp.packs[i - 1].n)
  /\ rsp.done =>
       LET last == rsp.packs[Len(rsp.packs)] IN last.src + last.n >= rsp.size

(* tuya_ble_service.c:83 "encrypt mode (1 byte) + iv (16 byte) +            *)
(* ciphertext": the buffer that is handed on holds the frame, however many  *)
(* packs it came in.                                                        *)
FrameIntact == Steady => \A i \in DOMAIN got : got[i].intact
===============================================================================

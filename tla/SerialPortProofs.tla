---------------------------- MODULE SerialPortProofs ----------------------------
(***************************************************************************)
(* What SerialPort keeps for every length of a pack and of the stream,     *)
(* every payload and every pattern of failing calls.                       *)
(*                                                                         *)
(* Accounted, NeverStarved and CapturedInARow are not inductive alone:     *)
(*   InARow    while nothing has been purged, the chunk is the last        *)
(*             Len(chunk) bytes before head, so it never skips a byte;     *)
(*   NoStarve  while nothing has been purged, what is left of the count is *)
(*             still covered by what waits;                                *)
(*   Counting  the loop over the characters is left with the count;        *)
(*   Fresh     the listener counts with an empty chunk.                    *)
(***************************************************************************)
EXTENDS SerialPort, SequenceTheorems, TLAPS

InARow ==
  purged = 0 => \A k \in 1 .. Len(chunk) : chunk[k] = head - Len(chunk) + k - 1

NoStarve ==
  purged = 0 /\ lpc \in {"char", "read"} => left <= Waiting

Counting == lpc \in {"char", "read"} => 1 <= left

Fresh == lpc = "count" => chunk = << >>

IInv ==
  /\ TypeOK /\ Fresh /\ Counting /\ Accounted
  /\ InARow /\ CapturedInARow /\ NoStarve

-------------------------------------------------------------------------------
(* A longer prefix of the stream keeps the bytes of a sequence in range.   *)
LEMMA SeqGrows ==
  ASSUME NEW m \in Nat, NEW n \in Nat, m <= n, NEW s \in Seq(1 .. m)
  PROVE  s \in Seq(1 .. n)
<1>1. \A k \in 1 .. Len(s) : s[k] \in 1 .. n OBVIOUS
<1> QED BY <1>1

(* What the arithmetic below rests on.                                     *)
LEMMA Numbers ==
  ASSUME TypeOK
  PROVE  /\ arrived \in Nat /\ head \in Nat /\ head - 1 \in Nat
         /\ Waiting \in Nat /\ purged \in Nat /\ delivered \in Nat
         /\ left \in Nat /\ Len(chunk) \in Nat
         /\ 1 <= head /\ head <= arrived + 1
BY DEF TypeOK, Waiting

(* The invariant holds at the start.                                       *)
LEMMA InitIInv == Init => IInv
<1> SUFFICES ASSUME Init PROVE IInv OBVIOUS
<1> USE DEF Init
<1>1. TypeOK BY DEF TypeOK
<1>2. /\ Fresh /\ Counting /\ Accounted
      /\ InARow /\ CapturedInARow /\ NoStarve
  BY DEF Fresh, Counting, Accounted, InARow, CapturedInARow, NoStarve
<1> QED BY <1>1, <1>2 DEF IInv

(* The wire and the writer without a purge: the listener's part stays.     *)
LEMMA QuietIInv ==
  ASSUME IInv,
         UNCHANGED <<head, purged, delivered, left, chunk, captured>>,
         arrived' \in {arrived, arrived + 1},
         lock' \in {"free", "listener", "writer"},
         wpc' \in {"idle", "enter", "write"},
         \/ lpc' = lpc
         \/ lpc = "char" /\ lpc' = "read"
  PROVE  IInv'
<1> USE DEF IInv
<1>1. TypeOK'
  <2>1. head' = head /\ head' - 1 = head - 1 OBVIOUS
  <2>2. arrived' \in Nat /\ arrived <= arrived' BY Numbers
  <2>3. head' \in 1 .. arrived' + 1 BY <2>1, <2>2, Numbers
  <2>4. chunk' \in Seq(1 .. head' - 1) /\ captured' \in Seq(1 .. head' - 1)
    BY <2>1 DEF TypeOK
  <2> QED BY <2>2, <2>3, <2>4 DEF TypeOK
<1>2. Fresh' /\ Counting' /\ Accounted' /\ InARow'
  BY DEF Fresh, Counting, Accounted, InARow
<1>3. CapturedInARow' BY DEF CapturedInARow, IsSof
<1>4. NoStarve'
  <2>1. Waiting <= Waiting' BY Numbers DEF Waiting
  <2>2. Waiting' \in Int BY Numbers DEF Waiting
  <2> QED BY <2>1, <2>2, Numbers DEF NoStarve
<1> QED BY <1>1, <1>2, <1>3, <1>4

(* A purge moves head to the end; all that was there is accounted for.     *)
LEMMA PurgeFacts ==
  ASSUME IInv, Purge, arrived' = arrived
  PROVE  /\ head' \in 1 .. arrived' + 1
         /\ head' - 1 = head - 1 + Waiting
         /\ purged' = purged + Waiting
         /\ purged' \in Nat
         /\ purged' = 0 => purged = 0 /\ head' = head
         /\ \A s \in Seq(1 .. head - 1) : s \in Seq(1 .. head' - 1)
<1> USE DEF IInv
<1>1. purged' = purged + Waiting /\ head' = arrived + 1 BY DEF Purge
<1>2. head' - 1 = head - 1 + Waiting /\ head - 1 <= head' - 1
  BY <1>1, Numbers DEF Waiting, TypeOK
<1>3. purged' \in Nat /\ (purged' = 0 => Waiting = 0 /\ purged = 0)
  BY <1>1, Numbers
<1>4. head - 1 \in Nat /\ head' - 1 \in Nat BY <1>1, Numbers
<1>5. \A s \in Seq(1 .. head - 1) : s \in Seq(1 .. head' - 1)
  BY <1>2, <1>4, SeqGrows
<1>6. head' \in 1 .. arrived' + 1
  <2>1. head' = arrived' + 1 /\ head' \in Nat /\ head' >= 1 BY <1>1, Numbers
  <2> QED BY <2>1
<1>7. purged' = 0 => head' = head
  <2>1. Waiting = 0 => head = arrived + 1 BY Numbers DEF Waiting
  <2> QED BY <1>1, <1>3, <2>1
<1> QED BY <1>1, <1>2, <1>3, <1>5, <1>6, <1>7

-------------------------------------------------------------------------------
(* Count starts a chunk with no more bytes to read than are waiting.       *)
LEMMA CountIInv ==
  ASSUME IInv, Count
  PROVE  IInv'
<1> USE DEF IInv, Count, wireVars
<1>1. chunk = << >> BY DEF Fresh
<1>2. TypeOK' BY Numbers, <1>1 DEF TypeOK
<1>3. Fresh' /\ Accounted' /\ InARow' /\ CapturedInARow'
  BY <1>1 DEF Fresh, Accounted, InARow, CapturedInARow, IsSof
<1>4. NoStarve'
  <2>1. Waiting' = Waiting BY DEF Waiting
  <2> QED BY <2>1, Numbers DEF NoStarve
<1>5. Counting' BY Numbers DEF Counting
<1> QED BY <1>2, <1>3, <1>4, <1>5

(* ReadByte moves one byte from the driver's buffer to the chunk.          *)
LEMMA ReadByteIInv ==
  ASSUME IInv, ReadByte
  PROVE  IInv'
<1> USE DEF IInv, ReadByte, NextChar
<1>1. /\ head \in Nat /\ head >= 1 /\ head' = head + 1
      /\ chunk \in Seq(1 .. head - 1)
      /\ Len(chunk) \in Nat
  BY Numbers DEF TypeOK
<1>2. chunk \in Seq(1 .. head) /\ captured \in Seq(1 .. head)
  BY <1>1, SeqGrows DEF TypeOK
<1>3. /\ chunk' \in Seq(1 .. head)
      /\ Len(chunk') = Len(chunk) + 1
      /\ \A k \in 1 .. Len(chunk) : chunk'[k] = chunk[k]
      /\ chunk'[Len(chunk) + 1] = head
  BY <1>1, <1>2
<1>4. TypeOK'
  <2>1. head' \in 1 .. arrived' + 1
    <3>1. arrived - head + 1 > 0 BY DEF Waiting
    <3>2. head' <= arrived' + 1 /\ head' >= 1 /\ head' \in Nat
      BY <1>1, <3>1, Numbers
    <3>3. arrived' \in Nat BY Numbers
    <3> QED BY <3>2, <3>3
  <2>2. head' - 1 = head BY <1>1
  <2> QED BY <2>1, <2>2, <1>2, <1>3, Numbers DEF Counting, TypeOK
<1>5. Accounted'
  <2>1. delivered + Len(chunk) + purged = head - 1 BY DEF Accounted
  <2>2. delivered + (Len(chunk) + 1) + purged = (head + 1) - 1
    BY <2>1, Numbers
  <2> QED BY <2>2, <1>3 DEF Accounted
<1>6. InARow' BY <1>1, <1>3 DEF InARow
<1>7. CapturedInARow' BY DEF CapturedInARow, IsSof
<1>8. NoStarve'
  <2>1. Waiting' = Waiting - 1 BY <1>1, Numbers DEF Waiting
  <2> QED BY <2>1, Numbers DEF NoStarve
<1>9. Fresh' /\ Counting' BY Numbers DEF Fresh, Counting
<1> QED BY <1>4, <1>5, <1>6, <1>7, <1>8, <1>9


(* A failed read leaves the chunk one byte short; the purge is accounted.  *)
LEMMA ReadErrorIInv ==
  ASSUME IInv, ReadError
  PROVE  IInv'
<1> USE DEF IInv, ReadError, NextChar
<1>1. arrived' = arrived /\ chunk' = chunk /\ captured' = captured OBVIOUS
<1>2. left' \in Nat BY Numbers DEF Counting
<1>3. TypeOK' BY <1>1, <1>2, PurgeFacts DEF TypeOK
<1>4. Accounted'
  <2>1. delivered + Len(chunk) + purged = head - 1 BY DEF Accounted
  <2>2. delivered + Len(chunk) + (purged + Waiting) = (head - 1) + Waiting
    BY <2>1, Numbers
  <2> QED BY <2>2, <1>1, PurgeFacts DEF Accounted
<1>5. InARow' /\ CapturedInARow'
  BY <1>1, PurgeFacts DEF InARow, CapturedInARow, IsSof
<1>6. Fresh' /\ Counting' BY Numbers DEF Fresh, Counting
<1>7. NoStarve'
  <2> SUFFICES ASSUME purged' = 0 PROVE FALSE BY DEF NoStarve
  <2>1. purged = 0 /\ Waiting = 0 BY <1>1, Numbers, PurgeFacts
  <2>2. 1 <= left /\ left <= Waiting BY <2>1 DEF Counting, NoStarve
  <2> QED BY <2>1, <2>2, Numbers
<1> QED BY <1>3, <1>4, <1>5, <1>6, <1>7

(* What dataCapture takes is the beginning of the chunk, hence in a row.   *)
LEMMA CallIInv ==
  ASSUME IInv, Call
  PROVE  IInv'
<1> USE DEF IInv, Call, wireVars
<1>1. /\ chunk \in Seq(1 .. head - 1) /\ Len(chunk) \in Nat
      /\ PackLen \in Nat /\ PackLen >= 1
  BY SerialPortAssumption DEF TypeOK
<1>2. ASSUME Len(chunk) >= PackLen
      PROVE  /\ SubSeq(chunk, 1, PackLen) \in Seq(1 .. head - 1)
             /\ Len(SubSeq(chunk, 1, PackLen)) = PackLen
             /\ \A k \in 1 .. PackLen :
                  SubSeq(chunk, 1, PackLen)[k] = chunk[k]
  <2>1. \A i \in 1 .. PackLen : chunk[i] \in 1 .. head - 1
    <3>1. \A i \in 1 .. PackLen : i \in 1 .. Len(chunk) BY <1>1, <1>2
    <3>2. \A i \in 1 .. Len(chunk) : chunk[i] \in 1 .. head - 1
      BY <1>1, ElementOfSeq
    <3> QED BY <3>1, <3>2
  <2>2. /\ SubSeq(chunk, 1, PackLen) \in Seq(1 .. head - 1)
        /\ Len(SubSeq(chunk, 1, PackLen)) = PackLen - 1 + 1
        /\ \A i \in 1 .. PackLen - 1 + 1 :
             SubSeq(chunk, 1, PackLen)[i] = chunk[1 + i - 1]
    BY <1>1, <2>1, SubSeqProperties
  <2> HIDE DEF Call
  <2>3. \A k \in 1 .. PackLen : 1 + k - 1 = k /\ k \in 1 .. PackLen - 1 + 1
    BY <1>1
  <2> QED BY <2>2, <2>3, <1>1
<1>3. TypeOK'
  <2>1. captured' \in Seq(1 .. head - 1) BY <1>2 DEF TypeOK
  <2>2. delivered' \in Nat BY Numbers
  <2> QED BY <2>1, <2>2 DEF TypeOK
<1>4. Accounted'
  <2>1. Len(chunk') = 0 /\ delivered' = delivered + Len(chunk) OBVIOUS
  <2>2. (delivered + Len(chunk)) + 0 + purged = head - 1
    BY Numbers DEF Accounted
  <2> QED BY <2>1, <2>2 DEF Accounted
<1>5. CapturedInARow'
  <2>1. CASE Len(chunk) >= PackLen /\ IsSof(chunk[1])
    <3> SUFFICES ASSUME purged' = 0 PROVE CapturedInARow'
      BY DEF CapturedInARow
    <3>1. \A k \in 1 .. PackLen : captured'[k] = chunk[k]
      BY <2>1, <1>2
    <3>2. 1 \in 1 .. PackLen /\ 1 .. PackLen \subseteq 1 .. Len(chunk)
      BY <2>1, <1>1
    <3>3. \A k \in 1 .. PackLen : chunk[k] = head - Len(chunk) + k - 1
      BY <3>2 DEF InARow
    <3>4. \A k \in 1 .. PackLen : captured'[k] = captured'[1] + k - 1
      <4>1. captured'[1] = head - Len(chunk) + 1 - 1
        BY <3>1, <3>2, <3>3
      <4>2. ASSUME NEW k \in 1 .. PackLen
            PROVE  captured'[k] = captured'[1] + k - 1
        <5>1. captured'[k] = head - Len(chunk) + k - 1 BY <3>1, <3>3
        <5>2. k \in Int /\ head \in Int /\ Len(chunk) \in Int
          BY <1>1, Numbers
        <5>3. head - Len(chunk) + k - 1 = (head - Len(chunk) + 1 - 1) + k - 1
          BY <5>2
        <5> QED BY <4>1, <5>1, <5>3
      <4> QED BY <4>2
    <3>5. Len(captured') = PackLen /\ IsSof(captured'[1])
      BY <3>1, <3>2, <2>1, <1>2
    <3> QED BY <3>4, <3>5 DEF CapturedInARow, IsSof
  <2>2. CASE ~(Len(chunk) >= PackLen /\ IsSof(chunk[1]))
    BY <2>2 DEF CapturedInARow, IsSof
  <2> QED BY <2>1, <2>2
<1>6. InARow' /\ Fresh' /\ Counting' /\ NoStarve'
  BY DEF InARow, Fresh, Counting, NoStarve
<1> QED BY <1>3, <1>4, <1>5, <1>6

(* The end of a write: only one that failed touches what was received.     *)
LEMMA WriteDoneIInv ==
  ASSUME IInv, WriteDone
  PROVE  IInv'
<1> USE DEF WriteDone
<1>1. CASE UNCHANGED <<head, purged>>
  BY <1>1, QuietIInv
<1>2. CASE WriteFails /\ Purge
  <2> USE DEF IInv
  <2>1. arrived' = arrived OBVIOUS
  <2>2. TypeOK' BY <1>2, <2>1, PurgeFacts DEF TypeOK
  <2>3. Accounted'
    <3>1. delivered + Len(chunk) + purged = head - 1 BY DEF Accounted
    <3>2. delivered + Len(chunk) + (purged + Waiting) = (head - 1) + Waiting
      BY <3>1, Numbers
    <3> QED BY <3>2, <1>2, <2>1, PurgeFacts DEF Accounted
  <2>4. InARow' /\ CapturedInARow'
    BY <1>2, <2>1, PurgeFacts DEF InARow, CapturedInARow, IsSof
  <2>5. Fresh' /\ Counting' BY <1>2 DEF Fresh, Counting
  <2>6. NoStarve'
    <3> SUFFICES ASSUME purged' = 0, lpc \in {"char", "read"}
                 PROVE  left' <= Waiting'
      BY DEF NoStarve
    <3>1. purged = 0 /\ head' = head BY <1>2, <2>1, PurgeFacts
    <3>2. Waiting' = Waiting BY <2>1, <3>1 DEF Waiting
    <3>3. left <= Waiting BY <3>1 DEF NoStarve
    <3> QED BY <3>2, <3>3
  <2> QED BY <2>2, <2>3, <2>4, <2>5, <2>6
<1> QED BY <1>1, <1>2

-------------------------------------------------------------------------------
(* Every step of the wire, of the listener and of Task_Infantry keeps it.  *)
LEMMA NextIInv == IInv /\ [Next]_vars => IInv'
<1> SUFFICES ASSUME IInv, [Next]_vars PROVE IInv' OBVIOUS
<1>t. TypeOK BY DEF IInv
<1>1. CASE Arrive
  BY <1>1, <1>t, QuietIInv DEF Arrive, TypeOK
<1>2. CASE Count BY <1>2, CountIInv
<1>3. CASE ReadEnter
  BY <1>3, <1>t, QuietIInv DEF ReadEnter, wireVars, TypeOK
<1>4. CASE ReadByte BY <1>4, ReadByteIInv
<1>5. CASE ReadError BY <1>5, ReadErrorIInv
<1>6. CASE Call BY <1>6, CallIInv
<1>7. CASE WriteCall
  BY <1>7, <1>t, QuietIInv DEF WriteCall, wireVars, TypeOK
<1>8. CASE WriteEnter
  BY <1>8, <1>t, QuietIInv DEF WriteEnter, wireVars, TypeOK
<1>9. CASE WriteDone BY <1>9, WriteDoneIInv
<1>10. CASE UNCHANGED vars
  BY <1>10, <1>t, QuietIInv DEF vars, wireVars, TypeOK
<1> QED
  BY <1>1, <1>2, <1>3, <1>4, <1>5, <1>6, <1>7, <1>8, <1>9, <1>10
  DEF Next, Listener, Writer

(* The variables keep their types, whichever calls of the system fail.     *)
THEOREM SerialPortTypeOK == Spec => []TypeOK
<1>1. IInv => TypeOK BY DEF IInv
<1> QED BY <1>1, InitIInv, NextIInv, PTL DEF Spec

(* Every byte that left the driver's buffer was delivered, is in the chunk *)
(* or fell to a purge, whichever calls of the system fail.                 *)
THEOREM SerialPortAccounted == Spec => []Accounted
<1>1. IInv => Accounted BY DEF IInv
<1> QED BY <1>1, InitIInv, NextIInv, PTL DEF Spec

(* Until something is purged, ReadFile is never entered for a byte that is *)
(* not there, so no one waits for the PC inside the critical section.      *)
THEOREM SerialPortNeverStarved == Spec => []NeverStarved
<1>1. IInv => NeverStarved
  <2> SUFFICES ASSUME IInv, Starved, ~(purged > 0) PROVE FALSE
    BY DEF NeverStarved
  <2>1. purged = 0 BY DEF IInv, TypeOK
  <2>2. 1 <= left /\ left <= Waiting /\ Waiting = 0 /\ left \in Nat
    BY <2>1 DEF IInv, TypeOK, Counting, NoStarve, Starved
  <2> QED BY <2>1, <2>2
<1> QED BY <1>1, InitIInv, NextIInv, PTL DEF Spec

(* Until a purge, what dataCapture takes is PackLen bytes of the stream in *)
(* a row beginning with 0x33, wherever the chunks began and ended.         *)
THEOREM SerialPortCapturedInARow == Spec => []CapturedInARow
<1>1. IInv => CapturedInARow BY DEF IInv
<1> QED BY <1>1, InitIInv, NextIInv, PTL DEF Spec
===============================================================================

---------------------- MODULE ThreadedEchoServerProofs ----------------------
(***************************************************************************)
(* For any number of datagrams, any buffer size and any contents of the    *)
(* heap: the threaded server answers the k-th datagram right if the first  *)
(* k handlers copied their arguments in time, no handler takes the block   *)
(* or the address of an earlier datagram, and every text sent is           *)
(* terminated inside its block unless main is still copying it.            *)
(***************************************************************************)
EXTENDS ThreadedEchoServer, CStringsProofs

\* The part of datagram data the server keeps.
Kept(data) == Truncate(data, BUFSIZE - 1)

\* What p should hold for the k-th handler.
RightParams(k) == [addr |-> rcvd[k].addr, blk |-> k, n |-> Len(Kept(rcvd[k].data))]

\* How far the datagrams, the blocks and the handlers are apart.
Counts ==
    /\ Len(replies) = Len(handlers)
    /\ Len(handlers) <= Len(heap) /\ Len(heap) <= Len(rcvd)
    /\ pc = "recv" => Len(rcvd) = Len(handlers)
    /\ pc \in {"lookup", "addr", "malloc"} =>
          Len(rcvd) = Len(handlers) + 1 /\ Len(heap) = Len(handlers)
    /\ pc \in {"strcpy", "n", "create"} =>
          Len(rcvd) = Len(handlers) + 1 /\ Len(heap) = Len(rcvd)

\* main's own variables hold the last datagram until its handler is created.
InBuffer ==
    pc \in {"lookup", "addr", "malloc", "strcpy", "n", "create"} =>
        /\ HoldsText(buf, Kept(rcvd[Len(rcvd)].data))
        /\ n = Len(Kept(rcvd[Len(rcvd)].data))
        /\ clientaddr = rcvd[Len(rcvd)].addr

\* What is in p: the arguments of the last handler, or those of the next one
\* as far as main has filled them in.
Slot ==
    /\ p.blk = Len(heap)
    /\ pc \in {"recv", "lookup", "addr"} /\ handlers # <<>> =>
          p = RightParams(Len(handlers))
    /\ pc \in {"malloc", "strcpy", "n", "create"} =>
          p.addr = rcvd[Len(rcvd)].addr
    /\ pc = "create" => p.n = Len(Kept(rcvd[Len(rcvd)].data))

\* A block that no late handler of an earlier datagram may have terminated
\* holds its datagram's text, once strcpy has put it there.
Blocks ==
    \A b \in 1 .. Len(heap) :
        raced \cap 1 .. b = {} /\ (b <= Len(handlers) \/ pc \in {"n", "create"})
        => HoldsText(heap[b], Kept(rcvd[b].data))

\* What strcpy has written so far is still there, unless a late handler has
\* terminated the block meanwhile.
Copied ==
    pc = "strcpy" =>
        LET b == Len(heap)
        IN  \A j \in CopiedOctets(buf) \ left :
                \/ heap[b][j] = buf[j]
                \/ heap[b][j] = NUL /\ raced \cap 1 .. b # {}

\* What holds of every handler, late or not.
AllHandlers ==
    \A k \in 1 .. Len(handlers) :
        LET h == handlers[k]
        IN  /\ h.pc # "addr" => \E j \in k .. Len(rcvd) : h.arg.addr = rcvd[j].addr
            /\ h.pc \notin {"addr", "buf"} => h.arg.blk \in k .. Len(heap)
            /\ pc # "exited" /\ h.pc = "sleep" /\ ~IsTerminated(heap[h.arg.blk]) =>
                  pc = "strcpy" /\ h.arg.blk = Len(heap)
            /\ k \in Answered => h.pc = "done" /\ replies[k].addr = h.arg.addr

\* A handler that is not late still finds its arguments in p, and what it has
\* copied is right.
PromptHandlers ==
    \A k \in 1 .. Len(handlers) :
        LET h == handlers[k]
        IN  k \notin raced =>
            /\ Copying(k) => k = Len(handlers) /\ pc \in {"recv", "lookup", "addr", "exited"}
            /\ h.pc # "addr" => h.arg.addr = rcvd[k].addr
            /\ h.pc \notin {"addr", "buf"} => h.arg.blk = k
            /\ ~Copying(k) => h.arg = RightParams(k)

IInv ==
    /\ TypeOK
    /\ Counts
    /\ InBuffer
    /\ Slot
    /\ Blocks
    /\ Copied
    /\ AllHandlers
    /\ PromptHandlers
    /\ CleanHandoff

-----------------------------------------------------------------------------
\* Buffers and texts.

\* Arrays of BUFSIZE characters are sequences.
LEMMA BufferIsSeq ==
    ASSUME NEW b \in Buffer
    PROVE  b \in Seq(Octet) /\ Len(b) = BUFSIZE /\ b # <<>>
<1>1. b \in Seq(Octet) /\ Len(b) = BUFSIZE
  BY BufSizeAssumption, FunctionIsSeq DEF Buffer
<1>2. Len(<<>>) = 0
  OBVIOUS
<1> QED BY <1>1, <1>2, BufSizeAssumption

\* The kept part of a datagram is shorter than the buffer.
LEMMA KeptFits ==
    ASSUME NEW d \in Payloads
    PROVE  Kept(d) \in Seq(Octet) /\ Len(Kept(d)) \in 0 .. BUFSIZE - 1
  BY BufSizeAssumption, PayloadsAssumption, TruncateFits DEF Kept

\* A buffer that holds a datagram's text has the string of its echo.
LEMMA HeldKept ==
    ASSUME NEW b \in Buffer, NEW d \in Payloads, HoldsText(b, Kept(d))
    PROVE  CStr(b) = CStr(Kept(d)) /\ IsTerminated(b)
  BY BufferIsSeq, KeptFits, HeldText

-----------------------------------------------------------------------------
\* The main thread.

\* The invariant holds when the server starts.
LEMMA InitIInv == Init => IInv
<1> SUFFICES ASSUME Init PROVE IInv
  OBVIOUS
<1> USE DEF Init
<1>1. TypeOK
  BY BufSizeAssumption, BoundAssumption DEF TypeOK, MainPc, Filled, Buffer, Zero, Octet,
     NoParams, Params, NoBlock, HandlerPc
<1>2. Counts /\ InBuffer /\ Slot /\ Blocks /\ Copied
  BY DEF Counts, InBuffer, Slot, Blocks, Copied, NoParams, NoBlock
<1>3. AllHandlers /\ PromptHandlers /\ CleanHandoff
  BY DEF AllHandlers, PromptHandlers, CleanHandoff, Answered
<1> QED BY <1>1, <1>2, <1>3 DEF IInv

\* What strcpy writes: a text that fits, and the terminator behind it.
LEMMA LastIsCopied ==
    ASSUME TypeOK, Counts, InBuffer, pc \in {"malloc", "strcpy"}
    PROVE  /\ rcvd[Len(rcvd)].data \in Payloads
           /\ HoldsText(buf, Kept(rcvd[Len(rcvd)].data))
           /\ CopiedOctets(buf) \subseteq 1 .. BUFSIZE
           /\ StrLen(buf) + 1 \in CopiedOctets(buf) /\ buf[StrLen(buf) + 1] = NUL
<1> DEFINE text == Kept(rcvd[Len(rcvd)].data)
<1>1. rcvd \in Seq(Datagrams(Payloads)) /\ Len(rcvd) \in 1 .. Len(rcvd)
  BY DEF TypeOK, Counts
<1>2. rcvd[Len(rcvd)] \in Datagrams(Payloads)
  BY <1>1, ElementOfSeq
<1>3. rcvd[Len(rcvd)].data \in Payloads
  BY <1>2 DEF Datagrams
<1>4. HoldsText(buf, text)
  BY DEF InBuffer
<1>5. text \in Seq(Octet) /\ Len(text) < BUFSIZE
  BY <1>3, KeptFits, BufSizeAssumption
<1>6. buf \in Seq(Octet) /\ Len(buf) = BUFSIZE
  BY BufferIsSeq DEF TypeOK
<1> HIDE DEF text
<1>7. StrLen(text) \in 0 .. Len(text)
  BY <1>5, StrLenType
<1>8. StrLen(buf) = StrLen(text)
  BY <1>4, <1>6, StrLenIs DEF HoldsText
<1>9. StrLen(buf) \in 0 .. BUFSIZE - 1 /\ buf[StrLen(buf) + 1] = NUL
  BY <1>4, <1>5, <1>6, <1>7, <1>8 DEF HoldsText, IsStrLen
<1>10. CopiedOctets(buf) \subseteq 1 .. BUFSIZE /\ StrLen(buf) + 1 \in CopiedOctets(buf)
  BY <1>9, BufSizeAssumption DEF CopiedOctets
<1> QED BY <1>3, <1>4, <1>9, <1>10 DEF text

\* A datagram is received: earlier ones keep their place in rcvd.
LEMMA RecvIInv ==
    ASSUME IInv, NEW a \in Addrs, NEW d \in Payloads, Recv(a, d)
    PROVE  IInv'
<1> USE DEF Recv, Sender
<1> DEFINE dgram == [addr |-> a, data |-> d]
<1>1. TypeOK /\ Counts /\ Slot /\ Blocks /\ AllHandlers /\ PromptHandlers /\ CleanHandoff
  BY DEF IInv
<1>2. /\ rcvd' \in Seq(Datagrams(Payloads)) /\ Len(rcvd') = Len(rcvd) + 1
      /\ rcvd'[Len(rcvd')] = dgram
      /\ \A j \in 1 .. Len(rcvd) : rcvd'[j] = rcvd[j]
      /\ Len(rcvd) \in Nat /\ Len(rcvd) + 1 <= MaxDatagrams
  BY <1>1, BoundAssumption DEF TypeOK, Datagrams
<1>3. buf' \in Buffer /\ HoldsText(buf', Kept(d))
  BY <1>1, BufferIsSeq, ReceivedHolds, PayloadsAssumption DEF TypeOK, Buffer, Kept
<1>4. n' = Len(Kept(d)) /\ n' \in 0 .. BUFSIZE - 1
  BY KeptFits DEF Kept
<1>5. TypeOK'
  BY <1>1, <1>2, <1>3, <1>4 DEF TypeOK, MainPc
<1>6. Len(rcvd) = Len(handlers) /\ Len(heap) = Len(handlers) /\ Len(handlers) \in Nat
  BY <1>1 DEF Counts, TypeOK
<1>7. Counts' /\ InBuffer'
  BY <1>1, <1>2, <1>3, <1>4, <1>6 DEF Counts, InBuffer
<1>8. \A k \in 1 .. Len(handlers) : RightParams(k)' = RightParams(k)
  BY <1>2, <1>6 DEF RightParams
<1>9. handlers # <<>> => Len(handlers) \in 1 .. Len(handlers)
  BY <1>1 DEF TypeOK
<1>10. Slot'
  BY <1>1, <1>8, <1>9 DEF Slot
<1>11. Blocks' /\ Copied'
  BY <1>1, <1>2, <1>6 DEF Blocks, Copied
<1>12. AllHandlers'
  <2> SUFFICES ASSUME NEW k \in 1 .. Len(handlers), handlers[k].pc # "addr"
               PROVE  \E j \in k .. Len(rcvd') : handlers[k].arg.addr = rcvd'[j].addr
    BY <1>1 DEF AllHandlers, Answered
  <2>1. PICK j \in k .. Len(rcvd) : handlers[k].arg.addr = rcvd[j].addr
    BY <1>1 DEF AllHandlers
  <2> QED BY <1>2, <2>1
<1>13. PromptHandlers'
  BY <1>1, <1>2, <1>6, <1>8 DEF PromptHandlers, Copying
<1>14. CleanHandoff'
  BY <1>1, <1>2, <1>6 DEF CleanHandoff, Answered, Counts
<1> QED BY <1>5, <1>7, <1>10, <1>11, <1>12, <1>13, <1>14 DEF IInv

\* gethostbyaddr changes nothing, and neither does a failing call.
LEMMA LookupIInv == IInv /\ (Lookup \/ MainFails) => IInv'
<1> SUFFICES ASSUME IInv, Lookup \/ MainFails PROVE IInv'
  OBVIOUS
<1>1. /\ UNCHANGED <<buf, n, clientaddr, p, heap, left, handlers, rcvd, replies, raced>>
      /\ \/ pc = "lookup" /\ pc' = "addr"
         \/ pc' = "exited"
  BY DEF Lookup, MainFails
<1>2. TypeOK' /\ Counts' /\ InBuffer' /\ Slot' /\ Blocks' /\ Copied'
  BY <1>1 DEF IInv, TypeOK, MainPc, Counts, InBuffer, Slot, Blocks, Copied, RightParams
<1>3. AllHandlers' /\ CleanHandoff'
  BY <1>1 DEF IInv, AllHandlers, CleanHandoff, Answered
<1>4. PromptHandlers'
  BY <1>1 DEF IInv, PromptHandlers, Copying, RightParams
<1> QED BY <1>2, <1>3, <1>4 DEF IInv

\* main begins to fill p: from here on every handler still copying is late.
LEMMA SetAddrIInv == IInv /\ SetAddr => IInv'
<1> SUFFICES ASSUME IInv, SetAddr PROVE IInv'
  OBVIOUS
<1> USE DEF SetAddr
<1>1. TypeOK /\ Counts /\ Slot /\ InBuffer /\ Blocks /\ AllHandlers /\ PromptHandlers
      /\ CleanHandoff
  BY DEF IInv
<1>2. TypeOK'
  BY <1>1 DEF TypeOK, Params, MainPc
<1>3. raced \subseteq raced'
  OBVIOUS
<1>4. Counts' /\ InBuffer' /\ Slot' /\ Blocks' /\ Copied'
  BY <1>1, <1>3 DEF TypeOK, Params, Counts, InBuffer, Slot, Blocks, Copied
<1>5. AllHandlers' /\ CleanHandoff'
  BY <1>1, <1>3 DEF AllHandlers, CleanHandoff, Answered
<1>6. PromptHandlers'
  BY <1>1, <1>3 DEF PromptHandlers, Copying, RightParams
<1> QED BY <1>2, <1>4, <1>5, <1>6 DEF IInv

\* A new block is appended to the heap: the others stay.
LEMMA MallocIInv == IInv /\ Malloc => IInv'
<1> SUFFICES ASSUME IInv, Malloc PROVE IInv'
  OBVIOUS
<1> USE DEF Malloc, NewBlock
<1>1. TypeOK /\ Counts /\ Slot /\ InBuffer /\ Blocks /\ AllHandlers /\ PromptHandlers
      /\ CleanHandoff
  BY DEF IInv
<1>2. /\ heap' \in Seq(Buffer) /\ Len(heap') = Len(heap) + 1 /\ Len(heap) \in Nat
      /\ \A b \in 1 .. Len(heap) : heap'[b] = heap[b]
  BY <1>1, HeapAssumption DEF TypeOK
<1>3. Len(heap) = Len(handlers) /\ Len(rcvd) = Len(handlers) + 1 /\ Len(heap') <= MaxDatagrams
  BY <1>1, <1>2 DEF Counts, TypeOK
<1>4. TypeOK'
  <2>1. Len(heap') \in NoBlock .. MaxDatagrams
    BY <1>2, <1>3, BoundAssumption DEF NoBlock
  <2>2. left' \subseteq 1 .. BUFSIZE
    BY <1>1, LastIsCopied
  <2> HIDE DEF NewBlock
  <2>3. p' \in Params
    BY <1>1, <2>1 DEF TypeOK, Params, NewBlock
  <2> QED BY <1>1, <1>2, <1>3, <2>2, <2>3 DEF TypeOK, MainPc
<1>5. Counts' /\ InBuffer' /\ Slot'
  BY <1>1, <1>2, <1>3 DEF TypeOK, Params, Counts, InBuffer, Slot
<1>6. Blocks'
  <2>1. /\ pc' = "strcpy" /\ handlers' = handlers /\ rcvd' = rcvd /\ raced' = raced
        /\ \A b \in 1 .. Len(handlers) : b \in 1 .. Len(heap) /\ heap'[b] = heap[b]
    BY <1>2, <1>3
  <2> SUFFICES ASSUME NEW b \in 1 .. Len(handlers), raced \cap 1 .. b = {}
               PROVE  HoldsText(heap[b], Kept(rcvd[b].data))
    BY <2>1 DEF Blocks
  <2>2. b <= Len(handlers) /\ b \in 1 .. Len(heap)
    BY <2>1
  <2> QED BY <1>1, <2>2 DEF Blocks
<1>7. Copied'
  BY DEF Copied
<1>8. AllHandlers'
  BY <1>1, <1>2 DEF AllHandlers, Answered
<1>9. PromptHandlers' /\ CleanHandoff'
  BY <1>1 DEF PromptHandlers, CleanHandoff, Answered, Copying, RightParams
<1> QED BY <1>4, <1>5, <1>6, <1>7, <1>8, <1>9 DEF IInv

\* strcpy writes an octet of the new block, which no handler but a late one can
\* have; when it is through, the block is terminated, and it holds the text
\* unless a late handler has cut it.
LEMMA CopyOctetIInv ==
    ASSUME IInv, NEW j \in CopiedOctets(buf), CopyOctet(j)
    PROVE  IInv'
<1>1. TypeOK /\ Counts /\ Slot /\ InBuffer /\ Blocks /\ Copied /\ AllHandlers
      /\ PromptHandlers /\ CleanHandoff
  BY DEF IInv
<1> DEFINE b == Len(heap)
           new == [heap[b] EXCEPT ![j] = buf[j]]
<1>2. b = Len(heap) /\ p.blk = b /\ b = Len(rcvd) /\ b = Len(handlers) + 1 /\ b \in 1 .. Len(heap)
  BY <1>1 DEF CopyOctet, Slot, Counts, TypeOK
<1> HIDE DEF b
<1>3. /\ pc = "strcpy" /\ pc' \in {"strcpy", "n"} /\ (pc' = "n" => left' = {})
      /\ heap' = [heap EXCEPT ![b] = new] /\ left' = left \ {j}
      /\ UNCHANGED <<buf, n, clientaddr, p, handlers, rcvd, replies, raced>>
  BY <1>2 DEF CopyOctet, new
<1>4. /\ rcvd[b].data \in Payloads /\ HoldsText(buf, Kept(rcvd[b].data))
      /\ CopiedOctets(buf) \subseteq 1 .. BUFSIZE
      /\ StrLen(buf) + 1 \in CopiedOctets(buf) /\ buf[StrLen(buf) + 1] = NUL
  BY <1>1, <1>2, <1>3, LastIsCopied
<1>5. j \in 1 .. BUFSIZE /\ buf \in Buffer /\ heap[b] \in Buffer
  <2>1. heap \in Seq(Buffer) /\ buf \in Buffer
    BY <1>1 DEF TypeOK
  <2> QED BY <1>2, <1>4, <2>1, ElementOfSeq
<1>6. /\ new \in Buffer /\ new[j] = buf[j]
      /\ \A i \in 1 .. BUFSIZE : i # j => new[i] = heap[b][i]
  BY <1>5 DEF Buffer
<1> HIDE DEF new
<1>7. /\ heap' \in Seq(Buffer) /\ Len(heap') = Len(heap) /\ heap'[b] = new
      /\ \A c \in 1 .. Len(heap) : c # b => heap'[c] = heap[c]
  <2>1. heap \in Seq(Buffer) /\ b \in 1 .. Len(heap) /\ new \in Buffer
    BY <1>1, <1>2, <1>6 DEF TypeOK
  <2>2. heap' = [heap EXCEPT ![b] = new]
    BY <1>3
  <2> QED BY ONLY <2>1, <2>2, ExceptSeq
<1>8. TypeOK' /\ Counts' /\ InBuffer' /\ Slot'
  BY <1>1, <1>2, <1>3, <1>7 DEF TypeOK, MainPc, Counts, InBuffer, Slot
<1>9. \A i \in CopiedOctets(buf) \ left' :
          new[i] = buf[i] \/ (new[i] = NUL /\ raced \cap 1 .. b # {})
  <2> SUFFICES ASSUME NEW i \in CopiedOctets(buf) \ left', i # j
               PROVE  new[i] = buf[i] \/ (new[i] = NUL /\ raced \cap 1 .. b # {})
    BY <1>6
  <2>1. i \in CopiedOctets(buf) \ left /\ i \in 1 .. BUFSIZE
    BY <1>3, <1>4
  <2>2. heap[b][i] = buf[i] \/ (heap[b][i] = NUL /\ raced \cap 1 .. b # {})
    <3>1. Copied
      BY <1>1
    <3> QED BY <1>2, <1>3, <2>1, <3>1 DEF Copied
  <2>3. new[i] = heap[b][i]
    BY <1>6, <2>1
  <2> QED BY <2>2, <2>3
<1>10. Copied'
  <2>1. b = Len(heap') /\ CopiedOctets(buf)' = CopiedOctets(buf)
    BY <1>2, <1>3, <1>7 DEF CopiedOctets
  <2> QED BY <1>3, <1>7, <1>9, <2>1, ZenonT(40) DEF Copied
<1>11. pc' = "n" => IsTerminated(new)
  <2> SUFFICES ASSUME left' = {} PROVE IsTerminated(new)
    BY <1>3
  <2>1. new[StrLen(buf) + 1] = NUL
    BY <1>4, <1>9
  <2>2. Len(new) = BUFSIZE
    BY <1>6, BufferIsSeq
  <2> QED BY <1>4, <2>1, <2>2 DEF IsTerminated
<1>12. pc' = "n" /\ raced \cap 1 .. b = {} => HoldsText(new, Kept(rcvd[b].data))
  <2> SUFFICES ASSUME left' = {}, raced \cap 1 .. b = {}
               PROVE  HoldsText(new, Kept(rcvd[b].data))
    BY <1>3
  <2>1. \A i \in 1 .. StrLen(buf) + 1 : new[i] = buf[i]
    BY <1>9 DEF CopiedOctets
  <2>2. Kept(rcvd[b].data) \in Seq(Octet) /\ Len(Kept(rcvd[b].data)) < BUFSIZE
    BY <1>4, KeptFits, BufSizeAssumption
  <2> QED BY <1>4, <1>5, <1>6, <2>1, <2>2, StrcpyHolds, BufSizeAssumption DEF Buffer
<1>13. Blocks'
  <2> SUFFICES ASSUME NEW c \in 1 .. Len(heap), raced \cap 1 .. c = {},
                      c <= Len(handlers) \/ pc' = "n"
               PROVE  HoldsText(heap'[c], Kept(rcvd[c].data))
    <3>1. Len(heap') = Len(heap) /\ handlers' = handlers /\ rcvd' = rcvd /\ raced' = raced
          /\ pc' # "create"
      BY <1>3, <1>7
    <3> QED BY <3>1 DEF Blocks, Kept
  <2>1. CASE c = b
    BY <1>2, <1>7, <1>12, <2>1
  <2>2. CASE c # b
    <3>1. c <= Len(handlers) /\ Blocks
      BY <1>1, <1>2, <2>2
    <3>2. HoldsText(heap[c], Kept(rcvd[c].data))
      BY <3>1 DEF Blocks
    <3> QED BY <1>7, <2>2, <3>2
  <2> QED BY <2>1, <2>2
<1>14. AllHandlers'
  <2>1. ASSUME NEW k \in 1 .. Len(handlers), handlers[k].pc = "sleep",
               ~IsTerminated(heap'[handlers[k].arg.blk])
        PROVE  pc' = "strcpy" /\ handlers[k].arg.blk = b
    <3>1. AllHandlers /\ handlers[k].arg.blk \in 1 .. Len(heap)
      BY <1>1, <2>1 DEF AllHandlers
    <3>2. CASE handlers[k].arg.blk = b
      BY <1>3, <1>7, <1>11, <2>1, <3>2
    <3>3. CASE handlers[k].arg.blk # b
      <4>1. ~IsTerminated(heap[handlers[k].arg.blk]) /\ pc = "strcpy"
        BY <1>3, <1>7, <2>1, <3>1, <3>3
      <4> QED BY <1>2, <2>1, <3>1, <3>3, <4>1 DEF AllHandlers
    <3> QED BY <3>2, <3>3
  <2>2. b = Len(heap') /\ Answered' = Answered
    BY <1>2, <1>3, <1>7 DEF Answered
  <2> QED BY <1>1, <1>3, <1>7, <2>1, <2>2, ZenonT(40) DEF AllHandlers
<1>15. PromptHandlers' /\ CleanHandoff'
  BY <1>1, <1>3 DEF PromptHandlers, CleanHandoff, Answered, Copying, RightParams
<1> QED BY <1>8, <1>10, <1>13, <1>14, <1>15 DEF IInv

\* The last field of p.
LEMMA SetNIInv == IInv /\ SetN => IInv'
<1> SUFFICES ASSUME IInv, SetN PROVE IInv'
  OBVIOUS
<1> USE DEF SetN
<1>1. TypeOK' /\ Counts' /\ InBuffer' /\ Slot' /\ Blocks' /\ Copied'
  BY DEF IInv, TypeOK, Params, MainPc, Counts, InBuffer, Slot, Blocks, Copied
<1>2. AllHandlers' /\ CleanHandoff'
  BY DEF IInv, AllHandlers, CleanHandoff, Answered
<1>3. PromptHandlers'
  BY DEF IInv, PromptHandlers, Copying, RightParams
<1> QED BY <1>1, <1>2, <1>3 DEF IInv

\* A handler is created: its arguments are those in p.
LEMMA CreateIInv == IInv /\ Create => IInv'
<1> SUFFICES ASSUME IInv, Create PROVE IInv'
  OBVIOUS
<1> USE DEF Create
<1>1. TypeOK /\ Counts /\ Slot /\ InBuffer /\ Blocks /\ AllHandlers /\ PromptHandlers
      /\ CleanHandoff
  BY DEF IInv
<1> DEFINE k == Len(handlers) + 1
           new == [pc |-> "addr", arg |-> NoParams]
<1>2. k = Len(rcvd) /\ k = Len(heap) /\ Len(handlers) \in Nat /\ Len(replies) = Len(handlers)
  BY <1>1 DEF Counts, TypeOK
<1>3. new \in [pc : HandlerPc, arg : Params]
  BY BoundAssumption, BufSizeAssumption DEF HandlerPc, NoParams, Params, NoBlock
<1>4. /\ handlers' \in Seq([pc : HandlerPc, arg : Params])
      /\ Len(handlers') = k /\ handlers'[k] = new
      /\ \A j \in 1 .. Len(handlers) : handlers'[j] = handlers[j]
  BY <1>1, <1>3 DEF TypeOK
<1>5. /\ replies' \in Seq(Datagrams(Seq(Octet)) \union {NoReply})
      /\ Len(replies') = k /\ replies'[k] = NoReply
      /\ \A j \in 1 .. Len(handlers) : replies'[j] = replies[j]
  BY <1>1, <1>2 DEF TypeOK
<1>6. TypeOK'
  BY <1>1, <1>2, <1>4, <1>5 DEF TypeOK, MainPc
<1>7. Counts' /\ InBuffer' /\ Blocks' /\ Copied'
  BY <1>1, <1>2, <1>4, <1>5 DEF Counts, InBuffer, Blocks, Copied
<1>8. p = RightParams(k)
  BY <1>1, <1>2 DEF TypeOK, Params, Slot, RightParams
<1>9. Slot'
  BY <1>1, <1>4, <1>8 DEF Slot, RightParams
<1>10. Answered' = Answered
  BY <1>2, <1>4, <1>5 DEF Answered
<1>11. AllHandlers'
  BY <1>1, <1>2, <1>4, <1>5, <1>10 DEF AllHandlers, Answered
<1>12. PromptHandlers'
  BY <1>1, <1>2, <1>4 DEF PromptHandlers, Copying, RightParams
<1>13. CleanHandoff'
  BY <1>1, <1>2, <1>5, <1>10 DEF CleanHandoff, Answered
<1> QED BY <1>6, <1>7, <1>9, <1>11, <1>12, <1>13 DEF IInv
-----------------------------------------------------------------------------
\* The handlers.

\* A handler's step changes its own entry only.
LEMMA StepChanges ==
    ASSUME TypeOK, NEW k \in 1 .. Len(handlers), NEW from, NEW to \in HandlerPc,
           NEW arg \in Params, Step(k, from, to, arg)
    PROVE  /\ pc # "exited" /\ handlers[k].pc = from
           /\ handlers' \in Seq([pc : HandlerPc, arg : Params])
           /\ Len(handlers') = Len(handlers)
           /\ handlers'[k].pc = to /\ handlers'[k].arg = arg
           /\ \A j \in 1 .. Len(handlers) : j # k => handlers'[j] = handlers[j]
           /\ UNCHANGED <<buf, n, clientaddr, p, left, rcvd, raced>>
           /\ handlers[k].arg \in Params
<1> DEFINE new == [pc |-> to, arg |-> arg]
<1>1. new \in [pc : HandlerPc, arg : Params] /\ handlers \in Seq([pc : HandlerPc, arg : Params])
  BY DEF TypeOK
<1>2. handlers' = [handlers EXCEPT ![k] = new] /\ pc # "exited" /\ handlers[k].pc = from
      /\ UNCHANGED <<buf, n, clientaddr, p, left, rcvd, raced>>
  BY DEF Step
<1>3. /\ handlers' \in Seq([pc : HandlerPc, arg : Params])
      /\ Len(handlers') = Len(handlers) /\ handlers'[k] = new
      /\ \A j \in 1 .. Len(handlers) : j # k => handlers'[j] = handlers[j]
  BY <1>1, <1>2, ExceptSeq
<1>4. handlers[k] \in [pc : HandlerPc, arg : Params]
  BY <1>1, ElementOfSeq
<1> QED BY <1>2, <1>3, <1>4

\* What the steps that copy p have in common: nothing but the handler's own
\* entry changes.
LEMMA CopyKeeps ==
    ASSUME IInv, NEW k \in 1 .. Len(handlers), NEW from \in {"addr", "buf", "n"},
           NEW to \in HandlerPc, NEW arg \in Params, Step(k, from, to, arg),
           UNCHANGED <<pc, heap, replies>>
    PROVE  /\ TypeOK' /\ Counts' /\ InBuffer' /\ Slot' /\ Blocks' /\ Copied' /\ CleanHandoff'
           /\ Answered' = Answered /\ k \notin Answered
<1>1. TypeOK /\ Counts /\ Slot /\ InBuffer /\ Blocks /\ Copied /\ AllHandlers /\ CleanHandoff
  BY DEF IInv
<1>2. /\ handlers[k].pc = from
      /\ handlers' \in Seq([pc : HandlerPc, arg : Params])
      /\ Len(handlers') = Len(handlers)
      /\ UNCHANGED <<buf, n, clientaddr, p, left, rcvd, raced>>
  BY <1>1, StepChanges
<1>3. handlers # <<>> <=> handlers' # <<>>
  BY <1>1, <1>2, EmptySeq DEF TypeOK
<1>4. TypeOK' /\ Counts' /\ InBuffer' /\ Blocks' /\ Copied'
  BY <1>1, <1>2 DEF TypeOK, Counts, InBuffer, Blocks, Copied
<1>5. Slot'
  BY <1>1, <1>2, <1>3 DEF Slot, RightParams
<1>6. Answered' = Answered /\ k \notin Answered
  BY <1>1, <1>2 DEF Answered, AllHandlers
<1>7. CleanHandoff'
  BY <1>1, <1>2, <1>6 DEF CleanHandoff, Answered
<1> QED BY <1>4, <1>5, <1>6, <1>7

\* The address is copied: that of the datagram p was filled for, which is not
\* an earlier one.
LEMMA CopyAddrIInv ==
    ASSUME IInv, NEW k \in 1 .. Len(handlers), CopyAddr(k)
    PROVE  IInv'
<1> DEFINE arg == [handlers[k].arg EXCEPT !.addr = p.addr]
<1>1. TypeOK /\ Counts /\ Slot /\ AllHandlers /\ PromptHandlers
  BY DEF IInv
<1>2. handlers[k] \in [pc : HandlerPc, arg : Params] /\ p \in Params
  BY <1>1, ElementOfSeq DEF TypeOK
<1>3. arg \in Params /\ arg.addr = p.addr
  BY <1>2 DEF Params
<1> HIDE DEF arg
<1>4. Step(k, "addr", "buf", arg) /\ UNCHANGED <<pc, heap, replies>>
  BY DEF CopyAddr, arg
<1>5. "buf" \in HandlerPc
  BY DEF HandlerPc
<1>6. /\ TypeOK' /\ Counts' /\ InBuffer' /\ Slot' /\ Blocks' /\ Copied' /\ CleanHandoff'
      /\ Answered' = Answered /\ k \notin Answered
  BY <1>3, <1>4, <1>5, CopyKeeps
<1>7. /\ pc # "exited" /\ handlers[k].pc = "addr" /\ Len(handlers') = Len(handlers)
      /\ handlers'[k].pc = "buf" /\ handlers'[k].arg = arg
      /\ \A j \in 1 .. Len(handlers) : j # k => handlers'[j] = handlers[j]
      /\ UNCHANGED <<p, rcvd, raced>>
  BY <1>1, <1>3, <1>4, <1>5, StepChanges
<1>8. \E j \in k .. Len(rcvd) : p.addr = rcvd[j].addr
  <2>1. Len(handlers) \in 1 .. Len(rcvd) /\ Len(handlers) >= k /\ handlers # <<>>
    BY <1>1 DEF TypeOK, Counts
  <2>2. CASE pc \in {"recv", "lookup", "addr"}
    BY <1>1, <2>1, <2>2 DEF Slot, RightParams
  <2>3. CASE pc \in {"malloc", "strcpy", "n", "create"}
    BY <1>1, <2>1, <2>3 DEF Slot, TypeOK
  <2> QED BY <1>1, <1>7, <2>2, <2>3 DEF TypeOK, MainPc
<1>9. AllHandlers'
  BY <1>1, <1>3, <1>4, <1>6, <1>7, <1>8 DEF AllHandlers
<1>10. k \notin raced => p = RightParams(k)
  <2>1. k \notin raced => k = Len(handlers) /\ pc \in {"recv", "lookup", "addr"}
    BY <1>1, <1>7 DEF PromptHandlers, Copying
  <2>2. handlers # <<>>
    BY <1>1, EmptySeq DEF TypeOK
  <2> QED BY <1>1, <2>1, <2>2 DEF Slot
<1>11. PromptHandlers'
  BY <1>1, <1>3, <1>4, <1>7, <1>10 DEF PromptHandlers, Copying, RightParams
<1> QED BY <1>6, <1>9, <1>11 DEF IInv

\* The block is copied: p never points to one that is older.
LEMMA CopyBufIInv ==
    ASSUME IInv, NEW k \in 1 .. Len(handlers), CopyBuf(k)
    PROVE  IInv'
<1> DEFINE arg == [handlers[k].arg EXCEPT !.blk = p.blk]
<1>1. TypeOK /\ Counts /\ Slot /\ AllHandlers /\ PromptHandlers
  BY DEF IInv
<1>2. handlers[k] \in [pc : HandlerPc, arg : Params] /\ p \in Params
  BY <1>1, ElementOfSeq DEF TypeOK
<1>3. arg \in Params /\ arg.blk = p.blk /\ arg.addr = handlers[k].arg.addr
  BY <1>2 DEF Params
<1> HIDE DEF arg
<1>4. Step(k, "buf", "n", arg) /\ UNCHANGED <<pc, heap, replies>>
  BY DEF CopyBuf, arg
<1>5. "n" \in HandlerPc
  BY DEF HandlerPc
<1>6. /\ TypeOK' /\ Counts' /\ InBuffer' /\ Slot' /\ Blocks' /\ Copied' /\ CleanHandoff'
      /\ Answered' = Answered /\ k \notin Answered
  BY <1>3, <1>4, <1>5, CopyKeeps
<1>7. /\ pc # "exited" /\ handlers[k].pc = "buf" /\ Len(handlers') = Len(handlers)
      /\ handlers'[k].pc = "n" /\ handlers'[k].arg = arg
      /\ \A j \in 1 .. Len(handlers) : j # k => handlers'[j] = handlers[j]
      /\ UNCHANGED <<p, rcvd, raced>>
  BY <1>1, <1>3, <1>4, <1>5, StepChanges
<1>8. p.blk \in k .. Len(heap)
  BY <1>1 DEF Slot, Counts, TypeOK
<1>9. AllHandlers'
  BY <1>1, <1>3, <1>4, <1>6, <1>7, <1>8 DEF AllHandlers
<1>10. k \notin raced => p = RightParams(k)
  <2>1. k \notin raced => k = Len(handlers) /\ pc \in {"recv", "lookup", "addr"}
    BY <1>1, <1>7 DEF PromptHandlers, Copying
  <2>2. handlers # <<>>
    BY <1>1, EmptySeq DEF TypeOK
  <2> QED BY <1>1, <2>1, <2>2 DEF Slot
<1>11. PromptHandlers'
  BY <1>1, <1>3, <1>4, <1>7, <1>10 DEF PromptHandlers, Copying, RightParams
<1> QED BY <1>6, <1>9, <1>11 DEF IInv

\* The length is copied, and the copy is complete.
LEMMA CopyNIInv ==
    ASSUME IInv, NEW k \in 1 .. Len(handlers), CopyN(k)
    PROVE  IInv'
<1> DEFINE arg == [handlers[k].arg EXCEPT !.n = p.n]
<1>1. TypeOK /\ Counts /\ Slot /\ AllHandlers /\ PromptHandlers
  BY DEF IInv
<1>2. handlers[k] \in [pc : HandlerPc, arg : Params] /\ p \in Params
  BY <1>1, ElementOfSeq DEF TypeOK
<1>3. /\ arg \in Params
      /\ arg = [addr |-> handlers[k].arg.addr, blk |-> handlers[k].arg.blk, n |-> p.n]
  BY <1>2 DEF Params
<1> HIDE DEF arg
<1>4. Step(k, "n", "terminate", arg) /\ UNCHANGED <<pc, heap, replies>>
  BY DEF CopyN, arg
<1>5. "terminate" \in HandlerPc
  BY DEF HandlerPc
<1>6. /\ TypeOK' /\ Counts' /\ InBuffer' /\ Slot' /\ Blocks' /\ Copied' /\ CleanHandoff'
      /\ Answered' = Answered /\ k \notin Answered
  BY <1>3, <1>4, <1>5, CopyKeeps
<1>7. /\ pc # "exited" /\ handlers[k].pc = "n" /\ Len(handlers') = Len(handlers)
      /\ handlers'[k].pc = "terminate" /\ handlers'[k].arg = arg
      /\ \A j \in 1 .. Len(handlers) : j # k => handlers'[j] = handlers[j]
      /\ UNCHANGED <<p, rcvd, raced>>
  BY <1>1, <1>3, <1>4, <1>5, StepChanges
<1>8. AllHandlers'
  BY <1>1, <1>3, <1>4, <1>6, <1>7 DEF AllHandlers
<1>9. k \notin raced => p = RightParams(k)
  <2>1. k \notin raced => k = Len(handlers) /\ pc \in {"recv", "lookup", "addr"}
    BY <1>1, <1>7 DEF PromptHandlers, Copying
  <2>2. handlers # <<>>
    BY <1>1, EmptySeq DEF TypeOK
  <2> QED BY <1>1, <2>1, <2>2 DEF Slot
<1>10. k \notin raced => arg = RightParams(k)
  BY <1>1, <1>3, <1>7, <1>9 DEF PromptHandlers, RightParams
<1>11. PromptHandlers'
  BY <1>1, <1>3, <1>4, <1>7, <1>10 DEF PromptHandlers, Copying, RightParams
<1> QED BY <1>6, <1>8, <1>11 DEF IInv
\* buf[n] = '\0': the block of a datagram whose handler and its predecessors
\* are prompt is terminated by its own handler only, behind its text.
LEMMA TerminateIInv ==
    ASSUME IInv, NEW k \in 1 .. Len(handlers), TerminateText(k)
    PROVE  IInv'
<1> DEFINE arg == handlers[k].arg
           new == Terminate(heap[arg.blk], arg.n)
<1> HIDE DEF arg
<1>1. TypeOK /\ Counts /\ Slot /\ InBuffer /\ Blocks /\ Copied /\ AllHandlers
      /\ PromptHandlers /\ CleanHandoff
  BY DEF IInv
<1>2. handlers[k] \in [pc : HandlerPc, arg : Params]
  BY <1>1, ElementOfSeq DEF TypeOK
<1>3. arg \in Params /\ "sleep" \in HandlerPc
  BY <1>2 DEF HandlerPc, arg
<1>4. /\ Step(k, "terminate", "sleep", arg) /\ UNCHANGED <<pc, replies>>
      /\ heap' = [heap EXCEPT ![arg.blk] = new]
  BY DEF TerminateText, arg
<1>5. /\ pc # "exited" /\ handlers[k].pc = "terminate"
      /\ handlers' \in Seq([pc : HandlerPc, arg : Params])
      /\ Len(handlers') = Len(handlers)
      /\ handlers'[k].pc = "sleep" /\ handlers'[k].arg = arg
      /\ \A j \in 1 .. Len(handlers) : j # k => handlers'[j] = handlers[j]
      /\ UNCHANGED <<buf, n, clientaddr, p, left, rcvd, raced>>
  BY <1>1, <1>3, <1>4, StepChanges
<1>6. arg.blk \in k .. Len(heap) /\ arg.blk \in 1 .. Len(heap) /\ arg.n \in 0 .. BUFSIZE - 1
  <2>1. arg.blk \in k .. Len(heap)
    BY <1>1, <1>5 DEF AllHandlers, arg
  <2>2. arg.n \in 0 .. BUFSIZE - 1
    BY <1>3 DEF Params
  <2> QED BY <2>1, <2>2
<1>7. heap[arg.blk] \in Buffer
  BY <1>1, <1>6, ElementOfSeq DEF TypeOK
<1>8. new \in Buffer /\ IsTerminated(new)
  BY <1>6, <1>7, BufSizeAssumption, TerminateType DEF Buffer
<1>cut. \A i \in 1 .. BUFSIZE : new[i] = heap[arg.blk][i] \/ new[i] = NUL
  BY <1>7 DEF Terminate, Buffer, new
<1> HIDE DEF new
<1>9. /\ heap' \in Seq(Buffer) /\ Len(heap') = Len(heap) /\ heap'[arg.blk] = new
      /\ \A b \in 1 .. Len(heap) : b # arg.blk => heap'[b] = heap[b]
  <2>1. heap \in Seq(Buffer) /\ arg.blk \in 1 .. Len(heap) /\ new \in Buffer
    BY <1>1, <1>6, <1>8 DEF TypeOK
  <2>2. heap' = [heap EXCEPT ![arg.blk] = new]
    BY <1>4
  <2> QED BY ONLY <2>1, <2>2, ExceptSeq
<1>10. handlers # <<>> <=> handlers' # <<>>
  BY <1>1, <1>5, EmptySeq DEF TypeOK
<1>11. TypeOK' /\ Counts' /\ InBuffer' /\ Slot'
  BY <1>1, <1>4, <1>5, <1>9, <1>10 DEF TypeOK, Counts, InBuffer, Slot, RightParams
<1>12. Blocks'
  <2> SUFFICES ASSUME NEW b \in 1 .. Len(heap), raced \cap 1 .. b = {},
                      b <= Len(handlers) \/ pc \in {"n", "create"}
               PROVE  HoldsText(heap'[b], Kept(rcvd[b].data))
    BY <1>4, <1>5, <1>9 DEF Blocks
  <2>1. HoldsText(heap[b], Kept(rcvd[b].data))
    BY <1>1 DEF Blocks
  <2>2. CASE b # arg.blk
    BY <1>9, <2>1, <2>2
  <2>3. CASE b = arg.blk
    <3>1. k \notin raced
      BY <1>6, <2>3
    <3>2. b = k /\ arg.n = Len(Kept(rcvd[b].data))
      <4>1. arg = RightParams(k)
        BY <1>1, <1>5, <3>1 DEF PromptHandlers, Copying, arg
      <4> QED BY <2>3, <4>1 DEF RightParams
    <3>3. rcvd[b] \in Datagrams(Payloads)
      <4>1. rcvd \in Seq(Datagrams(Payloads)) /\ b \in 1 .. Len(rcvd)
        BY <1>1 DEF TypeOK, Counts
      <4> QED BY <4>1, ElementOfSeq
    <3>4. Kept(rcvd[b].data) \in Seq(Octet) /\ Len(Kept(rcvd[b].data)) < BUFSIZE
      BY <3>3, KeptFits, BufSizeAssumption DEF Datagrams
    <3>5. HoldsText(new, Kept(rcvd[b].data))
      BY <1>7, <2>1, <2>3, <3>2, <3>4, TerminateHolds, BufSizeAssumption DEF Buffer, new
    <3> QED BY <1>9, <2>3, <3>5
  <2> QED BY <2>2, <2>3
<1>13. Answered' = Answered /\ k \notin Answered
  BY <1>1, <1>4, <1>5 DEF Answered, AllHandlers
<1>14. AllHandlers'
  <2>1. ASSUME NEW j \in 1 .. Len(handlers), handlers'[j].pc = "sleep",
               ~IsTerminated(heap'[handlers'[j].arg.blk])
        PROVE  pc = "strcpy" /\ handlers'[j].arg.blk = Len(heap)
    <3>1. j # k /\ handlers'[j] = handlers[j]
      BY <1>5, <1>8, <1>9, <2>1
    <3>2. handlers[j].arg.blk \in 1 .. Len(heap)
      BY <1>1, <2>1, <3>1 DEF AllHandlers
    <3>3. ~IsTerminated(heap[handlers[j].arg.blk])
      BY <1>8, <1>9, <2>1, <3>1, <3>2
    <3> QED BY <1>1, <1>5, <2>1, <3>1, <3>3 DEF AllHandlers
  <2>2. ASSUME NEW j \in 1 .. Len(handlers)
        PROVE  /\ handlers'[j].arg = handlers[j].arg
               /\ handlers'[j].pc # "addr" => handlers[j].pc # "addr"
               /\ handlers'[j].pc \notin {"addr", "buf"} => handlers[j].pc \notin {"addr", "buf"}
               /\ j \in Answered => handlers'[j].pc = handlers[j].pc
    BY <1>5, <1>13 DEF arg
  <2> QED BY <1>1, <1>4, <1>5, <1>9, <1>13, <2>1, <2>2 DEF AllHandlers
<1>copied. Copied'
  <2> SUFFICES ASSUME pc = "strcpy", NEW i \in CopiedOctets(buf) \ left
               PROVE  \/ heap'[Len(heap)][i] = buf[i]
                      \/ heap'[Len(heap)][i] = NUL /\ raced \cap 1 .. Len(heap) # {}
    BY <1>4, <1>5, <1>9 DEF Copied
  <2>1. Len(heap) = Len(handlers) + 1 /\ Len(heap) \in 1 .. Len(heap)
    BY <1>1 DEF Counts, TypeOK
  <2>2. \/ heap[Len(heap)][i] = buf[i]
        \/ heap[Len(heap)][i] = NUL /\ raced \cap 1 .. Len(heap) # {}
    BY <1>1 DEF Copied
  <2>3. CASE arg.blk # Len(heap)
    BY <1>9, <2>1, <2>2, <2>3
  <2>4. CASE arg.blk = Len(heap)
    <3>1. k \in raced
      <4> SUFFICES ASSUME k \notin raced PROVE FALSE
        OBVIOUS
      <4>1. arg.blk = k
        BY <1>1, <1>5 DEF PromptHandlers, arg
      <4> QED BY <2>1, <2>4, <4>1
    <3>2. k \in 1 .. Len(heap)
      BY <2>1
    <3>3. i \in 1 .. BUFSIZE
      BY <1>1, LastIsCopied
    <3> QED BY <1>cut, <1>9, <2>2, <2>4, <3>1, <3>2, <3>3
  <2> QED BY <2>3, <2>4
<1>15. PromptHandlers'
  BY <1>1, <1>4, <1>5 DEF PromptHandlers, Copying, RightParams, arg
<1>16. CleanHandoff'
  BY <1>1, <1>4, <1>5, <1>13 DEF CleanHandoff, Answered
<1> QED BY <1>11, <1>12, <1>14, <1>15, <1>16, <1>copied DEF IInv

\* The reply of a handler that was prompt, like those before it, is the echo.
LEMMA SendReplyIInv ==
    ASSUME IInv, NEW k \in 1 .. Len(handlers), SendReply(k)
    PROVE  IInv'
<1> DEFINE arg == handlers[k].arg
           text(behind) == Text(heap[arg.blk], behind)
<1> HIDE DEF arg
<1>1. TypeOK /\ Counts /\ Slot /\ InBuffer /\ Blocks /\ Copied /\ AllHandlers
      /\ PromptHandlers /\ CleanHandoff
  BY DEF IInv
<1>2. handlers[k] \in [pc : HandlerPc, arg : Params]
  BY <1>1, ElementOfSeq DEF TypeOK
<1>3. arg \in Params /\ "done" \in HandlerPc
  BY <1>2 DEF HandlerPc, arg
<1>sent. PICK behind \in HeapContents :
          /\ Step(k, "sleep", "done", arg) /\ UNCHANGED <<pc, heap>>
          /\ replies' = [replies EXCEPT ![k] = [addr |-> arg.addr, data |-> text(behind)]]
  BY DEF SendReply, ReplyAddr, arg
<1> DEFINE reply == [addr |-> arg.addr, data |-> text(behind)]
<1>4. /\ Step(k, "sleep", "done", arg) /\ UNCHANGED <<pc, heap>>
      /\ replies' = [replies EXCEPT ![k] = reply]
  BY <1>sent
<1>5. /\ pc # "exited" /\ handlers[k].pc = "sleep"
      /\ handlers' \in Seq([pc : HandlerPc, arg : Params])
      /\ Len(handlers') = Len(handlers)
      /\ handlers'[k].pc = "done" /\ handlers'[k].arg = arg
      /\ \A j \in 1 .. Len(handlers) : j # k => handlers'[j] = handlers[j]
      /\ UNCHANGED <<buf, n, clientaddr, p, left, rcvd, raced>>
  BY <1>1, <1>3, <1>4, StepChanges
<1>6. arg.blk \in k .. Len(heap) /\ arg.blk \in 1 .. Len(heap)
  BY <1>1, <1>5 DEF AllHandlers, arg
<1>7. heap[arg.blk] \in Buffer
  BY <1>1, <1>6, ElementOfSeq DEF TypeOK
<1>8. text(behind) \in Seq(Octet)
  <2>1. heap[arg.blk] \in Seq(Octet) /\ behind \in Seq(Octet)
    BY <1>7, BufferIsSeq, HeapAssumption
  <2>2. heap[arg.blk] \o behind \in Seq(Octet)
    BY <2>1, TextsJoin
  <2> QED BY <2>1, <2>2, StrLenType DEF Text
<1>9. rcvd \in Seq(Datagrams(Payloads)) /\ k \in 1 .. Len(rcvd)
  BY <1>1 DEF TypeOK, Counts
<1>10. \A j \in 1 .. Len(rcvd) : rcvd[j].addr \in Addrs /\ rcvd[j].data \in Payloads
  <2>1. \A j \in 1 .. Len(rcvd) : rcvd[j] \in Datagrams(Payloads)
    BY <1>9, ElementOfSeq
  <2> QED BY <2>1 DEF Datagrams
<1>11. arg.addr \in Addrs
  BY <1>1, <1>5, <1>9, <1>10 DEF AllHandlers, arg
<1>12. reply \in Datagrams(Seq(Octet)) \union {NoReply} /\ reply # NoReply
  BY <1>8, <1>11, AddrsAssumption DEF Datagrams, NoReply
<1>13. reply.addr = arg.addr
  OBVIOUS
<1>14. k \notin raced /\ raced \cap 1 .. k = {} => reply = Echo(rcvd[k])
  <2> SUFFICES ASSUME k \notin raced, raced \cap 1 .. k = {} PROVE reply = Echo(rcvd[k])
    OBVIOUS
  <2>1. arg.blk = k /\ arg.addr = rcvd[k].addr
    BY <1>1, <1>5 DEF PromptHandlers, Copying, RightParams, arg
  <2>2. HoldsText(heap[k], Kept(rcvd[k].data))
    BY <1>1, <1>6, <2>1 DEF Blocks
  <2>3. CStr(heap[k]) = CStr(Kept(rcvd[k].data)) /\ IsTerminated(heap[k])
    BY <1>7, <1>9, <1>10, <2>1, <2>2, HeldKept
  <2> QED BY <2>1, <2>3 DEF Echo, Kept, Text
<1> HIDE DEF reply
<1>15. /\ replies' \in Seq(Datagrams(Seq(Octet)) \union {NoReply})
       /\ Len(replies') = Len(replies) /\ replies'[k] = reply
       /\ \A j \in 1 .. Len(replies) : j # k => replies'[j] = replies[j]
  BY <1>1, <1>4, <1>12, ExceptSeq DEF TypeOK, Counts
<1>16. handlers # <<>> <=> handlers' # <<>>
  BY <1>1, <1>5, EmptySeq DEF TypeOK
<1>17. TypeOK' /\ Counts' /\ InBuffer' /\ Slot' /\ Blocks' /\ Copied'
  BY <1>1, <1>4, <1>5, <1>15, <1>16
     DEF TypeOK, Counts, InBuffer, Slot, Blocks, Copied, RightParams
<1>18. Answered' = Answered \union {k}
  BY <1>1, <1>12, <1>15 DEF Answered, Counts
<1>19. AllHandlers'
  <2>1. ASSUME NEW j \in 1 .. Len(handlers)
        PROVE  /\ handlers'[j].arg = handlers[j].arg
               /\ handlers'[j].pc # "addr" => handlers[j].pc # "addr"
               /\ handlers'[j].pc \notin {"addr", "buf"} => handlers[j].pc \notin {"addr", "buf"}
               /\ handlers'[j].pc = "sleep" => handlers[j].pc = "sleep"
    BY <1>5 DEF arg
  <2>2. ASSUME NEW j \in 1 .. Len(handlers), j \in Answered'
        PROVE  handlers'[j].pc = "done" /\ replies'[j].addr = handlers'[j].arg.addr
    BY <1>1, <1>5, <1>13, <1>15, <1>18, <2>2 DEF AllHandlers, Counts
  <2> QED BY <1>1, <1>4, <1>5, <2>1, <2>2 DEF AllHandlers
<1>20. PromptHandlers'
  BY <1>1, <1>4, <1>5 DEF PromptHandlers, Copying, RightParams, arg
<1>21. CleanHandoff'
  <2>1. ASSUME NEW j \in Answered', raced \cap 1 .. j = {}
        PROVE  replies'[j] = Echo(rcvd[j])
    <3>1. CASE j = k
      BY <1>9, <1>14, <1>15, <2>1, <3>1
    <3>2. CASE j # k
      BY <1>1, <1>15, <1>18, <2>1, <3>2 DEF CleanHandoff, Answered
    <3> QED BY <3>1, <3>2
  <2> QED BY <1>5, <2>1 DEF CleanHandoff, Echo
<1> QED BY <1>17, <1>19, <1>20, <1>21 DEF IInv

\* A failing sendto ends the process and leaves everything as it is.
LEMMA SendFailsIInv ==
    ASSUME IInv, NEW k \in 1 .. Len(handlers), SendFails(k)
    PROVE  IInv'
<1>1. TypeOK
  BY DEF IInv
<1>2. handlers[k] \in [pc : HandlerPc, arg : Params]
  BY <1>1, ElementOfSeq DEF TypeOK
<1>3. /\ pc' = "exited" /\ UNCHANGED <<heap, replies>>
      /\ Step(k, "sleep", "sleep", handlers[k].arg)
  BY DEF SendFails
<1>4. handlers' = handlers /\ UNCHANGED <<buf, n, clientaddr, p, left, rcvd, raced>>
  BY <1>1, <1>2, <1>3 DEF Step, TypeOK
<1>5. TypeOK' /\ Counts' /\ InBuffer' /\ Slot' /\ Blocks' /\ Copied'
  BY <1>3, <1>4 DEF IInv, TypeOK, MainPc, Counts, InBuffer, Slot, Blocks, Copied
<1>6. AllHandlers' /\ CleanHandoff'
  BY <1>3, <1>4 DEF IInv, AllHandlers, CleanHandoff, Answered
<1>7. PromptHandlers'
  BY <1>3, <1>4 DEF IInv, PromptHandlers, Copying, RightParams
<1> QED BY <1>5, <1>6, <1>7 DEF IInv

\* Every step preserves the invariant.
LEMMA StepIInv == IInv /\ [Next]_vars => IInv'
<1>1. IInv /\ UNCHANGED vars => IInv'
  <2> SUFFICES ASSUME IInv, UNCHANGED vars PROVE IInv'
    OBVIOUS
  <2>1. TypeOK' /\ Counts' /\ InBuffer' /\ Slot' /\ Blocks' /\ Copied'
    BY DEF vars, IInv, TypeOK, Counts, InBuffer, Slot, Blocks, Copied, RightParams
  <2>2. AllHandlers' /\ CleanHandoff' /\ PromptHandlers'
    BY DEF vars, IInv, AllHandlers, CleanHandoff, Answered, PromptHandlers, Copying,
           RightParams
  <2> QED BY <2>1, <2>2 DEF IInv
<1>2. IInv /\ Main => IInv'
  BY RecvIInv, LookupIInv, SetAddrIInv, MallocIInv, CopyOctetIInv, SetNIInv, CreateIInv
     DEF Main
<1>3. ASSUME IInv, NEW k \in 1 .. Len(handlers), Handler(k)
      PROVE  IInv'
  BY <1>3, CopyAddrIInv, CopyBufIInv, CopyNIInv, TerminateIInv, SendReplyIInv,
     SendFailsIInv DEF Handler
<1> QED BY <1>1, <1>2, <1>3 DEF Next

-----------------------------------------------------------------------------
\* Torn arguments.

\* A handler that has copied a block's address took its client's address from p
\* before that: from a datagram no later than the one after the block's.
Paired ==
    \A k \in 1 .. Len(handlers) :
        LET h == handlers[k]
        IN  h.pc \notin {"addr", "buf"} =>
                \E j \in k .. Len(rcvd) :
                    j <= h.arg.blk + 1 /\ h.arg.addr = rcvd[j].addr

\* A handler beyond its first two copies has just copied the block that p holds,
\* or has had it before, and its client's address for longer.
HasBlock(k) ==
    handlers'[k].pc \notin {"addr", "buf"} =>
        /\ k \in 1 .. Len(handlers)
        /\ handlers'[k].arg.addr = handlers[k].arg.addr
        /\ \/ /\ handlers[k].pc \notin {"addr", "buf"}
              /\ handlers'[k].arg.blk = handlers[k].arg.blk
           \/ /\ handlers[k].pc = "buf" /\ pc # "exited"
              /\ handlers'[k].arg.blk = Len(heap)

\* main gives nobody a block: a new handler has copied nothing.
LEMMA MainGivesNoBlock ==
    ASSUME IInv, Main
    PROVE  /\ \A k \in 1 .. Len(handlers') : HasBlock(k)
           /\ Len(rcvd) <= Len(rcvd')
           /\ \A j \in 1 .. Len(rcvd) : rcvd'[j] = rcvd[j]
<1>1. TypeOK
  BY DEF IInv
<1>2. CASE \E a \in Addrs, d \in Payloads : Recv(a, d)
  <2>1. PICK a \in Addrs, d \in Payloads : Recv(a, d)
    BY <1>2
  <2>2. handlers' = handlers /\ rcvd' = Append(rcvd, [addr |-> a, data |-> d])
    BY <2>1 DEF Recv
  <2> QED BY <1>1, <2>2 DEF TypeOK, HasBlock
<1>3. CASE Create
  <2>1. rcvd' = rcvd /\ handlers' = Append(handlers, [pc |-> "addr", arg |-> NoParams])
    BY <1>3 DEF Create
  <2>2. /\ Len(handlers') = Len(handlers) + 1
        /\ handlers'[Len(handlers) + 1].pc = "addr"
        /\ \A k \in 1 .. Len(handlers) : handlers'[k] = handlers[k]
    BY <1>1, <2>1 DEF TypeOK
  <2>3. Len(handlers) \in Nat /\ Len(rcvd) \in Nat
    BY <1>1 DEF TypeOK
  <2> QED BY <2>1, <2>2, <2>3 DEF HasBlock
<1>4. CASE \/ Lookup \/ SetAddr \/ Malloc \/ SetN \/ MainFails
           \/ \E j \in CopiedOctets(buf) : CopyOctet(j)
  <2>1. UNCHANGED <<handlers, rcvd>>
    BY <1>4 DEF Lookup, SetAddr, Malloc, CopyOctet, SetN, MainFails
  <2> QED BY <1>1, <2>1 DEF TypeOK, HasBlock
<1> QED BY <1>2, <1>3, <1>4 DEF Main

\* A handler's step changes the pair of its own block and address only by the
\* copies.
LEMMA HandlerCopiesBlock ==
    ASSUME IInv, NEW k \in 1 .. Len(handlers), Handler(k)
    PROVE  rcvd' = rcvd /\ \A i \in 1 .. Len(handlers') : HasBlock(i)
<1>1. TypeOK /\ p.blk = Len(heap)
  BY DEF IInv, Slot
<1>2. handlers[k] \in [pc : HandlerPc, arg : Params] /\ p \in Params
  BY <1>1, ElementOfSeq DEF TypeOK
<1>3. PICK from \in HandlerPc, to \in HandlerPc, arg \in Params :
          /\ Step(k, from, to, arg)
          /\ \/ to = "buf"
             \/ from = "buf" /\ arg.addr = handlers[k].arg.addr /\ arg.blk = p.blk
             \/ /\ from \notin {"addr", "buf"}
                /\ arg.addr = handlers[k].arg.addr /\ arg.blk = handlers[k].arg.blk
  <2>1. CASE CopyAddr(k)
    <3>1. [handlers[k].arg EXCEPT !.addr = p.addr] \in Params
      BY <1>2 DEF Params
    <3> QED BY <2>1, <3>1 DEF CopyAddr, HandlerPc
  <2>2. CASE CopyBuf(k)
    <3> DEFINE arg == [handlers[k].arg EXCEPT !.blk = p.blk]
    <3>1. arg \in Params /\ arg.addr = handlers[k].arg.addr /\ arg.blk = p.blk
      BY <1>2 DEF Params
    <3>2. Step(k, "buf", "n", arg)
      BY <2>2 DEF CopyBuf
    <3> HIDE DEF arg
    <3> QED BY <3>1, <3>2 DEF HandlerPc
  <2>3. CASE CopyN(k)
    <3> DEFINE arg == [handlers[k].arg EXCEPT !.n = p.n]
    <3>1. /\ arg \in Params
          /\ arg.addr = handlers[k].arg.addr /\ arg.blk = handlers[k].arg.blk
      BY <1>2 DEF Params
    <3>2. Step(k, "n", "terminate", arg)
      BY <2>3 DEF CopyN
    <3> HIDE DEF arg
    <3> QED BY <3>1, <3>2 DEF HandlerPc
  <2>4. CASE TerminateText(k) \/ SendReply(k) \/ SendFails(k)
    BY <1>2, <2>4 DEF TerminateText, SendReply, SendFails, HandlerPc
  <2> QED BY <2>1, <2>2, <2>3, <2>4 DEF Handler
<1>4. /\ pc # "exited" /\ handlers[k].pc = from /\ Len(handlers') = Len(handlers)
      /\ handlers'[k].pc = to /\ handlers'[k].arg = arg
      /\ \A j \in 1 .. Len(handlers) : j # k => handlers'[j] = handlers[j]
      /\ rcvd' = rcvd
  BY <1>1, <1>3, StepChanges
<1> QED BY <1>1, <1>3, <1>4 DEF HasBlock

\* The pairs stay: what p holds when a block is copied is at most one datagram
\* older than the address that could be copied before.
LEMMA StepPaired == IInv /\ Paired /\ [Next]_vars => Paired'
<1> SUFFICES ASSUME IInv, Paired, Next PROVE Paired'
  BY DEF Paired, vars
<1>1. /\ \A k \in 1 .. Len(handlers') : HasBlock(k)
      /\ Len(rcvd) <= Len(rcvd')
      /\ \A j \in 1 .. Len(rcvd) : rcvd'[j] = rcvd[j]
  <2>1. Len(rcvd) \in Nat
    BY DEF IInv, TypeOK
  <2> QED BY <2>1, MainGivesNoBlock, HandlerCopiesBlock DEF Next
<1>2. Len(rcvd) \in Nat /\ Len(rcvd') \in Nat /\ Len(heap) \in Nat
  <2>1. rcvd' \in Seq(Datagrams(Payloads))
    BY StepIInv DEF IInv, TypeOK
  <2> QED BY <2>1 DEF IInv, TypeOK
<1> SUFFICES ASSUME NEW k \in 1 .. Len(handlers'),
                    handlers'[k].pc \notin {"addr", "buf"}
             PROVE  \E j \in k .. Len(rcvd') :
                        /\ j <= handlers'[k].arg.blk + 1
                        /\ handlers'[k].arg.addr = rcvd'[j].addr
  BY DEF Paired
<1>3. k \in 1 .. Len(handlers) /\ handlers'[k].arg.addr = handlers[k].arg.addr
  BY <1>1 DEF HasBlock
<1>4. \E j \in k .. Len(rcvd) :
          j <= handlers'[k].arg.blk + 1 /\ handlers[k].arg.addr = rcvd[j].addr
  <2>1. CASE /\ handlers[k].pc \notin {"addr", "buf"}
             /\ handlers'[k].arg.blk = handlers[k].arg.blk
    BY <1>3, <2>1 DEF Paired
  <2>2. CASE /\ handlers[k].pc = "buf" /\ pc # "exited"
             /\ handlers'[k].arg.blk = Len(heap)
    <3>1. PICK j \in k .. Len(rcvd) : handlers[k].arg.addr = rcvd[j].addr
      BY <1>3, <2>2 DEF IInv, AllHandlers
    <3>2. Len(rcvd) <= Len(heap) + 1
      BY <1>2, <2>2 DEF IInv, Counts, TypeOK, MainPc
    <3> QED BY <1>2, <2>2, <3>1, <3>2
  <2> QED BY <1>1, <2>1, <2>2 DEF HasBlock
<1> QED BY <1>1, <1>2, <1>3, <1>4

-----------------------------------------------------------------------------
\* The theorems.

\* The invariant holds from the start and every step preserves it.
THEOREM Invariant == Spec => []IInv
<1> QED BY InitIInv, StepIInv, PTL DEF Spec

\* The shape of the state: in particular every length a handler terminates at
\* is inside its block.
THEOREM TypeCorrect == Spec => []TypeOK
<1>1. IInv => TypeOK
  BY DEF IInv
<1> QED BY <1>1, Invariant, PTL

\* Prompt handlers echo (server.c:112-121 against 37-46), for any number of
\* threads, any texts and any heap.
THEOREM PromptHandlersEcho == Spec => []CleanHandoff
<1>1. IInv => CleanHandoff
  BY DEF IInv
<1> QED BY <1>1, Invariant, PTL

\* Late handlers never fall back to an earlier client.
THEOREM NoEarlierClient == Spec => []NeverAnEarlierClient
<1>1. IInv => NeverAnEarlierClient
  BY DEF IInv, AllHandlers, NeverAnEarlierClient, Answered, TypeOK, Counts
<1> QED BY <1>1, Invariant, PTL

\* However torn a handler's arguments are (server.c:37-40 against 112-119), its
\* reply pairs a block with a client no later than the one after the block's.
THEOREM AtMostOneLater == Spec => []AddressNotAfterBlock
<1>1. Init => Paired
  BY DEF Init, Paired
<1>2. IInv /\ Paired => AddressNotAfterBlock
  BY DEF IInv, AllHandlers, Counts, TypeOK, Paired, AddressNotAfterBlock, Answered
<1> QED BY <1>1, <1>2, StepPaired, Invariant, PTL DEF Spec

\* strlen in a handler leaves its block (server.c:46) only if the handler is late
\* and main is copying the block's text (116-117).
THEOREM TerminatedText == Spec => []UnterminatedOnlyInCopy
<1>1. IInv => UnterminatedOnlyInCopy
  <2> SUFFICES ASSUME IInv, NEW k \in 1 .. Len(handlers), pc # "exited",
                      handlers[k].pc = "sleep", ~IsTerminated(heap[handlers[k].arg.blk])
               PROVE  k \in raced /\ pc = "strcpy" /\ p.blk = handlers[k].arg.blk
    BY DEF UnterminatedOnlyInCopy
  <2>1. pc = "strcpy" /\ handlers[k].arg.blk = Len(heap)
    BY DEF IInv, AllHandlers
  <2>2. p.blk = Len(heap) /\ Len(heap) = Len(handlers) + 1 /\ Len(handlers) \in Nat
    BY <2>1 DEF IInv, Slot, Counts, TypeOK
  <2>3. k \notin raced => handlers[k].arg.blk = k
    BY DEF IInv, PromptHandlers
  <2> QED BY <2>1, <2>2, <2>3
<1> QED BY <1>1, Invariant, PTL
=============================================================================

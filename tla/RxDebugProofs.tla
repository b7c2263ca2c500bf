--------------------------- MODULE RxDebugProofs ---------------------------
(***************************************************************************)
(* Proofs about the packet dump and the packet capture.  The capture is    *)
(* for any number of lcores that receive on the port, the dump for one:    *)
(* nothing else keeps two lcores from the same entry of dump_list.         *)
(***************************************************************************)
EXTENDS RxDebug, SequenceTheorems, FiniteSetTheorems, TLAPS

(***************************************************************************)
(* The lcores.                                                             *)
(***************************************************************************)
Copying == {"free", "alloc", "copy"}

Places == {"idle"} \cup InDump \cup InCapture

LcoreInv ==
  /\ pc \in [Lcores -> {"idle"} \cup InDump \cup InCapture]
  /\ burst \in [Lcores -> Seq(Packets)]
  /\ i \in [Lcores -> Nat \ {0}]
  /\ next \in Nat \ {0}
  /\ mpc \in MasterPc
  /\ \A l \in Lcores : pc[l] \in {"count", "room", "flag", "lcore", "full"} => i[l] = 1

(***************************************************************************)
(* The capture.                                                            *)
(***************************************************************************)
Writing == {"full", "header", "data", "sentinel"}

CaptureTypes ==
  /\ capturing \in BOOLEAN
  /\ cap \in [lcore : Lcores \cup {NoLcore}, tail : 1..End, used : 0..CapSize]
  /\ header \in [1..End -> Packets \cup {Null}]
  /\ data \in [1..End -> Packets \cup {Null}]
  /\ header[End] = Null /\ hdr \in 1..End
  /\ captured \in Seq(Packets) /\ due \in Seq(Packets)
  /\ file \in Seq([pkt : Packets, bytes : Packets \cup {Null}])

(* One lcore at most writes to the buffer.  It is the one that captures,   *)
(* until the buffer is reset.                                              *)
OneWriter ==
  \A k \in Lcores : pc[k] \in Writing =>
    /\ cap.lcore \in {k, NoLcore}
    /\ \A l \in Lcores : pc[l] \in Writing => l = k

WriterInv ==
  \A l \in Lcores :
    /\ pc[l] \in {"header", "data", "sentinel"} => i[l] <= Len(burst[l]) + 1
    /\ pc[l] = "data" => i[l] <= Len(burst[l]) /\ cap.tail < End

Enabled == cap.lcore # NoLcore

EnabledInv ==
  /\ capturing /\ mpc # "unflag" => Enabled
  /\ mpc \in {"enable", "walk", "reset"} => Enabled
  /\ Enabled /\ mpc \notin {"walk", "reset"} => file = << >>

(* What is captured is in the buffer; the burst that is being captured     *)
(* follows it up to the tail.                                              *)
BufferInv ==
  Enabled =>
    /\ Len(captured) = cap.used /\ cap.used < cap.tail
    /\ \A e \in 1..cap.used : header[e] = captured[e] /\ data[e] = captured[e]
    /\ IF pc[cap.lcore] \in {"header", "data", "sentinel"}
         THEN /\ cap.tail = cap.used + i[cap.lcore]
              /\ \A e \in 1..(i[cap.lcore] - 1) :
                   /\ header[cap.used + e] = burst[cap.lcore][e]
                   /\ data[cap.used + e] = burst[cap.lcore][e]
              /\ pc[cap.lcore] = "data" => header[cap.tail] = Pkt(cap.lcore)
         ELSE cap.tail = cap.used + 1

(* What the file has to hold, as far as it is written.                     *)
FileInv ==
  mpc \in {"walk", "reset"} =>
    /\ Len(due) <= Len(captured)
    /\ \A e \in 1..Len(due) : due[e] = captured[e]
    /\ \A e \in 1..Len(file) : e <= Len(due) =>
         file[e] = [pkt |-> due[e], bytes |-> due[e]]
    /\ mpc = "walk" => hdr = Len(file) + 1
    /\ mpc = "reset" => Len(file) >= Len(due)

CaptureInv ==
  LcoreInv /\ CaptureTypes /\ OneWriter /\ WriterInv /\ EnabledInv /\ BufferInv
  /\ FileInv

(***************************************************************************)
(* The dump.                                                               *)
(***************************************************************************)
Asking == {"tail", "head", "clear", "ask"}

DumpTypes ==
  /\ list \in [Slots -> Blocks \cup {Null}]
  /\ head \in 0..MaxDump /\ tail \in 0..MaxDump /\ count \in 0..255
  /\ live \subseteq Blocks /\ content \in [Blocks -> Packets \cup {Null}]
  /\ n \in [Lcores -> Nat]
  /\ want \in 0..MaxDump /\ asked \in Nat
  /\ dumped \in Seq(Packets) /\ printed \in Seq(Packets)

(* No lcore dumps while a dump is asked for.                               *)
AskInv ==
  /\ mpc \in Asking => count = 0 /\ \A l \in Lcores : pc[l] \notin InDump
  /\ mpc \in {"head", "clear", "ask"} => tail = 0
  /\ mpc \in {"clear", "ask"} => head = 0

(* How many packets are still to come, and that there is room for them.    *)
CountOf(l) ==
  /\ pc[l] = "room" => n[l] <= count /\ n[l] <= Len(burst[l])
  /\ pc[l] \in Copying =>
       /\ i[l] <= n[l] /\ n[l] <= count /\ n[l] <= Len(burst[l])
       /\ tail + n[l] - i[l] < MaxDump
       /\ Len(dumped) + count < asked + i[l]
  /\ pc[l] = "done" => n[l] <= count /\ Len(dumped) + count <= asked + n[l]
  /\ pc[l] \notin Copying \cup {"done"} => Len(dumped) + count <= asked

CountInv == \A l \in Lcores : CountOf(l)

(* The entries between the head and the tail hold what was dumped and not  *)
(* yet printed.                                                            *)
ListInv ==
  /\ mpc \notin Asking =>
       /\ Len(dumped) = tail /\ Len(printed) = head /\ head <= tail
       /\ \A s \in head..(tail - 1) :
            list[s] \in live /\ content[list[s]] = dumped[s + 1]
  /\ Len(printed) <= Len(dumped)
  /\ \A e \in 1..Len(printed) : printed[e] = dumped[e]

HeapInv ==
  /\ \A b \in live : \E s \in Slots : list[s] = b
  /\ \A s \in Slots : list[s] # Null =>
       list[s] \in live \/ (s = tail /\ \E l \in Lcores : pc[l] = "alloc")
  /\ \A s, t \in Slots : list[s] # Null /\ list[s] = list[t] => s = t
  /\ \A l \in Lcores :
       /\ pc[l] = "alloc" => list[tail] \notin live
       /\ pc[l] = "copy" => list[tail] \in live

DumpInv ==
  LcoreInv /\ DumpTypes /\ AskInv /\ CountInv /\ ListInv /\ HeapInv
-----------------------------------------------------------------------------
(***************************************************************************)
(* Steps, by what they leave alone.                                        *)
(***************************************************************************)
DumpMaster ==
  \/ \E k \in Asked : AskDump(k)
  \/ AskTail \/ AskHead \/ AskClear \/ AskCount \/ PrintDump
CaptureMaster ==
  \/ \E l \in Lcores : EnableCapture(l)
  \/ EnableFlag \/ DisableCapture \/ WalkBuffer \/ ResetCapture \/ ClearFlag
DumpStep(l) ==
  \/ DumpCount(l) \/ DumpRoom(l) \/ DumpFree(l) \/ DumpAlloc(l) \/ DumpCopy(l)
  \/ DumpDone(l)
CaptureStep(l) ==
  \/ CaptureFlag(l) \/ CaptureLcore(l) \/ CaptureFull(l) \/ CaptureHeader(l)
  \/ CaptureData(l) \/ CaptureSentinel(l)

LEMMA Kinds ==
  ASSUME [Next]_vars
  PROVE  \/ DumpMaster \/ CaptureMaster
         \/ \E l \in Lcores : Receive(l) \/ DumpStep(l) \/ CaptureStep(l)
         \/ UNCHANGED vars
  BY DEF Next, MasterStep, Command, Lcore, DumpMaster, CaptureMaster, DumpStep,
         CaptureStep

LEMMA DumpMasterFrame ==
  ASSUME DumpMaster
  PROVE  /\ UNCHANGED <<capturing, cap, header, data>>
         /\ UNCHANGED <<pc, burst, i, n, hdr, next, captured, due, file>>
         /\ mpc \in {"idle"} \cup Asking /\ mpc' \in {"idle"} \cup Asking
  BY DEF DumpMaster, AskDump, AskTail, AskHead, AskClear, AskCount, PrintDump,
         Master, MGoto, buffer, rx, master, chist, Asking

LEMMA CaptureMasterFrame ==
  ASSUME CaptureMaster
  PROVE  /\ UNCHANGED <<list, head, tail, count, live, content>>
         /\ UNCHANGED <<pc, burst, i, n, want, next, asked, dumped, printed>>
         /\ mpc \in MasterPc \ Asking /\ mpc' \in MasterPc \ Asking
  BY DEF CaptureMaster, EnableCapture, EnableFlag, DisableCapture, WalkBuffer,
         ResetCapture, ClearFlag, Master, MGoto, heap, rx, dhist, Asking, MasterPc

LEMMA DumpFrame ==
  ASSUME NEW l \in Lcores, DumpStep(l)
  PROVE  /\ UNCHANGED <<capturing, cap, header, data>>
         /\ UNCHANGED <<burst, mpc, want, hdr, next, captured, due, file>>
         /\ pc[l] \in InDump /\ \E to \in InDump \cup {"flag"} : Goto(l, to)
         /\ \A k \in Lcores \ {l} : LcoreInv => i'[k] = i[k]
<1> USE DEF Goto, At, InDump, LcoreInv, buffer, master, chist
<1>1. CASE DumpCount(l)  BY <1>1 DEF DumpCount
<1>2. CASE DumpRoom(l)   BY <1>2 DEF DumpRoom
<1>3. CASE DumpFree(l)   BY <1>3 DEF DumpFree
<1>4. CASE DumpAlloc(l)  BY <1>4 DEF DumpAlloc
<1>5. CASE DumpCopy(l)   BY <1>5 DEF DumpCopy
<1>6. CASE DumpDone(l)   BY <1>6 DEF DumpDone
<1> QED  BY <1>1, <1>2, <1>3, <1>4, <1>5, <1>6 DEF DumpStep

LEMMA CaptureFrame ==
  ASSUME NEW l \in Lcores, CaptureStep(l)
  PROVE  /\ UNCHANGED <<list, head, tail, count, live, content>>
         /\ UNCHANGED <<burst, n, mpc, want, hdr, next, asked, dumped, printed>>
         /\ pc[l] \in InCapture /\ \E to \in InCapture \cup {"idle"} : Goto(l, to)
<1> USE DEF Goto, At, InCapture, heap, master, dhist
<1>1. CASE CaptureFlag(l)      BY <1>1 DEF CaptureFlag
<1>2. CASE CaptureLcore(l)     BY <1>2 DEF CaptureLcore
<1>3. CASE CaptureFull(l)      BY <1>3 DEF CaptureFull
<1>4. CASE CaptureHeader(l)    BY <1>4 DEF CaptureHeader
<1>5. CASE CaptureData(l)      BY <1>5 DEF CaptureData
<1>6. CASE CaptureSentinel(l)  BY <1>6 DEF CaptureSentinel
<1> QED  BY <1>1, <1>2, <1>3, <1>4, <1>5, <1>6 DEF CaptureStep
-----------------------------------------------------------------------------
LEMMA BurstIsSeq ==
  ASSUME NEW k \in Nat, NEW first \in Nat \ {0}, first + k - 1 <= MaxPkts
  PROVE  [e \in 1..k |-> first + e - 1] \in Seq(Packets)
<1> DEFINE b == [e \in 1..k |-> first + e - 1]
<1>1. b \in [1..k -> Packets]
  BY RxDebugAssumption DEF Packets
<1>2. b \in Seq(Packets)
  <2> HIDE DEF b
  <2> QED  BY <1>1, SeqDef
<1> QED  BY <1>2

LEMMA LcoreStep ==
  ASSUME LcoreInv, [Next]_vars
  PROVE  LcoreInv'
<1> USE DEF LcoreInv, Goto, At, InDump, InCapture
<1>1. CASE DumpMaster
  <2>1. mpc' \in MasterPc
    BY <1>1, DumpMasterFrame DEF MasterPc, Asking
  <2> QED  BY <1>1, <2>1, DumpMasterFrame
<1>2. CASE CaptureMaster
  <2>1. mpc' \in MasterPc
    BY <1>2, CaptureMasterFrame DEF MasterPc, Asking
  <2> QED  BY <1>2, <2>1, CaptureMasterFrame
<1>3. ASSUME NEW l \in Lcores, Receive(l)
      PROVE  LcoreInv'
  <2>1. PICK k \in 1..MaxBurst :
          /\ next + k - 1 <= MaxPkts
          /\ burst' = [burst EXCEPT ![l] = [e \in 1..k |-> next + e - 1]]
          /\ next' = next + k
    BY <1>3 DEF Receive
  <2>2. k \in Nat
    BY RxDebugAssumption
  <2>3. [e \in 1..k |-> next + e - 1] \in Seq(Packets)
    BY <2>1, <2>2, BurstIsSeq
  <2>4. burst' \in [Lcores -> Seq(Packets)]
    BY <2>1, <2>3
  <2>5. next' \in Nat \ {0}
    BY <2>1, <2>2
  <2> QED  BY <1>3, <2>4, <2>5 DEF Receive, master
<1>4. ASSUME NEW l \in Lcores, DumpStep(l)
      PROVE  LcoreInv'
  <2>1. UNCHANGED <<burst, next, mpc>>
    BY <1>4, DumpFrame
  <2>2. CASE DumpCount(l)  BY <2>1, <2>2 DEF DumpCount
  <2>3. CASE DumpRoom(l)   BY <2>1, <2>3 DEF DumpRoom
  <2>4. CASE DumpFree(l)   BY <2>1, <2>4 DEF DumpFree
  <2>5. CASE DumpAlloc(l)  BY <2>1, <2>5 DEF DumpAlloc
  <2>6. CASE DumpCopy(l)   BY <2>1, <2>6 DEF DumpCopy
  <2>7. CASE DumpDone(l)   BY <2>1, <2>7 DEF DumpDone
  <2> QED  BY <1>4, <2>2, <2>3, <2>4, <2>5, <2>6, <2>7 DEF DumpStep
<1>5. ASSUME NEW l \in Lcores, CaptureStep(l)
      PROVE  LcoreInv'
  <2>1. UNCHANGED <<burst, next, mpc>>
    BY <1>5, CaptureFrame
  <2>2. CASE CaptureFlag(l)      BY <2>1, <2>2 DEF CaptureFlag
  <2>3. CASE CaptureLcore(l)     BY <2>1, <2>3 DEF CaptureLcore
  <2>4. CASE CaptureFull(l)      BY <2>1, <2>4 DEF CaptureFull
  <2>5. CASE CaptureHeader(l)    BY <2>1, <2>5 DEF CaptureHeader
  <2>6. CASE CaptureData(l)      BY <2>1, <2>6 DEF CaptureData
  <2>7. CASE CaptureSentinel(l)  BY <2>1, <2>7 DEF CaptureSentinel
  <2> QED  BY <1>5, <2>2, <2>3, <2>4, <2>5, <2>6, <2>7 DEF CaptureStep
<1>6. CASE UNCHANGED vars
  BY <1>6 DEF vars, rx, master
<1> QED  BY <1>1, <1>2, <1>3, <1>4, <1>5, <1>6, Kinds
-----------------------------------------------------------------------------
(***************************************************************************)
(* The capture, step by step.                                              *)
(***************************************************************************)
(* A step that leaves the capture alone.                                   *)
LEMMA CaptureQuiet ==
  ASSUME CaptureInv, LcoreInv', UNCHANGED <<capturing, cap, header, data>>,
         UNCHANGED <<hdr, captured, due, file>>,
         \/ UNCHANGED <<pc, burst, i>> /\ mpc' = mpc
         \/ /\ UNCHANGED <<pc, burst, i>>
            /\ mpc \in {"idle"} \cup Asking /\ mpc' \in {"idle"} \cup Asking
         \/ \E l \in Lcores :
              /\ mpc' = mpc /\ pc[l] \notin Writing
              /\ \E to \in ({"idle"} \cup InDump \cup InCapture) \ Writing : Goto(l, to)
              /\ \A k \in Lcores \ {l} : burst'[k] = burst[k] /\ i'[k] = i[k]
  PROVE  CaptureInv'
<1>1. CaptureTypes'
  BY DEF CaptureInv, CaptureTypes
<1>2. \A k \in Lcores :
        /\ pc'[k] \in Writing <=> pc[k] \in Writing
        /\ pc[k] \in Writing => pc'[k] = pc[k] /\ burst'[k] = burst[k] /\ i'[k] = i[k]
  BY DEF CaptureInv, LcoreInv, Goto
<1>3. OneWriter'
  BY <1>2 DEF CaptureInv, OneWriter
<1>4. WriterInv'
  BY <1>2 DEF CaptureInv, WriterInv, Writing
<1>5. EnabledInv' /\ FileInv'
  BY DEF CaptureInv, EnabledInv, Enabled, FileInv, Asking
<1>6. BufferInv'
  BY <1>2, SMTT(20) DEF CaptureInv, CaptureTypes, BufferInv, Enabled, Pkt, Writing
<1> QED  BY <1>1, <1>3, <1>4, <1>5, <1>6 DEF CaptureInv

LEMMA EnableStep ==
  ASSUME Patient, CaptureInv, LcoreInv', NEW l \in Lcores, EnableCapture(l)
  PROVE  CaptureInv'
<1> USE DEF CaptureInv, EnableCapture, Master, MGoto, rx
<1>1. CaptureTypes'
  BY RxDebugAssumption, SMTT(30) DEF CaptureTypes, End
<1>2. \A k \in Lcores : pc'[k] \notin Writing
  BY DEF Writing, InCapture
<1>3. OneWriter' /\ WriterInv'
  BY <1>2 DEF OneWriter, WriterInv, Writing
<1>4. EnabledInv' /\ FileInv'
  BY RxDebugAssumption DEF EnabledInv, FileInv, Enabled, NoLcore
<1>5. BufferInv'
  BY <1>2 DEF BufferInv, Enabled, Writing
<1> QED  BY <1>1, <1>3, <1>4, <1>5

LEMMA DisableStep ==
  ASSUME CaptureInv, LcoreInv', DisableCapture
  PROVE  CaptureInv'
<1> USE DEF CaptureInv, DisableCapture, Master, MGoto, rx, buffer
<1>1. CaptureTypes'
  BY RxDebugAssumption DEF CaptureTypes, End
<1>2. OneWriter' /\ WriterInv'
  BY DEF OneWriter, WriterInv
<1>3. EnabledInv' /\ BufferInv'
  BY DEF EnabledInv, BufferInv, Enabled, Pkt
<1>4. FileInv'
  <2>1. Len(file) = 0 /\ Len(captured) = cap.used /\ Len(due') = Len(captured)
    BY DEF EnabledInv, BufferInv, Enabled
  <2>2. cap.used \in Nat
    BY DEF CaptureTypes
  <2> QED  BY <2>1, <2>2 DEF FileInv
<1> QED  BY <1>1, <1>2, <1>3, <1>4

LEMMA WalkStep ==
  ASSUME CaptureInv, LcoreInv', WalkBuffer
  PROVE  CaptureInv'
<1> USE DEF CaptureInv, WalkBuffer, Master, MGoto, rx, buffer
<1>1. OneWriter' /\ WriterInv'
  BY DEF OneWriter, WriterInv
<1>2. EnabledInv' /\ BufferInv'
  BY DEF EnabledInv, BufferInv, Enabled, Pkt
<1>3. /\ Enabled /\ hdr = Len(file) + 1
      /\ cap.used \in Nat /\ Len(due) \in Nat /\ Len(file) \in Nat
      /\ Len(due) <= cap.used
      /\ \A e \in 1..Len(due) :
           /\ due[e] = captured[e] /\ header[e] = captured[e]
           /\ data[e] = captured[e] /\ due[e] \in Packets
  BY DEF EnabledInv, BufferInv, FileInv, CaptureTypes
<1>4. CASE header[hdr] = Null
  <2>1. hdr > Len(due)
    BY <1>3, <1>4 DEF Packets, Null, CaptureTypes
  <2>2. FileInv'
    BY <1>3, <1>4, <2>1 DEF FileInv
  <2>3. CaptureTypes'
    BY <1>4 DEF CaptureTypes
  <2> QED  BY <1>1, <1>2, <2>2, <2>3
<1>5. CASE header[hdr] # Null
  <2> DEFINE entry == [pkt |-> header[hdr], bytes |-> data[hdr]]
  <2>1. /\ header[hdr] \in Packets /\ data[hdr] \in Packets \cup {Null}
        /\ hdr' = hdr + 1 /\ hdr' \in 1..End
    BY <1>5, RxDebugAssumption DEF CaptureTypes, End
  <2>2. entry \in [pkt : Packets, bytes : Packets \cup {Null}]
    BY <2>1
  <2>3. file' = Append(file, entry)
    BY <1>5
  <2>4. /\ file' \in Seq([pkt : Packets, bytes : Packets \cup {Null}])
        /\ Len(file') = Len(file) + 1
        /\ \A e \in 1..Len(file) : file'[e] = file[e]
        /\ file'[Len(file) + 1] = entry
    <3> HIDE DEF entry
    <3> QED  BY <2>2, <2>3, AppendProperties DEF CaptureTypes
  <2>5. CaptureTypes'
    BY <2>1, <2>4 DEF CaptureTypes
  <2>6. hdr <= Len(due) => entry = [pkt |-> due[hdr], bytes |-> due[hdr]]
    BY <1>3 DEF CaptureTypes
  <2>7. \A e \in 1..Len(file') : e <= Len(due) =>
          file'[e] = [pkt |-> due[e], bytes |-> due[e]]
    <3>1. \A e \in 1..Len(file) : e <= Len(due) =>
            file[e] = [pkt |-> due[e], bytes |-> due[e]]
      BY DEF FileInv
    <3>2. SUFFICES ASSUME NEW e \in 1..(Len(file) + 1), e <= Len(due)
                   PROVE  file'[e] = [pkt |-> due[e], bytes |-> due[e]]
      BY <2>4
    <3> HIDE DEF entry, WalkBuffer, CaptureInv
    <3>3. CASE e = hdr
      BY <3>2, <3>3, <1>3, <2>4, <2>6
    <3>4. CASE e # hdr
      <4>1. e \in 1..Len(file)
        BY <3>4, <1>3
      <4>2. file'[e] = file[e]
        BY <4>1, <2>4
      <4> QED  BY <3>1, <3>2, <4>1, <4>2
    <3> QED  BY <3>3, <3>4
  <2>8. FileInv'
    <3>1. /\ mpc' = "walk" /\ due' = due /\ captured' = captured
          /\ Len(due) <= Len(captured)
          /\ \A e \in 1..Len(due) : due[e] = captured[e]
      BY <1>5 DEF FileInv
    <3>2. hdr' = Len(file') + 1
      <4> HIDE DEF entry, WalkBuffer, CaptureInv
      <4> QED  BY <1>3, <2>1, <2>4
    <3> HIDE DEF entry, WalkBuffer, CaptureInv
    <3> QED  BY <2>7, <3>1, <3>2 DEF FileInv
  <2> QED  BY <1>1, <1>2, <2>5, <2>8
<1> QED  BY <1>4, <1>5

LEMMA ResetStep ==
  ASSUME CaptureInv, LcoreInv', ResetCapture
  PROVE  CaptureInv'
<1> USE DEF CaptureInv, ResetCapture, Master, MGoto, rx, chist
<1>1. CaptureTypes'
  <2>1. cap' \in [lcore : Lcores \cup {NoLcore}, tail : 1..End, used : 0..CapSize]
    BY RxDebugAssumption DEF End
  <2> QED  BY <2>1 DEF CaptureTypes
<1>2. OneWriter'
  BY DEF OneWriter
<1>3. WriterInv'
  BY RxDebugAssumption DEF WriterInv, End
<1>4. EnabledInv' /\ FileInv' /\ BufferInv'
  BY DEF EnabledInv, FileInv, BufferInv, Enabled
<1> QED  BY <1>1, <1>2, <1>3, <1>4

LEMMA FlagStep ==
  ASSUME CaptureInv, LcoreInv', EnableFlag \/ ClearFlag
  PROVE  CaptureInv'
<1> USE DEF CaptureInv, EnableFlag, ClearFlag, Master, MGoto, rx, chist
<1>1. CaptureTypes'
  BY DEF CaptureTypes
<1>2. OneWriter' /\ WriterInv'
  BY DEF OneWriter, WriterInv
<1>3. EnabledInv' /\ FileInv' /\ BufferInv'
  BY DEF EnabledInv, FileInv, BufferInv, Enabled, Pkt
<1> QED  BY <1>1, <1>2, <1>3

LEMMA UnchangedStep ==
  ASSUME CaptureInv, LcoreInv', UNCHANGED vars
  PROVE  CaptureInv'
<1>1. /\ UNCHANGED <<capturing, cap, header, data>>
      /\ UNCHANGED <<hdr, captured, due, file>>
      /\ UNCHANGED <<pc, burst, i, mpc>>
  BY DEF vars, buffer, rx, master, chist
<1> QED  BY <1>1, CaptureQuiet

LEMMA QuietMasterStep ==
  ASSUME CaptureInv, LcoreInv', DumpMaster
  PROVE  CaptureInv'
<1> QED  BY DumpMasterFrame, CaptureQuiet

(* A burst that arrives, and a step of the dump, leave the capture alone.  *)
LEMMA QuietLcoreStep ==
  ASSUME CaptureInv, LcoreInv', NEW l \in Lcores, Receive(l) \/ DumpStep(l)
  PROVE  CaptureInv'
<1>1. CASE Receive(l)
  <2>1. /\ UNCHANGED <<capturing, cap, header, data>>
        /\ UNCHANGED <<hdr, captured, due, file, mpc>>
        /\ pc[l] \notin Writing
        /\ \E to \in {"count", "flag"} : Goto(l, to)
        /\ \A k \in Lcores \ {l} : burst'[k] = burst[k] /\ i'[k] = i[k]
    BY <1>1 DEF Receive, At, buffer, master, chist, Writing, CaptureInv, LcoreInv
  <2>2. {"count", "flag"} \subseteq ({"idle"} \cup InDump \cup InCapture) \ Writing
    BY DEF InDump, InCapture, Writing
  <2> QED  BY <2>1, <2>2, CaptureQuiet
<1>2. CASE DumpStep(l)
  <2>1. /\ UNCHANGED <<capturing, cap, header, data>>
        /\ UNCHANGED <<hdr, captured, due, file, mpc>>
        /\ pc[l] \in InDump /\ \E to \in InDump \cup {"flag"} : Goto(l, to)
        /\ \A k \in Lcores \ {l} : burst'[k] = burst[k] /\ i'[k] = i[k]
    BY <1>2, DumpFrame DEF CaptureInv
  <2>2. /\ InDump \cup {"flag"} \subseteq ({"idle"} \cup InDump \cup InCapture) \ Writing
        /\ pc[l] \notin Writing
    BY <2>1 DEF InDump, InCapture, Writing
  <2> QED  BY <2>1, <2>2, CaptureQuiet
<1> QED  BY <1>1, <1>2

LEMMA OnlyWriter ==
  ASSUME CaptureInv, NEW l \in Lcores, pc[l] \in Writing
  PROVE  /\ Enabled => cap.lcore = l
         /\ \A k \in Lcores \ {l} : pc[k] \notin Writing
         /\ i[l] \in Nat \ {0} /\ burst[l] \in Seq(Packets) /\ Len(burst[l]) \in Nat
         /\ cap.tail \in 1..End /\ cap.used \in 0..CapSize
  BY DEF CaptureInv, LcoreInv, CaptureTypes, OneWriter, Enabled

LEMMA CaptureFlagStep ==
  ASSUME CaptureInv, LcoreInv', NEW l \in Lcores, CaptureFlag(l)
  PROVE  CaptureInv'
<1>1. /\ UNCHANGED <<capturing, cap, header, data>>
      /\ UNCHANGED <<hdr, captured, due, file, mpc, burst, i>>
      /\ pc[l] \notin Writing /\ \E to \in {"idle", "lcore"} : Goto(l, to)
  BY DEF CaptureFlag, At, Goto, buffer, master, chist, Writing
<1>2. {"idle", "lcore"} \subseteq ({"idle"} \cup InDump \cup InCapture) \ Writing
  BY DEF InCapture, Writing
<1> QED  BY <1>1, <1>2, CaptureQuiet

LEMMA CaptureLcoreStep ==
  ASSUME CaptureInv, LcoreInv', NEW l \in Lcores, CaptureLcore(l)
  PROVE  CaptureInv'
<1> USE DEF CaptureLcore, At, Goto, buffer, master, chist
<1>1. CASE cap.lcore # l
  <2>1. /\ UNCHANGED <<capturing, cap, header, data>>
        /\ UNCHANGED <<hdr, captured, due, file, mpc, burst, i>>
        /\ pc[l] \notin Writing /\ Goto(l, "idle")
    BY <1>1 DEF Writing
  <2>2. "idle" \in ({"idle"} \cup InDump \cup InCapture) \ Writing
    BY DEF Writing
  <2> QED  BY <2>1, <2>2, CaptureQuiet
<1>2. CASE cap.lcore = l
  <2> USE <1>2 DEF CaptureInv
  <2>1. pc' = [pc EXCEPT ![l] = "full"] /\ pc[l] = "lcore" /\ pc \in [Lcores -> Places]
    BY DEF LcoreInv, Places
  <2>2. \A k \in Lcores : pc[k] \in Writing => k = l
    BY RxDebugAssumption DEF OneWriter, NoLcore
  <2>3. OneWriter'
    BY <2>1, <2>2 DEF OneWriter
  <2>4. WriterInv'
    BY <2>1 DEF WriterInv
  <2>5. CaptureTypes' /\ EnabledInv' /\ FileInv'
    BY DEF CaptureTypes, EnabledInv, Enabled, FileInv
  <2>6. BufferInv'
    BY <2>1 DEF BufferInv, Enabled
  <2> QED  BY <2>3, <2>4, <2>5, <2>6
<1> QED  BY <1>1, <1>2

LEMMA CaptureFullStep ==
  ASSUME CaptureInv, LcoreInv', NEW l \in Lcores, CaptureFull(l)
  PROVE  CaptureInv'
<1> USE DEF CaptureInv, CaptureFull, At, Goto, buffer, master, chist
<1>1. /\ pc[l] = "full" /\ pc[l] \in Writing /\ i[l] = 1
      /\ pc' = [pc EXCEPT ![l] = pc'[l]] /\ pc'[l] \in {"idle", "header"}
      /\ pc \in [Lcores -> Places]
  BY DEF LcoreInv, Writing, Places
<1>2. /\ Enabled => cap.lcore = l
      /\ \A k \in Lcores \ {l} : pc[k] \notin Writing
      /\ Len(burst[l]) \in Nat
  BY <1>1, OnlyWriter
<1>3. OneWriter'
  BY <1>1, <1>2 DEF OneWriter
<1>4. WriterInv'
  BY <1>1, <1>2 DEF WriterInv, Writing
<1>5. CaptureTypes' /\ EnabledInv' /\ FileInv'
  BY DEF CaptureTypes, EnabledInv, Enabled, FileInv
<1>6. BufferInv'
  BY <1>1, <1>2 DEF BufferInv, Enabled
<1> QED  BY <1>3, <1>4, <1>5, <1>6

LEMMA CaptureHeaderStep ==
  ASSUME CaptureInv, LcoreInv', NEW l \in Lcores, CaptureHeader(l)
  PROVE  CaptureInv'
<1> USE DEF CaptureInv, CaptureHeader, At, Goto, master, chist
<1>1. /\ pc[l] = "header" /\ pc[l] \in Writing
      /\ pc' = [pc EXCEPT ![l] = pc'[l]] /\ pc'[l] \in {"data", "sentinel"}
      /\ pc \in [Lcores -> Places]
  BY DEF LcoreInv, Writing, Places
<1>2. /\ Enabled => cap.lcore = l
      /\ \A k \in Lcores \ {l} : pc[k] \notin Writing
      /\ i[l] \in Nat \ {0} /\ burst[l] \in Seq(Packets) /\ Len(burst[l]) \in Nat
      /\ cap.tail \in 1..End /\ cap.used \in 0..CapSize
  BY <1>1, OnlyWriter
<1>3. OneWriter'
  BY <1>1, <1>2 DEF OneWriter, Writing
<1>4. WriterInv'
  BY <1>1, <1>2 DEF WriterInv, Writing
<1>5. EnabledInv' /\ FileInv'
  BY DEF EnabledInv, Enabled, FileInv
<1>6. CASE i[l] <= Len(burst[l]) /\ cap.tail < End
  <2>1. Pkt(l) \in Packets
    BY <1>2, <1>6 DEF Pkt
  <2>2. header' = [header EXCEPT ![cap.tail] = Pkt(l)] /\ pc'[l] = "data"
    BY <1>1, <1>6
  <2>3. CaptureTypes'
    BY <1>2, <1>6, <2>1, <2>2, RxDebugAssumption DEF CaptureTypes, End
  <2>4. BufferInv'
    <3>1. SUFFICES ASSUME Enabled PROVE BufferInv'
      BY DEF BufferInv, Enabled
    <3>2. /\ cap.lcore = l /\ cap.tail = cap.used + i[l] /\ cap.used < cap.tail
          /\ Len(captured) = cap.used
          /\ \A e \in 1..cap.used : header[e] = captured[e] /\ data[e] = captured[e]
          /\ \A e \in 1..(i[l] - 1) : /\ header[cap.used + e] = burst[l][e]
                                      /\ data[cap.used + e] = burst[l][e]
      BY <1>1, <1>2, <3>1 DEF BufferInv
    <3>3. /\ \A e \in 1..End : e # cap.tail => header'[e] = header[e]
          /\ header'[cap.tail] = Pkt(l) /\ Pkt(l)' = Pkt(l)
      BY <1>2, <2>2 DEF CaptureTypes, Pkt
    <3>4. /\ UNCHANGED <<cap, data, captured, burst, i>> /\ pc'[cap.lcore] = "data"
      BY <2>2, <3>2
    <3> HIDE DEF CaptureInv, CaptureHeader
    <3>5. \A e \in 1..cap.used : header'[e] = captured[e]
      <4>1. ASSUME NEW e \in 1..cap.used PROVE header'[e] = captured[e]
        <5>1. e \in 1..End /\ e # cap.tail
          <6>1. /\ cap.used \in Nat /\ cap.tail \in 1..End /\ cap.used < cap.tail
                /\ cap.tail = cap.used + i[l] /\ i[l] \in Nat /\ End \in Nat
            BY <1>2, <3>2, RxDebugAssumption DEF End
          <6> QED  BY <6>1
        <5>2. header'[e] = header[e]
          BY <3>3, <5>1
        <5> QED  BY <3>2, <5>2
      <4> QED  BY <4>1
    <3>6. \A e \in 1..(i[l] - 1) : header'[cap.used + e] = burst[l][e]
      <4>1. ASSUME NEW e \in 1..(i[l] - 1)
            PROVE  header'[cap.used + e] = burst[l][e]
        <5>1. cap.used + e \in 1..End /\ cap.used + e # cap.tail
          <6>1. /\ cap.used \in Nat /\ cap.tail \in 1..End /\ cap.used < cap.tail
                /\ cap.tail = cap.used + i[l] /\ i[l] \in Nat /\ End \in Nat
            BY <1>2, <3>2, RxDebugAssumption DEF End
          <6> QED  BY <6>1
        <5>2. header'[cap.used + e] = header[cap.used + e]
          BY <3>3, <5>1
        <5> QED  BY <3>2, <5>2
      <4> QED  BY <4>1
    <3> QED  BY <3>2, <3>3, <3>4, <3>5, <3>6 DEF BufferInv, Pkt
  <2> QED  BY <1>3, <1>4, <1>5, <2>3, <2>4
<1>7. CASE ~(i[l] <= Len(burst[l]) /\ cap.tail < End)
  <2>1. CaptureTypes'
    BY <1>7 DEF CaptureTypes
  <2>2. BufferInv'
    BY <1>1, <1>2, <1>7 DEF BufferInv, Enabled
  <2> QED  BY <1>3, <1>4, <1>5, <2>1, <2>2
<1> QED  BY <1>6, <1>7

LEMMA CaptureDataStep ==
  ASSUME CaptureInv, LcoreInv', NEW l \in Lcores, CaptureData(l)
  PROVE  CaptureInv'
<1> USE DEF CaptureInv, CaptureData, At, Goto, master, chist
<1>1. /\ pc[l] = "data" /\ pc[l] \in Writing
      /\ pc' = [pc EXCEPT ![l] = "header"] /\ pc \in [Lcores -> Places]
      /\ i' = [i EXCEPT ![l] = @ + 1] /\ i \in [Lcores -> Nat \ {0}]
  BY DEF LcoreInv, Writing, Places
<1>2. /\ Enabled => cap.lcore = l
      /\ \A k \in Lcores \ {l} : pc[k] \notin Writing
      /\ i[l] \in Nat \ {0} /\ burst[l] \in Seq(Packets) /\ Len(burst[l]) \in Nat
      /\ cap.tail \in 1..End /\ cap.used \in 0..CapSize
  BY <1>1, OnlyWriter
<1>3. /\ i[l] <= Len(burst[l]) /\ cap.tail < End /\ Pkt(l) \in Packets
      /\ cap' = [cap EXCEPT !.tail = cap.tail + 1] /\ cap.tail + 1 \in 1..End
      /\ data' = [data EXCEPT ![cap.tail] = Pkt(l)]
  BY <1>1, <1>2, RxDebugAssumption, SMTT(30) DEF WriterInv, Pkt, End
<1>4. /\ cap'.tail = cap.tail + 1 /\ cap'.used = cap.used /\ cap'.lcore = cap.lcore
  BY <1>3 DEF CaptureTypes
<1>5. CaptureTypes'
  <2>1. cap' \in [lcore : Lcores \cup {NoLcore}, tail : 1..End, used : 0..CapSize]
    BY <1>3 DEF CaptureTypes
  <2>2. data' \in [1..End -> Packets \cup {Null}]
    BY <1>3 DEF CaptureTypes
  <2> QED  BY <2>1, <2>2 DEF CaptureTypes
<1>6. OneWriter'
  BY <1>1, <1>2, <1>4 DEF OneWriter, Writing
<1>7. WriterInv'
  <2>1. SUFFICES ASSUME NEW k \in Lcores, pc'[k] \in {"header", "data", "sentinel"}
                 PROVE  k = l /\ i'[k] <= Len(burst'[k]) + 1 /\ pc'[k] # "data"
    BY DEF WriterInv
  <2>2. k = l
    BY <1>1, <1>2, <2>1 DEF Writing
  <2> QED  BY <1>1, <1>2, <1>3, <2>2
<1>8. EnabledInv' /\ FileInv'
  BY <1>4 DEF EnabledInv, Enabled, FileInv
<1>9. BufferInv'
  <2>1. SUFFICES ASSUME Enabled PROVE BufferInv'
    BY <1>4 DEF BufferInv, Enabled
  <2>2. /\ cap.lcore = l /\ cap.tail = cap.used + i[l] /\ cap.used < cap.tail
        /\ Len(captured) = cap.used
        /\ \A e \in 1..cap.used : header[e] = captured[e] /\ data[e] = captured[e]
        /\ \A e \in 1..(i[l] - 1) : /\ header[cap.used + e] = burst[l][e]
                                    /\ data[cap.used + e] = burst[l][e]
        /\ header[cap.tail] = burst[l][i[l]]
    BY <1>1, <1>2, <2>1 DEF BufferInv, Pkt
  <2>3. /\ UNCHANGED <<header, captured, burst>>
        /\ \A e \in 1..End : e # cap.tail => data'[e] = data[e]
        /\ data'[cap.tail] = burst[l][i[l]]
        /\ pc'[l] = "header" /\ i'[l] = i[l] + 1 /\ End \in Nat
    BY <1>1, <1>2, <1>3, RxDebugAssumption, SMTT(30) DEF CaptureTypes, Pkt, End
  <2> HIDE DEF CaptureInv, CaptureData
  <2>4. \A e \in 1..cap.used : header'[e] = captured'[e] /\ data'[e] = captured'[e]
    BY <1>2, <2>2, <2>3
  <2>5. ASSUME NEW e \in 1..i[l]
        PROVE  /\ header'[cap.used + e] = burst'[l][e]
               /\ data'[cap.used + e] = burst'[l][e]
    <3>1. CASE e = i[l]
      BY <1>2, <2>2, <2>3, <3>1
    <3>2. CASE e # i[l]
      <4>1. /\ e \in 1..(i[l] - 1) /\ cap.used + e \in 1..End
            /\ cap.used + e # cap.tail
        BY <1>2, <2>2, <2>3, <3>2
      <4> QED  BY <2>2, <2>3, <4>1
    <3> QED  BY <3>1, <3>2
  <2> QED  BY <1>2, <1>4, <2>2, <2>3, <2>4, <2>5, SMTT(30) DEF BufferInv, Pkt
<1> QED  BY <1>5, <1>6, <1>7, <1>8, <1>9

LEMMA CaptureSentinelStep ==
  ASSUME CaptureInv, LcoreInv', NEW l \in Lcores, CaptureSentinel(l)
  PROVE  CaptureInv'
<1> DEFINE burstPart == SubSeq(burst[l], 1, i[l] - 1)
<1> USE DEF CaptureInv, CaptureSentinel, At, Goto, master
<1>1. /\ pc[l] = "sentinel" /\ pc[l] \in Writing
      /\ pc' = [pc EXCEPT ![l] = "idle"] /\ pc \in [Lcores -> Places]
      /\ UNCHANGED <<i, burst, data, mpc, due, file, hdr, capturing>>
  BY DEF LcoreInv, Writing, Places
<1>2. /\ Enabled => cap.lcore = l
      /\ \A k \in Lcores \ {l} : pc[k] \notin Writing
      /\ i[l] \in Nat \ {0} /\ burst[l] \in Seq(Packets) /\ Len(burst[l]) \in Nat
      /\ cap.tail \in 1..End /\ cap.used \in 0..CapSize
  BY <1>1, OnlyWriter
<1>3. /\ burstPart \in Seq(Packets) /\ Len(burstPart) = i[l] - 1
      /\ \A e \in 1..(i[l] - 1) : burstPart[e] = burst[l][e]
  <2>1. i[l] - 1 \in 0..Len(burst[l])
    BY <1>1, <1>2 DEF WriterInv
  <2> QED  BY <1>2, <2>1, SubSeqProperties
<1>4. /\ captured' \in Seq(Packets) /\ Len(captured) \in Nat
      /\ Len(captured') = Len(captured) + i[l] - 1
      /\ \A e \in 1..Len(captured) : captured'[e] = captured[e]
      /\ \A e \in 1..(i[l] - 1) : captured'[Len(captured) + e] = burst[l][e]
  <2>1. captured' = captured \o burstPart /\ captured \in Seq(Packets)
    BY DEF CaptureTypes
  <2> HIDE DEF burstPart, CaptureInv, CaptureSentinel
  <2>2. /\ captured \o burstPart \in Seq(Packets)
        /\ Len(captured \o burstPart) = Len(captured) + Len(burstPart)
        /\ Len(captured) \in Nat
    BY <1>3, <2>1, ConcatProperties
  <2>3. \A e \in 1..Len(captured) + Len(burstPart) :
          (captured \o burstPart)[e] = IF e <= Len(captured) THEN captured[e]
                                       ELSE burstPart[e - Len(captured)]
    BY <1>3, <2>1, ConcatProperties
  <2>4. \A e \in 1..Len(captured) : captured'[e] = captured[e]
    BY <1>2, <1>3, <2>1, <2>2, <2>3
  <2>5. ASSUME NEW e \in 1..(i[l] - 1)
        PROVE  captured'[Len(captured) + e] = burst[l][e]
    <3>1. /\ Len(captured) + e \in 1..Len(captured) + Len(burstPart)
          /\ ~(Len(captured) + e <= Len(captured))
          /\ Len(captured) + e - Len(captured) = e
      BY <1>2, <1>3, <2>2
    <3> QED  BY <1>3, <2>1, <2>3, <3>1
  <2> QED  BY <1>2, <1>3, <2>1, <2>2, <2>4, <2>5
<1>5. /\ cap' = [cap EXCEPT !.used = cap.tail - 1] /\ cap.tail - 1 \in 0..CapSize
      /\ cap'.tail = cap.tail /\ cap'.used = cap.tail - 1 /\ cap'.lcore = cap.lcore
      /\ header' = [header EXCEPT ![cap.tail] = Null]
  BY <1>2, RxDebugAssumption, SMTT(20) DEF CaptureTypes, End
<1>6. CaptureTypes'
  <2>1. cap' \in [lcore : Lcores \cup {NoLcore}, tail : 1..End, used : 0..CapSize]
    BY <1>5 DEF CaptureTypes
  <2>2. header' \in [1..End -> Packets \cup {Null}] /\ header'[End] = Null
    BY <1>2, <1>5, RxDebugAssumption, SMTT(30) DEF CaptureTypes, End
  <2> QED  BY <1>1, <1>4, <2>1, <2>2 DEF CaptureTypes
<1>7. OneWriter' /\ WriterInv'
  BY <1>1, <1>2, <1>5 DEF OneWriter, WriterInv, Writing
<1>8. EnabledInv'
  BY <1>1, <1>5 DEF EnabledInv, Enabled
<1>9. FileInv'
  BY <1>1, <1>2, <1>4, SMTT(30) DEF FileInv, CaptureTypes
<1>10. BufferInv'
  <2>1. SUFFICES ASSUME Enabled PROVE BufferInv'
    BY <1>5 DEF BufferInv, Enabled
  <2>2. /\ cap.lcore = l /\ cap.tail = cap.used + i[l] /\ cap.used < cap.tail
        /\ Len(captured) = cap.used
        /\ \A e \in 1..cap.used : header[e] = captured[e] /\ data[e] = captured[e]
        /\ \A e \in 1..(i[l] - 1) : /\ header[cap.used + e] = burst[l][e]
                                    /\ data[cap.used + e] = burst[l][e]
    BY <1>1, <1>2, <2>1 DEF BufferInv
  <2>3. /\ \A e \in 1..End : e # cap.tail => header'[e] = header[e]
        /\ pc'[l] = "idle" /\ data' = data
    BY <1>1, <1>2, <1>5 DEF CaptureTypes
  <2> HIDE DEF CaptureInv, CaptureSentinel
  <2>4. ASSUME NEW e \in 1..cap'.used
        PROVE  header'[e] = captured'[e] /\ data'[e] = captured'[e]
    <3>1. header'[e] = header[e] /\ data'[e] = data[e]
      BY <1>2, <1>5, <2>3
    <3>2. CASE e <= cap.used
      BY <1>2, <1>4, <2>2, <3>1, <3>2
    <3>3. CASE e > cap.used
      <4>1. e - cap.used \in 1..(i[l] - 1) /\ cap.used + (e - cap.used) = e
        BY <1>2, <1>5, <2>2, <3>3
      <4>2. /\ header[cap.used + (e - cap.used)] = burst[l][e - cap.used]
            /\ data[cap.used + (e - cap.used)] = burst[l][e - cap.used]
        BY <2>2, <4>1
      <4>3. captured'[e] = burst[l][e - cap.used]
        BY <1>4, <2>2, <4>1
      <4> QED  BY <3>1, <4>1, <4>2, <4>3
    <3> QED  BY <1>2, <1>5, <3>2, <3>3
  <2>5. Len(captured') = cap'.used /\ cap'.tail = cap'.used + 1
    BY <1>2, <1>4, <1>5, <2>2
  <2> QED  BY <1>2, <1>5, <2>2, <2>3, <2>4, <2>5 DEF BufferInv
<1> QED  BY <1>6, <1>7, <1>8, <1>9, <1>10

LEMMA CaptureInit ==
  ASSUME Init
  PROVE  CaptureInv
<1> USE RxDebugAssumption DEF Init
<1>1. LcoreInv
  BY DEF LcoreInv, MasterPc
<1>2. CaptureTypes
  <2>1. cap \in [lcore : Lcores \cup {NoLcore}, tail : 1..End, used : 0..CapSize]
    BY DEF End
  <2>2. captured \in Seq(Packets) /\ due \in Seq(Packets)
    BY EmptySeq
  <2>3. file \in Seq([pkt : Packets, bytes : Packets \cup {Null}])
    <3> DEFINE entries == [pkt : Packets, bytes : Packets \cup {Null}]
    <3>1. file = << >>
      OBVIOUS
    <3> HIDE DEF entries
    <3>2. file \in Seq(entries)
      BY <3>1, EmptySeq
    <3> QED  BY <3>2 DEF entries
  <2>4. header[End] = Null /\ hdr \in 1..End
    BY DEF End
  <2> QED  BY <2>1, <2>2, <2>3, <2>4 DEF CaptureTypes
<1>3. OneWriter /\ WriterInv /\ EnabledInv /\ BufferInv /\ FileInv
  BY DEF OneWriter, WriterInv, EnabledInv, BufferInv, FileInv, Enabled, Writing
<1> QED  BY <1>1, <1>2, <1>3 DEF CaptureInv

LEMMA CaptureNext ==
  ASSUME Patient, CaptureInv, [Next]_vars
  PROVE  CaptureInv'
<1>1. LcoreInv'
  BY LcoreStep DEF CaptureInv
<1>2. CASE DumpMaster
  BY <1>1, <1>2, QuietMasterStep
<1>3. CASE CaptureMaster
  BY <1>1, <1>3, EnableStep, DisableStep, WalkStep, ResetStep, FlagStep
     DEF CaptureMaster
<1>4. ASSUME NEW l \in Lcores, Receive(l) \/ DumpStep(l)
      PROVE  CaptureInv'
  BY <1>1, <1>4, QuietLcoreStep
<1>5. ASSUME NEW l \in Lcores, CaptureStep(l)
      PROVE  CaptureInv'
  BY <1>1, <1>5, CaptureFlagStep, CaptureLcoreStep, CaptureFullStep,
     CaptureHeaderStep, CaptureDataStep, CaptureSentinelStep DEF CaptureStep
<1>6. CASE UNCHANGED vars
  BY <1>1, <1>6, UnchangedStep
<1> QED  BY <1>2, <1>3, <1>4, <1>5, <1>6, Kinds

(* A packet in a complete burst of the capture is in the file, whole and   *)
(* in order, when the capture is switched off, however many lcores receive *)
(* on the port and whatever the one that captures does meanwhile, if no    *)
(* lcore is still in a burst of the last capture when one is switched on   *)
(* (pktgen_set_capture against pktgen_packet_capture_bulk).                *)
THEOREM CaptureKept ==
  ASSUME Patient
  PROVE  Spec => []CaptureSaved
<1>1. Init => CaptureInv
  BY CaptureInit
<1>2. CaptureInv /\ [Next]_vars => CaptureInv'
  BY CaptureNext
<1>3. CaptureInv => CaptureSaved
  BY DEF CaptureInv, CaptureTypes, FileInv, CaptureSaved
<1> QED  BY <1>1, <1>2, <1>3, PTL DEF Spec
-----------------------------------------------------------------------------
(***************************************************************************)
(* The dump, step by step.                                                 *)
(***************************************************************************)
Alone == \A k, l \in Lcores : k = l

(* A step that leaves the dump alone, a burst that arrives included.       *)
LEMMA DumpQuiet ==
  ASSUME DumpInv, LcoreInv',
         UNCHANGED <<list, head, tail, count, live, content, n, want, asked>>,
         UNCHANGED <<dumped, printed>>,
         mpc' = mpc \/ (mpc \notin Asking /\ mpc' \notin Asking),
         \A l \in Lcores :
           \/ pc'[l] = pc[l] /\ burst'[l] = burst[l] /\ i'[l] = i[l]
           \/ pc[l] \notin InDump /\ pc'[l] \notin InDump
           \/ pc[l] \notin InDump /\ pc'[l] = "count" /\ count > 0
  PROVE  DumpInv'
<1> USE DEF DumpInv
<1>1. DumpTypes'
  BY DEF DumpTypes
<1>2. AskInv'
  BY DEF AskInv, Asking, DumpTypes
<1>3. CountInv'
  BY DEF CountInv, CountOf, InDump, Copying
<1>4. ListInv'
  BY DEF ListInv
<1>5. HeapInv'
  BY DEF HeapInv, InDump
<1> QED  BY <1>1, <1>2, <1>3, <1>4, <1>5

LEMMA QuietSteps ==
  ASSUME DumpInv, LcoreInv',
         \/ CaptureMaster \/ UNCHANGED vars
         \/ \E l \in Lcores : Receive(l) \/ CaptureStep(l)
  PROVE  DumpInv'
<1>1. CASE CaptureMaster
  <2>1. mpc \notin Asking /\ mpc' \notin Asking
    BY <1>1, CaptureMasterFrame
  <2>2. /\ UNCHANGED <<list, head, tail, count, live, content, n, want, asked>>
        /\ UNCHANGED <<dumped, printed, pc, burst, i>>
    BY <1>1, CaptureMasterFrame
  <2> QED  BY <2>1, <2>2, DumpQuiet
<1>2. CASE UNCHANGED vars
  <2>1. /\ UNCHANGED <<list, head, tail, count, live, content, n, want, asked>>
        /\ UNCHANGED <<dumped, printed, pc, burst, i, mpc>>
    BY <1>2 DEF vars, heap, rx, master, dhist
  <2> QED  BY <2>1, DumpQuiet
<1>3. ASSUME NEW l \in Lcores, Receive(l)
      PROVE  DumpInv'
  <2>1. /\ UNCHANGED <<list, head, tail, count, live, content, n, want, asked>>
        /\ UNCHANGED <<dumped, printed, mpc>>
        /\ pc[l] = "idle" /\ pc'[l] = IF count > 0 THEN "count" ELSE "flag"
        /\ \A k \in Lcores \ {l} :
             pc'[k] = pc[k] /\ burst'[k] = burst[k] /\ i'[k] = i[k]
    BY <1>3 DEF Receive, At, Goto, heap, master, dhist, DumpInv, LcoreInv
  <2>2. "idle" \notin InDump /\ "flag" \notin InDump
    BY DEF InDump
  <2> QED  BY <2>1, <2>2, DumpQuiet
<1>4. ASSUME NEW l \in Lcores, CaptureStep(l)
      PROVE  DumpInv'
  <2>1. /\ UNCHANGED <<list, head, tail, count, live, content, n, want, asked>>
        /\ UNCHANGED <<dumped, printed, mpc, burst>>
        /\ pc[l] \in InCapture /\ \E to \in InCapture \cup {"idle"} : Goto(l, to)
    BY <1>4, CaptureFrame
  <2>2. /\ pc[l] \notin InDump /\ pc'[l] \notin InDump
        /\ \A k \in Lcores \ {l} : pc'[k] = pc[k]
    BY <2>1 DEF InDump, InCapture, Goto, DumpInv, LcoreInv
  <2>3. \A k \in Lcores \ {l} : i'[k] = i[k]
    BY <1>4 DEF CaptureStep, CaptureFlag, CaptureLcore, CaptureFull,
       CaptureHeader, CaptureData, CaptureSentinel, DumpInv, LcoreInv
  <2> QED  BY <2>1, <2>2, <2>3, DumpQuiet
<1> QED  BY <1>1, <1>2, <1>3, <1>4

(* The command: no lcore is in the dump until it is done.                  *)
LEMMA AskDumpStep ==
  ASSUME Patient, DumpInv, LcoreInv', NEW k \in Asked, AskDump(k)
  PROVE  DumpInv'
<1> USE DEF DumpInv, AskDump, Master, MGoto, rx, dhist
<1>1. DumpTypes'
  BY RxDebugAssumption DEF DumpTypes
<1>2. AskInv'
  BY DEF AskInv, InDump
<1>3. CountInv'
  BY DEF CountInv, CountOf, InDump, Copying
<1>4. ListInv'
  BY DEF ListInv, Asking
<1>5. HeapInv'
  BY DEF HeapInv
<1> QED  BY <1>1, <1>2, <1>3, <1>4, <1>5

LEMMA AskTailStep ==
  ASSUME DumpInv, LcoreInv', AskTail \/ AskHead
  PROVE  DumpInv'
<1> USE DEF DumpInv, AskTail, AskHead, Master, MGoto, rx, dhist
<1>1. \A l \in Lcores : pc[l] \notin InDump
  BY DEF AskInv, Asking
<1>2. DumpTypes'
  <2>1. CASE AskTail  BY <2>1, RxDebugAssumption DEF DumpTypes
  <2>2. CASE AskHead  BY <2>2, RxDebugAssumption DEF DumpTypes
  <2> QED  BY <2>1, <2>2
<1>3. AskInv'
  BY DEF AskInv, Asking
<1>4. CountInv'
  BY <1>1 DEF CountInv, CountOf, InDump, Copying
<1>5. ListInv'
  BY DEF ListInv, Asking
<1>6. HeapInv'
  BY <1>1 DEF HeapInv, InDump
<1> QED  BY <1>2, <1>3, <1>4, <1>5, <1>6

(* An entry whose block is freed and which is cleared.                     *)
LEMMA Freed ==
  ASSUME DumpInv, NEW s \in Slots,
         live' = live \ {list[s]}, list' = [list EXCEPT ![s] = Null]
  PROVE  /\ live' \subseteq Blocks /\ list' \in [Slots -> Blocks \cup {Null}]
         /\ \A b \in live' : \E t \in Slots : list'[t] = b
         /\ \A t \in Slots : list'[t] # Null =>
              /\ list[t] # Null /\ list'[t] = list[t]
              /\ list[t] \in live => list'[t] \in live'
         /\ \A t \in Slots : list[t] \in live /\ t # s =>
              list'[t] = list[t] /\ list'[t] \in live'
<1>1. \A t \in Slots : list[t] \in live => list[t] # Null
  BY RxDebugAssumption DEF DumpInv, DumpTypes, Blocks, Null
<1>2. \A t \in Slots : list[t] # Null /\ t # s => list[t] # list[s]
  BY DEF DumpInv, HeapInv
<1> QED  BY <1>1, <1>2 DEF DumpInv, DumpTypes, HeapInv

LEMMA AskClearStep ==
  ASSUME DumpInv, LcoreInv', AskClear
  PROVE  DumpInv'
<1> USE DEF DumpInv, AskClear, Master, MGoto, rx, dhist
<1>1. \A l \in Lcores : pc[l] \notin InDump
  BY DEF AskInv, Asking
<1>2. 0 \in Slots
  BY RxDebugAssumption DEF Slots
<1>3. DumpTypes'
  BY <1>2, Freed DEF DumpTypes
<1>4. AskInv'
  BY DEF AskInv, Asking
<1>5. CountInv'
  BY <1>1 DEF CountInv, CountOf, InDump, Copying
<1>6. ListInv'
  BY DEF ListInv, Asking
<1>7. HeapInv'
  <2>1. \A t \in Slots : list'[t] # Null => list'[t] \in live' /\ list'[t] = list[t]
    BY <1>1, <1>2, Freed DEF HeapInv, InDump
  <2>2. \A b \in live' : \E s \in Slots : list'[s] = b
    BY <1>2, Freed
  <2>3. \A s, t \in Slots : list'[s] # Null /\ list'[s] = list'[t] => s = t
    BY <2>1 DEF HeapInv
  <2> QED  BY <1>1, <2>1, <2>2, <2>3 DEF HeapInv, InDump
<1> QED  BY <1>3, <1>4, <1>5, <1>6, <1>7

LEMMA AskCountStep ==
  ASSUME DumpInv, LcoreInv', AskCount
  PROVE  DumpInv'
<1> USE DEF DumpInv, AskCount, Master, MGoto, rx
<1>1. /\ \A l \in Lcores : pc[l] \notin InDump
      /\ tail = 0 /\ head = 0 /\ mpc' = "idle" /\ Len(dumped') = 0 /\ Len(printed') = 0
  BY DEF AskInv, Asking
<1>2. DumpTypes'
  <2>1. dumped' \in Seq(Packets) /\ printed' \in Seq(Packets)
    BY EmptySeq
  <2>2. count' \in 0..255 /\ asked' \in Nat
    BY RxDebugAssumption DEF DumpTypes
  <2> QED  BY <2>1, <2>2 DEF DumpTypes
<1>3. AskInv'
  BY <1>1 DEF AskInv, Asking
<1>4. CountInv'
  BY <1>1 DEF CountInv, CountOf, InDump, Copying, DumpTypes
<1>5. ListInv'
  BY <1>1 DEF ListInv
<1>6. HeapInv'
  BY <1>1 DEF HeapInv, InDump
<1> QED  BY <1>2, <1>3, <1>4, <1>5, <1>6

(* One turn of the display: the entry that is printed is one that counts.  *)
LEMMA PrintDumpStep ==
  ASSUME DumpInv, LcoreInv', PrintDump
  PROVE  DumpInv'
<1> USE DEF DumpInv, PrintDump, Master, rx, master
<1>1. /\ mpc = "idle" /\ mpc' = "idle" /\ mpc \notin Asking /\ head \in Slots
      /\ head < tail /\ head' = head + 1 /\ head \in Nat /\ tail \in 0..MaxDump
      /\ UNCHANGED <<tail, count, content, want, asked, dumped, pc, burst, i, n>>
  BY RxDebugAssumption DEF Asking, DumpTypes, Slots
<1>2. /\ Len(dumped) = tail /\ Len(printed) = head
      /\ \A s \in head..(tail - 1) :
           list[s] \in live /\ content[list[s]] = dumped[s + 1]
      /\ \A e \in 1..Len(printed) : printed[e] = dumped[e]
  BY <1>1 DEF ListInv
<1>3. /\ printed' = Append(printed, dumped[head + 1]) /\ dumped[head + 1] \in Packets
      /\ printed \in Seq(Packets)
  BY <1>1, <1>2 DEF DumpTypes
<1>4. /\ printed' \in Seq(Packets) /\ Len(printed') = head + 1
      /\ \A e \in 1..head : printed'[e] = printed[e]
      /\ printed'[head + 1] = dumped[head + 1]
  BY <1>2, <1>3, AppendProperties
<1>5. DumpTypes'
  <2>1. live' \subseteq Blocks /\ list' \in [Slots -> Blocks \cup {Null}]
    BY <1>1, Freed
  <2>2. head' \in 0..MaxDump
    BY <1>1, RxDebugAssumption
  <2>3. DumpTypes
    OBVIOUS
  <2> HIDE DEF PrintDump, DumpInv
  <2> QED  BY <1>1, <1>4, <2>1, <2>2, <2>3 DEF DumpTypes
<1>6. AskInv'
  BY <1>1 DEF AskInv, Asking
<1>7. CountInv'
  BY <1>1 DEF CountInv, CountOf
<1>8. ListInv'
  <2>1. ASSUME NEW s \in (head + 1)..(tail - 1)
        PROVE  list'[s] \in live' /\ content'[list'[s]] = dumped'[s + 1]
    <3>1. s \in head..(tail - 1) /\ s \in Slots /\ s # head
      BY <1>1, RxDebugAssumption DEF Slots
    <3>2. s \in head..(tail - 1)
      BY <3>1
    <3>3. list[s] \in live /\ content[list[s]] = dumped[s + 1]
      BY <1>2, <3>2
    <3>4. list'[s] = list[s] /\ list'[s] \in live'
      BY <1>1, <3>1, <3>3, Freed
    <3> QED  BY <1>1, <3>3, <3>4
  <2>2. \A e \in 1..(head + 1) : printed'[e] = dumped[e]
    BY <1>1, <1>2, <1>4
  <2> HIDE DEF PrintDump, DumpInv
  <2> QED  BY <1>1, <1>2, <1>4, <2>1, <2>2 DEF ListInv
<1>9. HeapInv'
  <2>1. \A t \in Slots : list'[t] # Null =>
          list'[t] \in live' \/ (t = tail /\ \E l \in Lcores : pc[l] = "alloc")
    BY <1>1, Freed DEF HeapInv
  <2>2. \A b \in live' : \E s \in Slots : list'[s] = b
    BY <1>1, Freed
  <2>3. \A s, t \in Slots : list'[s] # Null /\ list'[s] = list'[t] => s = t
    BY <1>1, Freed DEF HeapInv
  <2>4. ASSUME NEW l \in Lcores, pc[l] \in Copying
        PROVE  tail \in Slots /\ list'[tail] = list[tail]
               /\ (list[tail] \in live => list'[tail] \in live')
               /\ (list[tail] \notin live => list'[tail] \notin live')
    <3>1. tail < MaxDump
      BY <1>1, <2>4, RxDebugAssumption, SMTT(20) DEF CountInv, CountOf, DumpTypes,
         LcoreInv
    <3>2. tail \in Slots /\ tail # head
      BY <1>1, <3>1, RxDebugAssumption DEF Slots
    <3> QED  BY <1>1, <3>2, Freed DEF DumpTypes
  <2> QED  BY <1>1, <2>1, <2>2, <2>3, <2>4 DEF HeapInv, Copying
<1> QED  BY <1>5, <1>6, <1>7, <1>8, <1>9

(* An lcore of the dump, alone on the port.                                *)
LEMMA InTheDump ==
  ASSUME Alone, DumpInv, NEW l \in Lcores, pc[l] \in InDump
  PROVE  /\ mpc \notin Asking
         /\ pc \in [Lcores -> Places] /\ i \in [Lcores -> Nat \ {0}]
         /\ n \in [Lcores -> Nat] /\ burst[l] \in Seq(Packets)
         /\ Len(burst[l]) \in Nat
         /\ head \in 0..MaxDump /\ tail \in 0..MaxDump /\ count \in 0..255
         /\ MaxDump \in Nat /\ asked \in Nat /\ Len(dumped) \in Nat
         /\ \A k \in Lcores : k = l
         /\ Len(dumped) = tail /\ Len(printed) = head /\ head <= tail
         /\ \A s \in head..(tail - 1) :
              list[s] \in live /\ content[list[s]] = dumped[s + 1]
<1>1. mpc \notin Asking
  BY DEF DumpInv, AskInv
<1>2. /\ pc \in [Lcores -> Places] /\ i \in [Lcores -> Nat \ {0}]
      /\ n \in [Lcores -> Nat] /\ burst[l] \in Seq(Packets)
      /\ Len(burst[l]) \in Nat
  BY DEF DumpInv, LcoreInv, DumpTypes, Places
<1>3. /\ head \in 0..MaxDump /\ tail \in 0..MaxDump /\ count \in 0..255
      /\ MaxDump \in Nat /\ asked \in Nat /\ Len(dumped) \in Nat
  BY RxDebugAssumption DEF DumpInv, DumpTypes
<1>4. /\ Len(dumped) = tail /\ Len(printed) = head /\ head <= tail
      /\ \A s \in head..(tail - 1) :
           list[s] \in live /\ content[list[s]] = dumped[s + 1]
  BY <1>1 DEF DumpInv, ListInv
<1> QED  BY <1>1, <1>2, <1>3, <1>4 DEF Alone

LEMMA CountStep ==
  ASSUME Alone, DumpInv, LcoreInv', NEW l \in Lcores, DumpCount(l) \/ DumpRoom(l)
  PROVE  DumpInv'
<1>1. /\ pc[l] \in InDump /\ pc[l] \notin Copying /\ pc[l] \notin {"alloc", "done"}
      /\ i[l] = 1
      /\ UNCHANGED <<list, head, tail, count, live, content, burst, i, want, asked>>
      /\ UNCHANGED <<dumped, printed, mpc>>
  BY DEF DumpCount, DumpRoom, At, InDump, Copying, DumpInv, LcoreInv, heap, dhist,
     master
<1>2. /\ mpc \notin Asking /\ Len(burst[l]) \in Nat /\ count \in Nat
      /\ tail \in 0..MaxDump /\ MaxDump \in Nat /\ n \in [Lcores -> Nat]
      /\ \A k \in Lcores : k = l
      /\ Len(dumped) \in Nat /\ asked \in Nat /\ pc \in [Lcores -> Places]
      /\ Len(dumped) + count <= asked
  <2>1. Len(dumped) + count <= asked
    BY <1>1 DEF DumpInv, CountInv, CountOf
  <2>2. /\ mpc \notin Asking /\ pc \in [Lcores -> Places] /\ n \in [Lcores -> Nat]
        /\ Len(burst[l]) \in Nat /\ tail \in 0..MaxDump /\ count \in 0..255
        /\ MaxDump \in Nat /\ asked \in Nat /\ Len(dumped) \in Nat
    BY <1>1, InTheDump
  <2>3. \A k \in Lcores : k = l
    BY DEF Alone
  <2> QED  BY <2>1, <2>2, <2>3
<1>3. /\ n' \in [Lcores -> Nat]
      /\ pc'[l] \in {"room", "flag", "free"}
      /\ pc'[l] = "room" => n'[l] <= count /\ n'[l] <= Len(burst[l])
      /\ pc'[l] = "free" => /\ 1 <= n'[l] /\ n'[l] <= count /\ n'[l] <= Len(burst[l])
                            /\ tail + n'[l] - 1 < MaxDump
  <2>1. CASE DumpCount(l)
    BY <1>2, <2>1 DEF DumpCount, Smaller, Goto
  <2>2. CASE DumpRoom(l)
    <3>1. /\ n' = [n EXCEPT ![l] = Smaller(n[l], MaxDump - tail)]
          /\ n[l] <= count /\ n[l] <= Len(burst[l]) /\ n[l] \in Nat
          /\ MaxDump - tail \in Nat
          /\ pc' = [pc EXCEPT ![l] = IF n'[l] = 0 THEN "flag" ELSE "free"]
      BY <1>2, <2>2 DEF DumpRoom, At, Goto, DumpInv, CountInv, CountOf
    <3>2. n'[l] \in Nat /\ n'[l] <= n[l] /\ n'[l] <= MaxDump - tail
      BY <1>2, <3>1 DEF Smaller
    <3> QED  BY <1>2, <3>1, <3>2 DEF Smaller
  <2> QED  BY <2>1, <2>2
<1>4. DumpTypes'
  BY <1>1, <1>3 DEF DumpInv, DumpTypes
<1>5. AskInv'
  BY <1>1, <1>2 DEF AskInv, Asking
<1>6. CountInv'
  BY <1>1, <1>2, <1>3 DEF CountInv, CountOf, Copying
<1>7. ListInv'
  BY <1>1 DEF DumpInv, ListInv
<1>8. HeapInv'
  BY <1>1, <1>2, <1>3 DEF DumpInv, HeapInv, Copying
<1> QED  BY <1>4, <1>5, <1>6, <1>7, <1>8 DEF DumpInv

LEMMA FreeStep ==
  ASSUME Alone, DumpInv, LcoreInv', NEW l \in Lcores, DumpFree(l)
  PROVE  DumpInv'
<1>1. /\ pc[l] = "free" /\ pc[l] \in InDump /\ pc[l] \in Copying
      /\ pc' = [pc EXCEPT ![l] = "alloc"] /\ live' = live \ {list[tail]}
      /\ UNCHANGED <<list, head, tail, count, content, burst, i, n, want, asked>>
      /\ UNCHANGED <<dumped, printed, mpc>>
  BY DEF DumpFree, At, Goto, InDump, Copying, dhist, master
<1>2. /\ mpc \notin Asking /\ pc \in [Lcores -> Places] /\ i \in [Lcores -> Nat \ {0}]
      /\ n \in [Lcores -> Nat] /\ head \in 0..MaxDump /\ tail \in 0..MaxDump
      /\ MaxDump \in Nat /\ \A k \in Lcores : k = l
  BY <1>1, InTheDump
<1>3. tail \in Slots
  <2>1. i[l] <= n[l] /\ tail + n[l] - i[l] < MaxDump
    BY <1>1 DEF DumpInv, CountInv, CountOf
  <2> QED  BY <1>2, <2>1 DEF Slots
<1>4. \A s \in Slots : list[s] # Null => list[s] \in live
  BY <1>1, <1>2 DEF DumpInv, HeapInv
<1>5. \A s \in Slots : list[s] # Null /\ s # tail => list[s] \in live'
  BY <1>1, <1>3, <1>4 DEF DumpInv, HeapInv
<1>6. DumpTypes'
  BY <1>1 DEF DumpInv, DumpTypes
<1>7. AskInv'
  BY <1>1, <1>2 DEF AskInv, Asking
<1>8. CountInv'
  BY <1>1, <1>2 DEF DumpInv, CountInv, CountOf, Copying
<1>9. ListInv'
  <2>1. ASSUME NEW s \in head..(tail - 1)
        PROVE  list[s] \in live'
    <3>1. s \in Slots /\ s # tail /\ list[s] \in live
      BY <1>1, <1>2, <2>1, InTheDump DEF Slots
    <3>2. list[s] # Null
      BY <3>1, RxDebugAssumption DEF DumpInv, DumpTypes, Blocks, Null
    <3> QED  BY <1>5, <3>1, <3>2
  <2> QED  BY <1>1, <2>1 DEF DumpInv, ListInv
<1>10. HeapInv'
  <2>1. \A b \in live' : \E s \in Slots : list'[s] = b
    BY <1>1 DEF DumpInv, HeapInv
  <2>2. \A s \in Slots : list'[s] # Null =>
          list'[s] \in live' \/ (s = tail' /\ \E k \in Lcores : pc'[k] = "alloc")
    BY <1>1, <1>2, <1>5
  <2>3. \A s, t \in Slots : list'[s] # Null /\ list'[s] = list'[t] => s = t
    BY <1>1 DEF DumpInv, HeapInv
  <2>4. list'[tail'] \notin live' /\ \A k \in Lcores : pc'[k] # "copy"
    BY <1>1, <1>2
  <2> QED  BY <2>1, <2>2, <2>3, <2>4 DEF HeapInv
<1> QED  BY <1>6, <1>7, <1>8, <1>9, <1>10 DEF DumpInv

(* A dump never runs out of blocks: an entry holds one at most.            *)
LEMMA RoomInHeap ==
  ASSUME DumpTypes, HeapInv
  PROVE  Blocks \ live # {}
<1> DEFINE held == {list[s] : s \in Slots}
<1>1. live \subseteq held
  BY DEF HeapInv
<1>2. /\ MaxDump \in Nat \ {0} /\ Cardinality(Lcores) \in Nat \ {0}
  BY RxDebugAssumption, FS_CardinalityType, FS_EmptySet
<1>3. IsFiniteSet(Slots) /\ Cardinality(Slots) = MaxDump
  BY <1>2, FS_Interval DEF Slots
<1>4. list \in Surjection(Slots, held)
  BY DEF DumpTypes, Surjection
<1>5. IsFiniteSet(held) /\ Cardinality(held) <= MaxDump
  BY <1>3, <1>4, FS_Surjection
<1>6. Cardinality(Blocks) = MaxDump + Cardinality(Lcores)
  BY <1>2, FS_Interval DEF Blocks
<1>7. IsFiniteSet(live) /\ Cardinality(live) <= Cardinality(held)
  BY <1>1, <1>5, FS_Subset
<1>8. Cardinality(live) \in Nat /\ Cardinality(held) \in Nat
  BY <1>5, <1>7, FS_CardinalityType
<1>9. live # Blocks
  BY <1>2, <1>5, <1>6, <1>7, <1>8
<1> QED  BY <1>9 DEF DumpTypes

LEMMA AllocStep ==
  ASSUME Alone, DumpInv, LcoreInv', NEW l \in Lcores, DumpAlloc(l)
  PROVE  DumpInv'
<1> DEFINE b == CHOOSE x \in Blocks \ live : TRUE
<1>1. /\ pc[l] = "alloc" /\ pc[l] \in InDump /\ pc[l] \in Copying
      /\ pc' = [pc EXCEPT ![l] = "copy"] /\ live' = live \cup {b}
      /\ list' = [list EXCEPT ![tail] = b] /\ content' = [content EXCEPT ![b] = Null]
      /\ UNCHANGED <<head, tail, count, burst, i, n, want, asked>>
      /\ UNCHANGED <<dumped, printed, mpc>>
  BY DEF DumpAlloc, At, Goto, InDump, Copying, dhist, master
<1>2. /\ mpc \notin Asking /\ pc \in [Lcores -> Places] /\ i \in [Lcores -> Nat \ {0}]
      /\ n \in [Lcores -> Nat] /\ head \in 0..MaxDump /\ tail \in 0..MaxDump
      /\ MaxDump \in Nat /\ \A k \in Lcores : k = l
  BY <1>1, InTheDump
<1>3. tail \in Slots
  <2>1. i[l] <= n[l] /\ tail + n[l] - i[l] < MaxDump
    BY <1>1 DEF DumpInv, CountInv, CountOf
  <2> QED  BY <1>2, <2>1 DEF Slots
<1>4. b \in Blocks /\ b \notin live /\ b # Null /\ Null \notin live
  BY RoomInHeap, RxDebugAssumption DEF DumpInv, DumpTypes, Blocks, Null
<1> HIDE DEF b
<1>5. /\ list \in [Slots -> Blocks \cup {Null}] /\ list'[tail] = b
      /\ \A s \in Slots : s # tail => list'[s] = list[s]
      /\ list[tail] \notin live
      /\ \A s \in Slots : list[s] # Null /\ s # tail => list[s] \in live
  BY <1>1, <1>2, <1>3 DEF DumpInv, DumpTypes, HeapInv
<1>6. DumpTypes'
  BY <1>1, <1>4 DEF DumpInv, DumpTypes
<1>7. AskInv'
  BY <1>1, <1>2 DEF AskInv, Asking
<1>8. CountInv'
  BY <1>1, <1>2 DEF DumpInv, CountInv, CountOf, Copying
<1>9. ListInv'
  <2>1. ASSUME NEW s \in head..(tail - 1)
        PROVE  list'[s] \in live' /\ content'[list'[s]] = dumped[s + 1]
    <3>1. /\ s \in Slots /\ s # tail /\ list[s] \in live
          /\ content[list[s]] = dumped[s + 1]
      BY <1>1, <1>2, <2>1, InTheDump DEF Slots
    <3>2. list'[s] = list[s] /\ list[s] # b
      BY <1>4, <1>5, <3>1
    <3> QED  BY <1>1, <3>1, <3>2 DEF DumpInv, DumpTypes
  <2> QED  BY <1>1, <2>1 DEF DumpInv, ListInv
<1>10. HeapInv'
  <2>1. ASSUME NEW x \in live' PROVE \E s \in Slots : list'[s] = x
    <3>1. CASE x = b  BY <1>3, <1>5, <3>1
    <3>2. CASE x \in live
      <4>1. PICK s \in Slots : list[s] = x
        BY <3>2 DEF DumpInv, HeapInv
      <4> QED  BY <1>5, <3>2, <4>1
    <3> QED  BY <1>1, <3>1, <3>2
  <2>2. \A s \in Slots : list'[s] # Null => list'[s] \in live'
    BY <1>1, <1>5
  <2>3. \A s, t \in Slots : list'[s] # Null /\ list'[s] = list'[t] => s = t
    BY <1>4, <1>5 DEF DumpInv, HeapInv
  <2>4. list'[tail'] \in live' /\ \A k \in Lcores : pc'[k] = "copy"
    BY <1>1, <1>2, <1>5
  <2> QED  BY <2>1, <2>2, <2>3, <2>4 DEF HeapInv
<1> QED  BY <1>6, <1>7, <1>8, <1>9, <1>10 DEF DumpInv

(* The entry counts once its block holds the packet.                       *)
LEMMA CopyStep ==
  ASSUME Alone, DumpInv, LcoreInv', NEW l \in Lcores, DumpCopy(l)
  PROVE  DumpInv'
<1>1. /\ pc[l] = "copy" /\ pc[l] \in InDump /\ pc[l] \in Copying
      /\ pc' = [pc EXCEPT ![l] = IF i[l] = n[l] THEN "done" ELSE "free"]
      /\ content' = [content EXCEPT ![list[tail]] = Pkt(l)] /\ tail' = tail + 1
      /\ dumped' = Append(dumped, Pkt(l)) /\ i' = [i EXCEPT ![l] = i[l] + 1]
      /\ UNCHANGED <<list, head, live, count, burst, n, want, asked>>
      /\ UNCHANGED <<printed, mpc>>
  BY DEF DumpCopy, At, Goto, InDump, Copying, master, DumpInv, LcoreInv
<1>2. /\ mpc \notin Asking /\ pc \in [Lcores -> Places] /\ i \in [Lcores -> Nat \ {0}]
      /\ n \in [Lcores -> Nat] /\ head \in 0..MaxDump /\ tail \in 0..MaxDump
      /\ MaxDump \in Nat /\ \A k \in Lcores : k = l
      /\ count \in 0..255 /\ asked \in Nat /\ burst[l] \in Seq(Packets)
      /\ Len(burst[l]) \in Nat
  BY <1>1, InTheDump
<1>3. /\ i[l] <= n[l] /\ n[l] <= count /\ n[l] <= Len(burst[l])
      /\ tail + n[l] - i[l] < MaxDump /\ Len(dumped) + count < asked + i[l]
  BY <1>1 DEF DumpInv, CountInv, CountOf
<1>4. tail \in Slots /\ Pkt(l) \in Packets /\ tail + 1 \in 0..MaxDump
  BY <1>2, <1>3 DEF Slots, Pkt
<1>5. /\ dumped \in Seq(Packets) /\ Len(dumped) = tail /\ Len(printed) = head
      /\ head <= tail
      /\ \A s \in head..(tail - 1) :
           list[s] \in live /\ content[list[s]] = dumped[s + 1]
  <2>1. dumped \in Seq(Packets)
    BY DEF DumpInv, DumpTypes
  <2> QED  BY <1>1, <2>1, InTheDump
<1>6. /\ dumped' \in Seq(Packets) /\ Len(dumped') = tail + 1
      /\ \A e \in 1..tail : dumped'[e] = dumped[e]
      /\ dumped'[tail + 1] = Pkt(l)
  BY <1>1, <1>4, <1>5, AppendProperties
<1>7. list[tail] \in live /\ list[tail] \in Blocks /\ list[tail] # Null
  <2>1. list[tail] \in live
    BY <1>1 DEF DumpInv, HeapInv
  <2>2. list[tail] \in Blocks
    BY <2>1 DEF DumpInv, DumpTypes
  <2> QED  BY <2>1, <2>2 DEF Blocks, Null
<1>8. DumpTypes'
  <2>1. content' \in [Blocks -> Packets \cup {Null}]
    BY <1>1, <1>4 DEF DumpInv, DumpTypes
  <2> QED  BY <1>1, <1>4, <1>6, <2>1 DEF DumpInv, DumpTypes
<1>9. AskInv'
  BY <1>1, <1>2 DEF AskInv, Asking
<1>10. CountInv'
  <2>1. SUFFICES ASSUME NEW k \in Lcores PROVE CountOf(k)'
    BY DEF CountInv
  <2>2. k = l
    BY <1>2
  <2>3. i'[l] = i[l] + 1 /\ pc'[l] = IF i[l] = n[l] THEN "done" ELSE "free"
    BY <1>1, <1>2
  <2>4. /\ Len(dumped') = Len(dumped) + 1 /\ Len(dumped) \in Nat
        /\ UNCHANGED <<n, count, burst, asked>> /\ tail' = tail + 1
    BY <1>1, <1>2, <1>5, <1>6
  <2>5. CASE i[l] = n[l]
    <3>1. pc'[l] = "done"
      BY <2>3, <2>5
    <3>2. Len(dumped') + count <= asked + n[l]
      BY <1>2, <1>3, <2>4, <2>5
    <3> QED  BY <1>3, <2>2, <2>4, <3>1, <3>2 DEF CountOf, Copying
  <2>6. CASE i[l] # n[l]
    <3>1. pc'[l] = "free"
      BY <2>3, <2>6
    <3>2. /\ i'[l] <= n[l] /\ tail' + n[l] - i'[l] < MaxDump
          /\ Len(dumped') + count < asked + i'[l]
      <4>1. /\ i[l] \in Nat /\ n[l] \in Nat /\ tail \in Nat /\ MaxDump \in Nat
            /\ asked \in Nat /\ count \in Nat /\ Len(dumped) \in Nat
        BY <1>2, <2>4
      <4>2. i'[l] <= n[l]
        BY <1>3, <2>3, <2>6, <4>1
      <4>3. tail' + n[l] - i'[l] < MaxDump
        <5>1. /\ tail' = tail + 1 /\ i'[l] = i[l] + 1
              /\ tail + n[l] - i[l] < MaxDump
          BY <1>3, <2>3, <2>4
        <5> QED  BY <4>1, <5>1
      <4>4. Len(dumped') + count < asked + i'[l]
        <5>1. /\ Len(dumped') = Len(dumped) + 1 /\ i'[l] = i[l] + 1
              /\ Len(dumped) + count < asked + i[l]
          BY <1>3, <2>3, <2>4
        <5> QED  BY <4>1, <5>1
      <4> QED  BY <4>2, <4>3, <4>4
    <3> QED  BY <1>3, <2>2, <2>4, <3>1, <3>2 DEF CountOf, Copying
  <2> QED  BY <2>5, <2>6
<1>11. ListInv'
  <2>1. ASSUME NEW s \in head..tail
        PROVE  list[s] \in live /\ content'[list[s]] = dumped'[s + 1]
    <3>1. CASE s = tail
      BY <1>1, <1>6, <1>7, <3>1 DEF DumpInv, DumpTypes
    <3>2. CASE s # tail
      <4>1. s \in head..(tail - 1) /\ s \in Slots /\ s + 1 \in 1..tail
        BY <1>2, <2>1, <3>2 DEF Slots
      <4>2. list[s] \in live /\ content[list[s]] = dumped[s + 1]
        BY <1>5, <4>1
      <4>3. list[s] # list[tail]
        BY <1>4, <1>7, <3>2, <4>1 DEF DumpInv, HeapInv
      <4>4. content'[list[s]] = content[list[s]]
        BY <1>1, <4>2, <4>3 DEF DumpInv, DumpTypes
      <4> QED  BY <1>6, <4>1, <4>2, <4>4
    <3> QED  BY <3>1, <3>2
  <2>2. \A e \in 1..head : printed[e] = dumped'[e]
    <3>1. \A e \in 1..head : printed[e] = dumped[e] /\ e \in 1..tail
      BY <1>2, <1>5 DEF DumpInv, ListInv
    <3> QED  BY <1>6, <3>1
  <2>3. tail' \in Nat /\ tail' = tail + 1 /\ head' = head /\ head <= tail'
    BY <1>1, <1>2, <1>5
  <2>4. printed' = printed /\ Len(printed) = head /\ list' = list /\ live' = live
    BY <1>1, <1>5
  <2>5. head'..(tail' - 1) = head..tail
    BY <1>2, <2>3
  <2> QED  BY <1>6, <2>1, <2>2, <2>3, <2>4, <2>5 DEF ListInv
<1>12. HeapInv'
  <2>1. \A s \in Slots : list[s] # Null => list[s] \in live
    BY <1>1, <1>2 DEF DumpInv, HeapInv
  <2>2. \A k \in Lcores : pc'[k] \notin {"alloc", "copy"}
    BY <1>1, <1>2
  <2> QED  BY <1>1, <2>1, <2>2 DEF DumpInv, HeapInv
<1> QED  BY <1>8, <1>9, <1>10, <1>11, <1>12 DEF DumpInv

LEMMA Wraps ==
  ASSUME NEW c \in 0..255, NEW m \in Nat, m <= c
  PROVE  (c + 256 - m) % 256 = c - m /\ c - m \in 0..255
  OBVIOUS

LEMMA DoneStep ==
  ASSUME Alone, DumpInv, LcoreInv', NEW l \in Lcores, DumpDone(l)
  PROVE  DumpInv'
<1>1. /\ pc[l] = "done" /\ pc[l] \in InDump
      /\ pc' = [pc EXCEPT ![l] = "flag"] /\ count' = (count + 256 - n[l]) % 256
      /\ UNCHANGED <<list, head, tail, live, content, burst, n, want, asked>>
      /\ UNCHANGED <<dumped, printed, mpc>>
  BY DEF DumpDone, At, Goto, InDump, dhist, master
<1>2. /\ mpc \notin Asking /\ pc \in [Lcores -> Places] /\ n \in [Lcores -> Nat]
      /\ count \in 0..255 /\ asked \in Nat /\ Len(dumped) \in Nat
      /\ \A k \in Lcores : k = l
  BY <1>1, InTheDump
<1>3. n[l] <= count /\ Len(dumped) + count <= asked + n[l]
  BY <1>1 DEF DumpInv, CountInv, CountOf
<1>4. count' = count - n[l] /\ count' \in 0..255
  <2>1. n[l] \in Nat /\ n[l] <= count /\ count \in 0..255
    BY <1>2, <1>3
  <2>2. count' = (count + 256 - n[l]) % 256
    BY <1>1
  <2>3. (count + 256 - n[l]) % 256 = count - n[l] /\ count - n[l] \in 0..255
    BY <2>1, Wraps
  <2> QED  BY <2>2, <2>3
<1>5. DumpTypes'
  BY <1>1, <1>4 DEF DumpInv, DumpTypes
<1>6. AskInv'
  BY <1>1, <1>2 DEF AskInv, Asking
<1>7. CountInv'
  <2>1. SUFFICES CountOf(l)'
    BY <1>2 DEF CountInv
  <2>2. pc'[l] = "flag" /\ n[l] \in Nat
    BY <1>1, <1>2
  <2> QED  BY <1>1, <1>2, <1>3, <1>4, <2>2 DEF CountOf, Copying
<1>8. ListInv'
  BY <1>1 DEF DumpInv, ListInv
<1>9. HeapInv'
  BY <1>1, <1>2 DEF DumpInv, HeapInv
<1> QED  BY <1>5, <1>6, <1>7, <1>8, <1>9 DEF DumpInv

LEMMA DumpInit ==
  ASSUME Init
  PROVE  DumpInv
<1> USE RxDebugAssumption DEF Init
<1>1. LcoreInv
  BY DEF LcoreInv, MasterPc
<1>2. DumpTypes
  <2>1. dumped \in Seq(Packets) /\ printed \in Seq(Packets)
    BY EmptySeq
  <2> QED  BY <2>1 DEF DumpTypes
<1>3. AskInv /\ CountInv /\ ListInv
  BY DEF AskInv, CountInv, CountOf, ListInv, Asking, Copying
<1>4. HeapInv
  BY DEF HeapInv
<1> QED  BY <1>1, <1>2, <1>3, <1>4 DEF DumpInv

LEMMA DumpNext ==
  ASSUME Patient, Alone, DumpInv, [Next]_vars
  PROVE  DumpInv'
<1>1. LcoreInv'
  BY LcoreStep DEF DumpInv
<1>2. CASE DumpMaster
  BY <1>1, <1>2, AskDumpStep, AskTailStep, AskClearStep, AskCountStep,
     PrintDumpStep DEF DumpMaster
<1>3. CASE CaptureMaster \/ UNCHANGED vars
  BY <1>1, <1>3, QuietSteps
<1>4. ASSUME NEW l \in Lcores, Receive(l) \/ CaptureStep(l)
      PROVE  DumpInv'
  BY <1>1, <1>4, QuietSteps
<1>5. ASSUME NEW l \in Lcores, DumpStep(l)
      PROVE  DumpInv'
  BY <1>1, <1>5, CountStep, FreeStep, AllocStep, CopyStep, DoneStep DEF DumpStep
<1> QED  BY <1>2, <1>3, <1>4, <1>5, Kinds

LEMMA DumpInvariant ==
  ASSUME Patient, Alone
  PROVE  Spec => []DumpInv
<1>1. Init => DumpInv
  BY DumpInit
<1>2. DumpInv /\ [Next]_vars => DumpInv'
  BY DumpNext
<1> QED  BY <1>1, <1>2, PTL DEF Spec

(* No dump keeps more packets than the user asked for, however they are    *)
(* spread over bursts and wherever the command falls between an lcore's    *)
(* steps, with one lcore on the port and a new dump asked for when the     *)
(* last one is complete (pktgen_packet_dump_bulk, debug_set_port_dump).    *)
THEOREM NoMoreThanAsked ==
  ASSUME Patient, Alone
  PROVE  Spec => []AskedAtMost
<1>1. ASSUME DumpInv PROVE AskedAtMost
  <2>1. PICK l \in Lcores : CountOf(l)
    BY <1>1, RxDebugAssumption DEF DumpInv, CountInv
  <2>2. /\ count \in Nat /\ asked \in Nat /\ Len(dumped) \in Nat
        /\ n[l] \in Nat /\ i[l] \in Nat
    BY <1>1 DEF DumpInv, DumpTypes, LcoreInv
  <2> QED  BY <2>1, <2>2 DEF CountOf, AskedAtMost
<1> QED  BY <1>1, DumpInvariant, PTL

(* What the display prints is what the lcore dumped, whole, in order and   *)
(* once, however its timer falls between the lcore's steps, with one lcore *)
(* on the port (pktgen_print_packet_dump against pktgen_packet_dump).      *)
THEOREM PrintedWhole ==
  ASSUME Patient, Alone
  PROVE  Spec => []PrintsWhole
<1>1. ASSUME DumpInv PROVE PrintsWhole
  <2> DEFINE m == Len(printed)
  <2>1. /\ dumped \in Seq(Packets) /\ printed \in Seq(Packets)
        /\ m \in Nat /\ Len(dumped) \in Nat /\ m <= Len(dumped)
        /\ \A e \in 1..m : printed[e] = dumped[e]
    BY <1>1 DEF DumpInv, DumpTypes, ListInv
  <2> HIDE DEF m
  <2>2. /\ SubSeq(printed, 1, m) \in Seq(Packets) /\ Len(SubSeq(printed, 1, m)) = m
        /\ \A e \in 1..m : SubSeq(printed, 1, m)[e] = printed[e]
    <3>1. m \in 0..Len(printed)
      BY <2>1 DEF m
    <3> QED  BY <2>1, <3>1, SubSeqProperties
  <2>3. /\ SubSeq(dumped, 1, m) \in Seq(Packets) /\ Len(SubSeq(dumped, 1, m)) = m
        /\ \A e \in 1..m : SubSeq(dumped, 1, m)[e] = dumped[e]
    BY <2>1, SubSeqProperties
  <2>4. SubSeq(printed, 1, m) = SubSeq(dumped, 1, m)
    BY <2>1, <2>2, <2>3, SeqEqual
  <2> QED  BY <2>1, <2>4 DEF PrintsWhole, IsPrefix, m
<1> QED  BY <1>1, DumpInvariant, PTL

(* No block of a dump is leaked, freed twice or held by two entries, with  *)
(* one lcore on the port: an lcore between freeing an entry's block and    *)
(* allocating the next is the only time an entry's block is not allocated  *)
(* (pktgen_packet_dump, pktgen_print_packet_dump, debug_set_port_dump).    *)
THEOREM HeapKept ==
  ASSUME Patient, Alone
  PROVE  Spec => []HeapOwned
<1>1. ASSUME DumpInv PROVE HeapOwned
  <2>1. \A b \in live : b # Null
    BY <1>1, RxDebugAssumption DEF DumpInv, DumpTypes, Blocks, Null
  <2> QED  BY <1>1, <2>1 DEF DumpInv, HeapInv, HeapOwned
<1> QED  BY <1>1, DumpInvariant, PTL
-----------------------------------------------------------------------------
(***************************************************************************)
(* Types.                                                                  *)
(***************************************************************************)
BoundsInv ==
  /\ \A l \in Lcores : Len(burst[l]) <= MaxBurst
  /\ i \in [Lcores -> 1..MaxBurst+1] /\ n \in [Lcores -> 0..MaxBurst]
  /\ next \in 1..MaxPkts+1 /\ nreq \in 0..MaxRequests

LEMMA BoundsNext ==
  ASSUME Alone, CaptureInv, DumpInv, BoundsInv, [Next]_vars
  PROVE  BoundsInv'
<1> USE RxDebugAssumption DEF BoundsInv
<1>1. CASE DumpMaster
  BY <1>1 DEF DumpMaster, AskDump, AskTail, AskHead, AskClear, AskCount,
     PrintDump, rx
<1>2. CASE CaptureMaster
  BY <1>2 DEF CaptureMaster, EnableCapture, EnableFlag, DisableCapture,
     WalkBuffer, ResetCapture, ClearFlag, rx
<1>3. ASSUME NEW l \in Lcores, Receive(l)
      PROVE  BoundsInv'
  <2>1. PICK k \in 1..MaxBurst :
          /\ next + k - 1 <= MaxPkts
          /\ burst' = [burst EXCEPT ![l] = [e \in 1..k |-> next + e - 1]]
          /\ next' = next + k
    BY <1>3 DEF Receive
  <2>2. next' \in 1..MaxPkts+1
    <3>1. k \in Nat /\ next \in Nat /\ k >= 1 /\ MaxPkts \in Nat /\ next >= 1
      OBVIOUS
    <3> QED  BY <2>1, <3>1
  <2>3. Len(burst'[l]) = k
    <3> DEFINE b == [e \in 1..k |-> next + e - 1]
    <3>1. b \in Seq(Packets) /\ k \in Nat
      <4>1. k \in Nat /\ next \in Nat \ {0} /\ next + k - 1 <= MaxPkts
        BY <2>1
      <4> QED  BY <4>1, BurstIsSeq
    <3>2. DOMAIN b = 1..k
      OBVIOUS
    <3>3. burst'[l] = b
      BY <2>1 DEF CaptureInv, LcoreInv
    <3> HIDE DEF b
    <3>4. Len(b) \in Nat /\ DOMAIN b = 1..Len(b)
      BY <3>1, LenProperties
    <3> QED  BY <3>1, <3>2, <3>3, <3>4
  <2>4. \A j \in Lcores : Len(burst'[j]) <= MaxBurst
    BY <2>1, <2>3 DEF CaptureInv, LcoreInv
  <2>5. UNCHANGED <<n, nreq>> /\ i' = [i EXCEPT ![l] = 1]
    BY <1>3 DEF Receive
  <2> QED  BY <2>2, <2>4, <2>5
<1>4. ASSUME NEW l \in Lcores, DumpStep(l)
      PROVE  BoundsInv'
  <2>1. /\ UNCHANGED <<burst, next>> /\ pc[l] \in InDump
        /\ Len(burst[l]) \in Nat /\ n[l] \in 0..MaxBurst /\ count \in 0..255
        /\ tail \in 0..MaxDump
    BY <1>4, DumpFrame, InTheDump
  <2>2. CASE DumpCount(l)
    <3>1. Smaller(Len(burst[l]), count) \in 0..MaxBurst
      BY <2>1 DEF Smaller
    <3> QED  BY <2>1, <2>2, <3>1 DEF DumpCount
  <2>3. CASE DumpRoom(l)
    <3>1. Smaller(n[l], MaxDump - tail) \in 0..MaxBurst
      BY <2>1 DEF Smaller
    <3> QED  BY <2>1, <2>3, <3>1 DEF DumpRoom
  <2>4. CASE DumpFree(l) \/ DumpAlloc(l) \/ DumpDone(l)
    BY <2>1, <2>4, SMTT(30) DEF DumpFree, DumpAlloc, DumpDone
  <2>5. CASE DumpCopy(l)
    <3>1. i[l] <= n[l]
      BY <2>5 DEF DumpCopy, At, DumpInv, CountInv, CountOf, Copying
    <3>2. i[l] + 1 \in 1..MaxBurst+1
      BY <2>1, <3>1
    <3> QED  BY <2>1, <2>5, <3>2 DEF DumpCopy
  <2> QED  BY <1>4, <2>2, <2>3, <2>4, <2>5 DEF DumpStep
<1>5. ASSUME NEW l \in Lcores, CaptureStep(l)
      PROVE  BoundsInv'
  <2>1. UNCHANGED <<burst, n, next, nreq>>
    BY <1>5, CaptureFrame DEF CaptureStep, CaptureFlag, CaptureLcore,
       CaptureFull, CaptureHeader, CaptureData, CaptureSentinel
  <2>2. CASE CaptureData(l)
    <3>1. i[l] <= Len(burst[l]) /\ Len(burst[l]) \in Nat
      BY <2>2 DEF CaptureData, At, CaptureInv, WriterInv, LcoreInv
    <3>2. i[l] + 1 \in 1..MaxBurst+1
      BY <3>1
    <3> QED  BY <2>1, <2>2, <3>2 DEF CaptureData
  <2>3. CASE ~CaptureData(l)
    BY <1>5, <2>1, <2>3 DEF CaptureStep, CaptureFlag, CaptureLcore,
       CaptureFull, CaptureHeader, CaptureSentinel
  <2> QED  BY <2>2, <2>3
<1>6. CASE UNCHANGED vars
  BY <1>6 DEF vars, rx
<1> QED  BY <1>1, <1>2, <1>3, <1>4, <1>5, <1>6, Kinds

(* The fields of the dump and of the capture, and the places of the master *)
(* and of the lcore that receives on the port, keep their types: no step   *)
(* of either tool leaves its list, its buffer or its burst.                *)
THEOREM Types ==
  ASSUME Patient, Alone
  PROVE  Spec => []TypeOK
<1> DEFINE Inv == CaptureInv /\ DumpInv /\ BoundsInv
<1>1. Init => Inv
  <2> SUFFICES ASSUME Init PROVE Inv
    OBVIOUS
  <2>1. BoundsInv
    BY RxDebugAssumption DEF Init, BoundsInv
  <2> QED  BY <2>1, CaptureInit, DumpInit
<1>2. Inv /\ [Next]_vars => Inv'
  BY CaptureNext, DumpNext, BoundsNext
<1>3. Inv => TypeOK
  BY DEF CaptureInv, LcoreInv, CaptureTypes, DumpInv, DumpTypes, BoundsInv, TypeOK
<1> QED  BY <1>1, <1>2, <1>3, PTL DEF Spec
=============================================================================

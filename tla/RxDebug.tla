------------------------------ MODULE RxDebug ------------------------------
(***************************************************************************)
(* The two tools of pktgen that keep received packets for the user: the    *)
(* packet dump (app/pktgen-dump.c, debug_set_port_dump) and the packet     *)
(* capture (app/pktgen-capture.c) of one port.  The lcores that receive on *)
(* the port store packets burst by burst; the master lcore asks for a      *)
(* dump, prints what was dumped from its display timer, and switches the   *)
(* capture on and off, which writes the captured packets to a file.        *)
(* Nothing is locked: an action is one access to a word they share, and a  *)
(* read-modify-write of one is one access.                                 *)
(***************************************************************************)
EXTENDS Naturals, Sequences, FiniteSets, SequencesExt

CONSTANTS
  Lcores,     \* lcores that receive on the port
  MaxDump,    \* MAX_DUMP_PACKETS
  Asked,      \* packet counts a dump may be asked for
  CapSize,    \* packets the capture buffer has room for
  MaxBurst,   \* packets of a received burst, at most
  Patient,    \* the user asks for a dump only when the last one is complete,
              \* and for a capture only when no lcore is in a burst it
              \* received during the last one
  MaxPkts,    \* bound: packets received
  MaxRequests \* bound: dumps asked for, and captures switched on

ASSUME RxDebugAssumption ==
  /\ Lcores # {} /\ IsFiniteSet(Lcores) /\ "none" \notin Lcores
  /\ MaxDump \in 1..255                        \* dump_tail is a uint8_t
  /\ Asked \subseteq 0..MaxDump                \* clamped by the command
  /\ CapSize \in Nat \ {0} /\ MaxBurst \in Nat \ {0}
  /\ Patient \in BOOLEAN
  /\ MaxPkts \in Nat /\ MaxRequests \in Nat

Packets == 1..MaxPkts                    \* in the order of their arrival
Slots   == 0..MaxDump-1
Blocks  == 1..MaxDump + Cardinality(Lcores)
Null    == 0                             \* no block, no packet, no header
End     == CapSize + 1                   \* cap->end

VARIABLES
  \* the dump's fields of port_info_t, and the heap
  list,       \* dump_list[].data
  head, tail, \* dump_head, dump_tail
  count,      \* dump_count, a uint8_t
  live,       \* allocated blocks
  content,    \* packet whose bytes a block holds
  \* the capture_t of the socket
  capturing,  \* CAPTURE_PKTS
  cap,        \* its lcore, tail and used
  header,     \* the packet each header in the buffer is of: Null ends the data
  data,       \* the packet whose bytes follow it
  \* the lcores
  pc, burst, i, n,
  \* the master
  mpc, want, hdr, next,
  \* what was asked and what came of it, read by no action
  asked, dumped, printed, captured, due, file, nreq

heap   == <<list, head, tail, count, live, content>>
buffer == <<capturing, cap, header, data>>
rx     == <<pc, burst, i, n>>
master == <<mpc, want, hdr>>
dhist  == <<asked, dumped, printed>>
chist  == <<captured, due, file>>
vars   == <<heap, buffer, rx, master, next, dhist, chist, nreq>>

NoLcore == "none"                        \* RTE_MAX_LCORE

Init ==
  /\ list = [s \in Slots |-> Null]
  /\ head = 0 /\ tail = 0 /\ count = 0
  /\ live = {} /\ content = [b \in Blocks |-> Null]
  /\ capturing = FALSE
  /\ cap = [lcore |-> NoLcore, tail |-> 1, used |-> 0]
  /\ header = [e \in 1..End |-> Null] /\ data = [e \in 1..End |-> Null]
  /\ pc = [l \in Lcores |-> "idle"] /\ burst = [l \in Lcores |-> << >>]
  /\ i = [l \in Lcores |-> 1] /\ n = [l \in Lcores |-> 0]
  /\ mpc = "idle" /\ want = 0 /\ hdr = 1
  /\ next = 1
  /\ asked = 0 /\ dumped = << >> /\ printed = << >>
  /\ captured = << >> /\ due = << >> /\ file = << >>
  /\ nreq = 0

-----------------------------------------------------------------------------
(* The master.                                                             *)

Master(here) == mpc = here
MGoto(there) == mpc' = there

InDump    == {"count", "room", "free", "alloc", "copy", "done"}
InCapture == {"flag", "lcore", "full", "header", "data", "sentinel"}

\* debug_set_port_dump, field by field.
AskDump(k) ==
  /\ Master("idle") /\ nreq < MaxRequests
  /\ Patient => count = 0 /\ \A l \in Lcores : pc[l] \notin InDump
  /\ want' = k /\ count' = 0
  /\ nreq' = nreq + 1
  /\ MGoto("tail")
  /\ UNCHANGED <<list, head, tail, live, content, buffer, rx, hdr, next, dhist,
                 chist>>

AskTail ==
  /\ Master("tail")
  /\ tail' = 0
  /\ MGoto("head")
  /\ UNCHANGED <<list, head, count, live, content, buffer, rx, want, hdr, next,
                 dhist, chist, nreq>>

AskHead ==
  /\ Master("head")
  /\ head' = 0
  /\ MGoto("clear")
  /\ UNCHANGED <<list, tail, count, live, content, buffer, rx, want, hdr, next,
                 dhist, chist, nreq>>

\* The loop over dump_list looks at its first entry every time.
AskClear ==
  /\ Master("clear")
  /\ live' = live \ {list[0]}
  /\ list' = [list EXCEPT ![0] = Null]
  /\ MGoto("ask")
  /\ UNCHANGED <<head, tail, count, content, buffer, rx, want, hdr, next,
                 dhist, chist, nreq>>

AskCount ==
  /\ Master("ask")
  /\ count' = want /\ asked' = want
  /\ dumped' = << >> /\ printed' = << >>
  /\ MGoto("idle")
  /\ UNCHANGED <<list, head, tail, live, content, buffer, rx, want, hdr, next,
                 chist, nreq>>

\* Mutant: the loop leaves the newest packet for later.
PrintDump_short ==
  /\ Master("idle")
  /\ head + 1 < tail
  /\ printed' = Append(printed, content[list[head]])
  /\ live' = live \ {list[head]}
  /\ list' = [list EXCEPT ![head] = Null]
  /\ head' = head + 1
  /\ UNCHANGED <<tail, count, content, buffer, rx, master, next, asked, dumped,
                 chist, nreq>>

\* Mutant: the entry still points to the block that was freed.
PrintDump_kept ==
  /\ Master("idle")
  /\ head < tail
  /\ printed' = Append(printed, content[list[head]])
  /\ live' = live \ {list[head]}
  /\ head' = head + 1
  /\ UNCHANGED <<list, tail, count, content, buffer, rx, master, next, asked,
                 dumped, chist, nreq>>

\* One turn of pktgen_print_packet_dump, called by the display's timer while
\* the screen is not paused: what the block holds is shown, and it is freed.
PrintDump ==
  /\ Master("idle")
  /\ head < tail
  /\ printed' = Append(printed, IF list[head] \in live
                                THEN content[list[head]] ELSE Null)
  /\ live' = live \ {list[head]}
  /\ list' = [list EXCEPT ![head] = Null]
  /\ head' = head + 1
  /\ UNCHANGED <<tail, count, content, buffer, rx, master, next, asked, dumped,
                 chist, nreq>>

\* pktgen_set_capture: the first lcore found that receives on the port, an
\* empty buffer, and last the flag.
EnableCapture(l) ==
  /\ Master("idle") /\ nreq < MaxRequests
  /\ ~capturing /\ cap.lcore = NoLcore
  /\ Patient => \A k \in Lcores : pc[k] \notin InCapture
  /\ cap' = [lcore |-> l, tail |-> 1, used |-> 0]
  /\ header' = [header EXCEPT ![1] = Null, ![End] = Null]
  /\ captured' = << >> /\ due' = << >> /\ file' = << >>
  /\ nreq' = nreq + 1
  /\ MGoto("enable")
  /\ UNCHANGED <<heap, capturing, data, rx, want, hdr, next, dhist>>

EnableFlag ==
  /\ Master("enable")
  /\ capturing' = TRUE
  /\ MGoto("idle")
  /\ UNCHANGED <<heap, cap, header, data, rx, want, hdr, next, dhist, chist,
                 nreq>>

\* Switching it off while packets still arrive: what is in the buffer is
\* written to a file first,
DisableCapture ==
  /\ Master("idle") /\ capturing
  /\ due' = captured
  /\ hdr' = 1
  /\ MGoto(IF cap.used > 0 THEN "walk" ELSE "reset")
  /\ UNCHANGED <<heap, buffer, rx, want, next, dhist, captured, file, nreq>>

\* packet after packet up to the sentinel,
WalkBuffer ==
  /\ Master("walk")
  /\ IF header[hdr] = Null
       THEN MGoto("reset") /\ UNCHANGED <<hdr, file>>
       ELSE /\ file' = Append(file, [pkt |-> header[hdr], bytes |-> data[hdr]])
            /\ hdr' = hdr + 1
            /\ UNCHANGED mpc
  /\ UNCHANGED <<heap, buffer, rx, want, next, dhist, captured, due, nreq>>

\* then the buffer is reset and last the flag is cleared.
ResetCapture ==
  /\ Master("reset")
  /\ cap' = [lcore |-> NoLcore, tail |-> 1, used |-> 0]
  /\ MGoto("unflag")
  /\ UNCHANGED <<heap, capturing, header, data, rx, want, hdr, next, dhist,
                 chist, nreq>>

ClearFlag ==
  /\ Master("unflag")
  /\ capturing' = FALSE
  /\ MGoto("idle")
  /\ UNCHANGED <<heap, cap, header, data, rx, want, hdr, next, dhist, chist,
                 nreq>>

-----------------------------------------------------------------------------
(* A receiving lcore: pktgen_main_receive after rte_eth_rx_burst.          *)

At(l, here)    == pc[l] = here
Goto(l, there) == pc' = [pc EXCEPT ![l] = there]
Pkt(l)         == burst[l][i[l]]
Smaller(a, b)  == IF a < b THEN a ELSE b

\* A burst arrives; dump_count is looked at a first time.
Receive(l) ==
  /\ At(l, "idle")
  /\ \E k \in 1..MaxBurst :
       /\ next + k - 1 <= MaxPkts
       /\ burst' = [burst EXCEPT ![l] = [e \in 1..k |-> next + e - 1]]
       /\ next' = next + k
  /\ Goto(l, IF count > 0 THEN "count" ELSE "flag")
  /\ i' = [i EXCEPT ![l] = 1]
  /\ UNCHANGED <<heap, buffer, n, master, dhist, chist, nreq>>

\* Mutant: the whole burst, whatever was asked for.
DumpCount_all(l) ==
  /\ At(l, "count")
  /\ n' = [n EXCEPT ![l] = Len(burst[l])]
  /\ Goto(l, "room")
  /\ UNCHANGED <<heap, buffer, burst, i, master, next, dhist, chist, nreq>>

\* pktgen_packet_dump_bulk: no more packets than the user asked,
DumpCount(l) ==
  /\ At(l, "count")
  /\ n' = [n EXCEPT ![l] = Smaller(Len(burst[l]), count)]
  /\ Goto(l, "room")
  /\ UNCHANGED <<heap, buffer, burst, i, master, next, dhist, chist, nreq>>

\* no more than there are entries left.
DumpRoom(l) ==
  /\ At(l, "room")
  /\ n' = [n EXCEPT ![l] = Smaller(@, MaxDump - tail)]
  /\ Goto(l, IF n'[l] = 0 THEN "flag" ELSE "free")
  /\ UNCHANGED <<heap, buffer, burst, i, master, next, dhist, chist, nreq>>

\* pktgen_packet_dump: the entry's old block is freed,
DumpFree(l) ==
  /\ At(l, "free")
  /\ live' = live \ {list[tail]}
  /\ Goto(l, "alloc")
  /\ UNCHANGED <<list, head, tail, count, content, buffer, burst, i, n, master,
                 next, dhist, chist, nreq>>

\* a new one is allocated (never out of memory here),
DumpAlloc(l) ==
  /\ At(l, "alloc")
  /\ LET b == CHOOSE x \in Blocks \ live : TRUE IN
       /\ live' = live \cup {b}
       /\ list' = [list EXCEPT ![tail] = b]
       /\ content' = [content EXCEPT ![b] = Null]
  /\ Goto(l, "copy")
  /\ UNCHANGED <<head, tail, count, buffer, burst, i, n, master, next, dhist,
                 chist, nreq>>

\* Mutant: the entry counts before its block is filled.
DumpCopy_late(l) ==
  /\ At(l, "copy")
  /\ tail' = tail + 1
  /\ dumped' = Append(dumped, Pkt(l))
  /\ i' = [i EXCEPT ![l] = @ + 1]
  /\ Goto(l, IF i[l] = n[l] THEN "done" ELSE "free")
  /\ UNCHANGED <<list, head, count, live, content, buffer, burst, n, master,
                 next, asked, printed, chist, nreq>>

\* the packet is copied, and only then the entry counts.
DumpCopy(l) ==
  /\ At(l, "copy")
  /\ content' = [content EXCEPT ![list[tail]] = Pkt(l)]
  /\ tail' = tail + 1
  /\ dumped' = Append(dumped, Pkt(l))
  /\ i' = [i EXCEPT ![l] = @ + 1]
  /\ Goto(l, IF i[l] = n[l] THEN "done" ELSE "free")
  /\ UNCHANGED <<list, head, count, live, buffer, burst, n, master, next,
                 asked, printed, chist, nreq>>

DumpDone(l) ==
  /\ At(l, "done")
  /\ count' = (count + 256 - n[l]) % 256
  /\ i' = [i EXCEPT ![l] = 1]
  /\ Goto(l, "flag")
  /\ UNCHANGED <<list, head, tail, live, content, buffer, burst, n, master,
                 next, dhist, chist, nreq>>

\* CAPTURE_PKTS, then the lcore that captures, then room in the buffer.
CaptureFlag(l) ==
  /\ At(l, "flag")
  /\ Goto(l, IF capturing THEN "lcore" ELSE "idle")
  /\ UNCHANGED <<heap, buffer, burst, i, n, master, next, dhist, chist, nreq>>

CaptureLcore(l) ==
  /\ At(l, "lcore")
  /\ Goto(l, IF cap.lcore = l THEN "full" ELSE "idle")
  /\ UNCHANGED <<heap, buffer, burst, i, n, master, next, dhist, chist, nreq>>

\* pktgen_packet_capture_bulk
CaptureFull(l) ==
  /\ At(l, "full")
  /\ Goto(l, IF cap.tail = End THEN "idle" ELSE "header")
  /\ UNCHANGED <<heap, buffer, burst, i, n, master, next, dhist, chist, nreq>>

\* The header takes the sentinel's place,
CaptureHeader(l) ==
  /\ At(l, "header")
  /\ IF i[l] <= Len(burst[l]) /\ cap.tail < End
       THEN /\ header' = [header EXCEPT ![cap.tail] = Pkt(l)]
            /\ Goto(l, "data")
       ELSE Goto(l, "sentinel") /\ UNCHANGED header
  /\ UNCHANGED <<heap, capturing, cap, data, burst, i, n, master, next, dhist,
                 chist, nreq>>

\* Mutant: the tail moves on before the packet is copied.
CaptureData_late(l) ==
  /\ At(l, "data")
  /\ data' = [data EXCEPT ![cap.tail + 1] = Pkt(l)]
  /\ cap' = [cap EXCEPT !.tail = @ + 1]
  /\ i' = [i EXCEPT ![l] = @ + 1]
  /\ Goto(l, "header")
  /\ UNCHANGED <<heap, capturing, header, burst, n, master, next, dhist, chist,
                 nreq>>

\* the packet follows it,
CaptureData(l) ==
  /\ At(l, "data")
  /\ data' = [data EXCEPT ![cap.tail] = Pkt(l)]
  /\ cap' = [cap EXCEPT !.tail = @ + 1]
  /\ i' = [i EXCEPT ![l] = @ + 1]
  /\ Goto(l, "header")
  /\ UNCHANGED <<heap, capturing, header, burst, n, master, next, dhist, chist,
                 nreq>>

\* and the sentinel the last packet of the burst.
CaptureSentinel(l) ==
  /\ At(l, "sentinel")
  /\ header' = [header EXCEPT ![cap.tail] = Null]
  /\ cap' = [cap EXCEPT !.used = cap.tail - 1]
  /\ captured' = captured \o SubSeq(burst[l], 1, i[l] - 1)
  /\ Goto(l, "idle")
  /\ UNCHANGED <<heap, capturing, data, burst, i, n, master, next, dhist, due,
                 file, nreq>>

-----------------------------------------------------------------------------
MasterStep ==
  \/ AskTail \/ AskHead \/ AskClear \/ AskCount
  \/ EnableFlag \/ WalkBuffer \/ ResetCapture \/ ClearFlag

Command ==
  \/ \E k \in Asked : AskDump(k)
  \/ \E l \in Lcores : EnableCapture(l)
  \/ DisableCapture

Lcore(l) ==
  \/ DumpCount(l) \/ DumpRoom(l) \/ DumpFree(l) \/ DumpAlloc(l) \/ DumpCopy(l)
  \/ DumpDone(l)
  \/ CaptureFlag(l) \/ CaptureLcore(l) \/ CaptureFull(l) \/ CaptureHeader(l)
  \/ CaptureData(l) \/ CaptureSentinel(l)

Next ==
  \/ MasterStep \/ Command \/ PrintDump
  \/ \E l \in Lcores : Receive(l) \/ Lcore(l)

Spec == Init /\ [][Next]_vars

\* Fairness: an lcore finishes its burst, a command goes on, and the display's
\* timer fires again and again.
Fairness ==
  /\ WF_vars(MasterStep) /\ SF_vars(PrintDump)
  /\ \A l \in Lcores : WF_vars(Lcore(l))

FairSpec == Spec /\ Fairness

-----------------------------------------------------------------------------
MasterPc == {"idle", "tail", "head", "clear", "ask", "enable", "walk", "reset",
             "unflag"}

\* The types of the dump's fields, the capture buffer's and the threads'.
TypeOK ==
  /\ list \in [Slots -> Blocks \cup {Null}]
  /\ head \in 0..MaxDump /\ tail \in 0..MaxDump /\ count \in 0..255
  /\ live \subseteq Blocks /\ content \in [Blocks -> Packets \cup {Null}]
  /\ capturing \in BOOLEAN
  /\ cap \in [lcore : Lcores \cup {NoLcore}, tail : 1..End, used : 0..CapSize]
  /\ header \in [1..End -> Packets \cup {Null}]
  /\ data \in [1..End -> Packets \cup {Null}]
  /\ pc \in [Lcores -> {"idle"} \cup InDump \cup InCapture]
  /\ \A l \in Lcores : Len(burst[l]) <= MaxBurst
  /\ i \in [Lcores -> 1..MaxBurst+1] /\ n \in [Lcores -> 0..MaxBurst]
  /\ mpc \in MasterPc /\ want \in 0..MaxDump /\ hdr \in 1..End
  /\ next \in 1..MaxPkts+1 /\ nreq \in 0..MaxRequests

\* "Don't dump more packets than the user asked", however they are spread
\* over bursts (pktgen_packet_dump_bulk against debug_set_port_dump).
AskedAtMost == Len(dumped) <= asked

\* What is printed is what was dumped, whole, in order and once, however the
\* timer falls between an lcore's steps (pktgen_print_packet_dump).
PrintsWhole == IsPrefix(printed, dumped)

\* Every block of the heap belongs to exactly one entry and every entry's
\* block is allocated: none is leaked and none freed twice.  An lcore may be
\* between freeing an entry's block and allocating its new one.
HeapOwned ==
  LET used == {s \in Slots : list[s] # Null}
      busy == {l \in Lcores : pc[l] = "alloc"}
  IN /\ live \subseteq {list[s] : s \in used}
     /\ \A s \in used : list[s] \in live \/ (s = tail /\ busy # {})
     /\ \A s, t \in used : list[s] = list[t] => s = t

\* A packet in a complete burst of the capture, when the capture is switched
\* off, is in the file, whole and in order, whatever the lcore does to the
\* buffer while the file is written (pktgen_set_capture against
\* pktgen_packet_capture_bulk).
CaptureSaved ==
  mpc = "reset" =>
    /\ Len(file) >= Len(due)
    /\ \A e \in 1..Len(due) : file[e] = [pkt |-> due[e], bytes |-> due[e]]

\* Packets that were dumped are printed in the end, or a new dump is asked
\* for.
DumpPrinted == Len(printed) < Len(dumped) ~> Len(printed) = Len(dumped)
=============================================================================

--------------------------- MODULE StatsExchange ---------------------------
(***************************************************************************)
(* How the generator learns what the responder has sent and received       *)
(* (app/pktgen-stats.c, app/pktgen-tool.c, app/pktgen-interface.c).  The   *)
(* generator's display asks by a UDP datagram, waits 100 microseconds for  *)
(* the answer and shows what came, which may answer an earlier question.   *)
(* On the responder a thread of its own answers; the responder's display   *)
(* adds up the same totals in the same variable, sgi_stats_data.  When the *)
(* generator quits it reports the loss in both directions from what it has *)
(* counted and what it was told last.                                      *)
(*                                                                         *)
(* A total is the sum of its queues' counters, read one after another      *)
(* while the lcores go on counting: it comes out somewhere between what    *)
(* the sum was when the reading began and what it is when it ends.         *)
(***************************************************************************)
EXTENDS Naturals, Sequences

CONSTANTS
  Overlap,   \* the responder's display and its answering thread may use
             \* sgi_stats_data at the same time: nothing keeps them apart
  SockBuf,   \* datagrams a socket, and the path to it, have room for
  Word,      \* 2^64: differences of counters are taken modulo this
  MaxPkts,   \* bound: packets each node sends
  MaxLost    \* bound: datagrams lost on the way

Nodes == {"gen", "resp"}

ASSUME StatsAssumption ==
  /\ Overlap \in BOOLEAN
  /\ SockBuf \in Nat \ {0}
  /\ MaxPkts \in [Nodes -> Nat] /\ MaxLost \in Nat
  /\ Word \in Nat /\ \A x \in Nodes : Word > MaxPkts[x]

Totals  == {"rx", "tx"}
Threads == {"sock", "page"}      \* send_stats_data, pktgen_page_stats
Zero    == [d \in Totals |-> 0]

VARIABLES
  sent,      \* packets each node's device has taken
  cnt,       \* the sums of each node's pid_rx_tx_cnts
  \* the responder
  mem,       \* sgi_stats_data
  spc,       \* where its two threads are
  base,      \* the total being added up, as it was when that began
  whenAsked, \* the totals when the request being answered was taken;
             \* read by no action
  \* the path between the two sockets
  requests,  \* questions on their way to the responder or in its socket
  net,       \* answers on their way, in order
  inbox,     \* answers in the generator's socket
  lostDatagrams, \* datagrams lost so far
  \* the generator's master lcore
  gpc, shown, \* its sgi_stats_data
  report     \* the loss it reports at the end

traffic   == <<sent, cnt>>
responder == <<mem, spc, base, whenAsked>>
path      == <<requests, net, inbox, lostDatagrams>>
generator == <<gpc, shown, report>>
statsVars == <<traffic, responder, path, generator>>

StatsInit ==
  /\ sent = [x \in Nodes |-> 0]
  /\ cnt = [x \in Nodes |-> Zero]
  /\ mem = Zero
  /\ spc = [t \in Threads |-> "idle"]
  /\ base = [t \in Threads |-> 0]
  /\ whenAsked = Zero
  /\ requests = 0 /\ net = << >> /\ inbox = << >> /\ lostDatagrams = 0
  /\ gpc = "run" /\ shown = Zero
  /\ report = [ul |-> 0, dl |-> 0]

-----------------------------------------------------------------------------
(* The lcores of both nodes.  Main waits for those of the generator before *)
(* it reports.                                                             *)

Counting(x) == x = "resp" \/ gpc # "done"
Other(x)    == IF x = "gen" THEN "resp" ELSE "gen"
CountOne(x, d) == cnt' = [cnt EXCEPT ![x][d] = @ + 1]

\* _send_burst_fast hands packets to the device
Send(x) ==
  /\ Counting(x)
  /\ sent[x] < MaxPkts[x]
  /\ sent' = [sent EXCEPT ![x] = @ + 1]
  /\ UNCHANGED <<cnt, responder, path, generator>>

\* and counts them afterwards (pktgen_inc_tx_count).
CountTx(x) ==
  /\ Counting(x)
  /\ cnt[x]["tx"] < sent[x]
  /\ CountOne(x, "tx")
  /\ UNCHANGED <<sent, responder, path, generator>>

\* pktgen_inc_rx_and_reverse_addr; packets may get lost between the devices.
CountRx(x) ==
  /\ Counting(x)
  /\ cnt[x]["rx"] < sent[Other(x)]
  /\ CountOne(x, "rx")
  /\ UNCHANGED <<sent, responder, path, generator>>

-----------------------------------------------------------------------------
(* The responder's two threads.                                            *)

At(t, l)   == spc[t] = l
Goto(t, l) == spc' = [spc EXCEPT ![t] = l]
Free(t)    == Overlap \/ \A u \in Threads \ {t} : At(u, "idle")

\* udp_recv_socket: every datagram is taken for a request.
TakeRequest ==
  /\ At("sock", "idle") /\ Free("sock")
  /\ requests > 0
  /\ requests' = requests - 1
  /\ whenAsked' = cnt["resp"]
  /\ Goto("sock", "clear")
  /\ UNCHANGED <<traffic, mem, base, net, inbox, lostDatagrams, generator>>

\* pktgen_page_stats on the responder
ShowPage ==
  /\ At("page", "idle") /\ Free("page")
  /\ Goto("page", "clear")
  /\ UNCHANGED <<traffic, mem, base, whenAsked, path, generator>>

\* The totals are cleared, unless the compiler leaves that out because they
\* are stored again below.
Clear(t) ==
  /\ At(t, "clear")
  /\ mem' = Zero \/ UNCHANGED mem
  /\ base' = [base EXCEPT ![t] = cnt["resp"]["rx"]]
  /\ Goto(t, "rx")
  /\ UNCHANGED <<traffic, whenAsked, path, generator>>

\* Mutant: the totals are added to what is there, and nothing is cleared.
SumRx_more(t) ==
  /\ At(t, "rx")
  /\ \E k \in base[t]..cnt["resp"]["rx"] :
       mem' = [mem EXCEPT !["rx"] = @ + k]
  /\ base' = [base EXCEPT ![t] = cnt["resp"]["tx"]]
  /\ Goto(t, "tx")
  /\ UNCHANGED <<traffic, whenAsked, path, generator>>

\* The sum over the receive queues, kept in a register (-O3) until it is
\* complete,
SumRx(t) ==
  /\ At(t, "rx")
  /\ \E k \in base[t]..cnt["resp"]["rx"] : mem' = [mem EXCEPT !["rx"] = k]
  /\ base' = [base EXCEPT ![t] = cnt["resp"]["tx"]]
  /\ Goto(t, "tx")
  /\ UNCHANGED <<traffic, whenAsked, path, generator>>

\* and the sum over the transmit queues.
SumTx(t) ==
  /\ At(t, "tx")
  /\ \E k \in base[t]..cnt["resp"]["tx"] : mem' = [mem EXCEPT !["tx"] = k]
  /\ base' = [base EXCEPT ![t] = 0]
  /\ Goto(t, IF t = "sock" THEN "reply" ELSE "idle")
  /\ UNCHANGED <<traffic, whenAsked, path, generator>>

\* udp_send_socket(&sgi_stats_data, ...); what does not fit is dropped.
Reply ==
  /\ At("sock", "reply")
  /\ net' = IF Len(net) + Len(inbox) < SockBuf THEN Append(net, mem) ELSE net
  /\ whenAsked' = Zero
  /\ Goto("sock", "idle")
  /\ UNCHANGED <<traffic, mem, base, requests, inbox, lostDatagrams, generator>>

-----------------------------------------------------------------------------
(* The path: datagrams keep their order and may get lost.                  *)

LoseRequest ==
  /\ lostDatagrams < MaxLost /\ lostDatagrams' = lostDatagrams + 1
  /\ requests > 0 /\ requests' = requests - 1
  /\ UNCHANGED <<traffic, responder, net, inbox, generator>>

LoseReply ==
  /\ lostDatagrams < MaxLost /\ lostDatagrams' = lostDatagrams + 1
  /\ net # << >> /\ net' = Tail(net)
  /\ UNCHANGED <<traffic, responder, requests, inbox, generator>>

Deliver ==
  /\ net # << >>
  /\ net' = Tail(net) /\ inbox' = Append(inbox, Head(net))
  /\ UNCHANGED <<traffic, responder, requests, lostDatagrams, generator>>

-----------------------------------------------------------------------------
(* The generator's master: its display, and the end.                       *)

\* pktgen_page_stats on the generator asks
Poll ==
  /\ gpc = "run" /\ gpc' = "recv"
  /\ requests' = IF requests < SockBuf THEN requests + 1 ELSE requests
  /\ UNCHANGED <<traffic, responder, net, inbox, lostDatagrams, shown, report>>

\* Mutant: the newest answer is read first.
PollRecv_newest ==
  /\ gpc = "recv" /\ gpc' = "run"
  /\ inbox # << >>
  /\ shown' = inbox[Len(inbox)]
  /\ inbox' = SubSeq(inbox, 1, Len(inbox) - 1)
  /\ UNCHANGED <<traffic, responder, requests, net, lostDatagrams, report>>

\* and takes the first answer that has come, to whatever question,
PollRecv ==
  /\ gpc = "recv" /\ gpc' = "run"
  /\ inbox # << >>
  /\ shown' = Head(inbox) /\ inbox' = Tail(inbox)
  /\ UNCHANGED <<traffic, responder, requests, net, lostDatagrams, report>>

\* Mutant: select waits without a limit.
PollTimeout_never ==
  /\ gpc = "recv" /\ inbox = << >>
  /\ UNCHANGED statsVars

\* or goes on showing what it has after 100 microseconds.
PollTimeout ==
  /\ gpc = "recv" /\ gpc' = "run"
  /\ inbox = << >>
  /\ UNCHANGED <<traffic, responder, path, shown, report>>

\* The command line is left; the lcores finish what they have begun.
Quit ==
  /\ gpc = "run" /\ gpc' = "quit"
  /\ UNCHANGED <<traffic, responder, path, shown, report>>

Larger(a, b) == IF a > b THEN a ELSE b
Minus(a, b)  == IF a >= b THEN a - b ELSE a + Word - b

\* Mutant: the totals sent are taken as they are.
Report_plain ==
  /\ gpc = "quit" /\ gpc' = "done"
  /\ cnt["gen"]["tx"] = sent["gen"]
  /\ report' = [ul |-> Minus(cnt["gen"]["tx"], shown["rx"]),
                dl |-> Minus(shown["tx"], cnt["gen"]["rx"])]
  /\ UNCHANGED <<traffic, responder, path, shown>>

\* get_tx_rx_counts: a total sent that is smaller than what was received is
\* raised to that.
Report ==
  /\ gpc = "quit" /\ gpc' = "done"
  /\ cnt["gen"]["tx"] = sent["gen"]
  /\ LET ulTx == Larger(cnt["gen"]["tx"], shown["rx"])
         dlTx == Larger(shown["tx"], cnt["gen"]["rx"])
     IN  report' = [ul |-> Minus(ulTx, shown["rx"]),
                    dl |-> Minus(dlTx, cnt["gen"]["rx"])]
  /\ UNCHANGED <<traffic, responder, path, shown>>

-----------------------------------------------------------------------------
Traffic == \E x \in Nodes : Send(x) \/ CountTx(x) \/ CountRx(x)

Thread(t) == Clear(t) \/ SumRx(t) \/ SumTx(t)

Sock == TakeRequest \/ Thread("sock") \/ Reply
Page == ShowPage \/ Thread("page")
Path == LoseRequest \/ LoseReply \/ Deliver

StatsNext ==
  \/ Traffic \/ Sock \/ Page \/ Path
  \/ Poll \/ PollRecv \/ PollTimeout \/ Quit \/ Report

StatsSpec == StatsInit /\ [][StatsNext]_statsVars

\* Fairness: the responder's threads run, the display's timer fires, what is
\* sent and not lost arrives.  Strong fairness of the answering thread matters
\* where the two threads are kept apart; where they are not, nothing ever
\* disables what one of them is to do next.
StatsFairness ==
  /\ SF_statsVars(Sock) /\ WF_statsVars(Thread("page")) /\ WF_statsVars(Deliver)
  /\ WF_statsVars(Poll) /\ WF_statsVars(PollRecv \/ PollTimeout)

StatsFairSpec == StatsSpec /\ StatsFairness

-----------------------------------------------------------------------------
Counts == [Totals -> Nat]

\* The types of the counters, the datagrams and the threads' places.
TypeOK ==
  /\ sent \in [Nodes -> Nat] /\ cnt \in [Nodes -> Counts]
  /\ mem \in Counts /\ whenAsked \in Counts /\ base \in [Threads -> Nat]
  /\ spc \in [Threads -> {"idle", "clear", "rx", "tx", "reply"}]
  /\ requests \in Nat /\ lostDatagrams \in Nat
  /\ net \in Seq(Counts) /\ inbox \in Seq(Counts)
  /\ gpc \in {"run", "recv", "quit", "done"} /\ shown \in Counts
  /\ report \in [ul : Nat, dl : Nat]

\* "Get total pkt counts on each port": an answer is not older than the
\* request it was made for, and does not exceed what has been counted
\* (send_stats_data).
AnswersCurrent ==
  At("sock", "reply") => \A d \in Totals : mem[d] \in whenAsked[d]..cnt["resp"][d]

\* The reported losses err in a known direction, however old the last answer
\* is: of what the generator sent no loss is left out, and of what the
\* responder sent none is invented (get_tx_rx_counts).
LossBounds ==
  gpc = "done" =>
    /\ report.ul + cnt["resp"]["rx"] >= sent["gen"]
    /\ report.dl > 0 => report.dl + cnt["gen"]["rx"] <= sent["resp"]

\* What the generator shows of the responder is a reading of growing
\* counters: lost and late answers never make it go back or run ahead.
Remote == INSTANCE Reading WITH counted <- cnt["resp"]
ImplementsReading == Remote!Spec

\* When the traffic is over, the display comes to show the final counts,
\* however many answers were late before (unless the generator quits).
CatchesUp == <>[](shown = cnt["resp"]) \/ <>(gpc = "quit")
=============================================================================

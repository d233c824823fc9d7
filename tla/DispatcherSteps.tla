-------------------------- MODULE DispatcherSteps ---------------------------
(*****************************************************************************)
(* Proofs about Dispatcher, first part: the relations between the counters,  *)
(* clocks and messages of one node, and that the steps of node processes     *)
(* and the dispatcher's handling of events and tasks, during which no time   *)
(* passes, preserve the inductive invariant.                                 *)
(*****************************************************************************)
EXTENDS DispatcherInv, TLAPS

\* Most leaves are first-order reasoning about single steps; the others need arithmetic.
USE ZenonT(10), SMTT(30)

(* Sequences. *)

\* A sequence is indexed from 1 to its length, and only the empty one has none.
LEMMA SeqFacts ==
    ASSUME NEW T, NEW s \in Seq(T)
    PROVE  /\ Len(s) \in Nat
           /\ DOMAIN s = 1..Len(s)
           /\ \A i \in 1..Len(s) : s[i] \in T
           /\ s = <<>> <=> Len(s) = 0
    OBVIOUS

\* Append keeps what is there and puts the new element last.
LEMMA AppendFacts ==
    ASSUME NEW T, NEW s \in Seq(T), NEW e \in T
    PROVE  /\ Append(s, e) \in Seq(T)
           /\ Len(Append(s, e)) = Len(s) + 1
           /\ DOMAIN Append(s, e) = 1..(Len(s) + 1)
           /\ \A i \in 1..Len(s) : Append(s, e)[i] = s[i]
           /\ Append(s, e)[Len(s) + 1] = e
           /\ Append(s, e) # <<>>
    OBVIOUS

\* Tail drops the first element and moves the others forward.
LEMMA TailFacts ==
    ASSUME NEW T, NEW s \in Seq(T), s # <<>>
    PROVE  /\ Head(s) = s[1]
           /\ s[1] \in T
           /\ Len(s) \in Nat \ {0}
           /\ Tail(s) \in Seq(T)
           /\ Len(Tail(s)) = Len(s) - 1
           /\ DOMAIN Tail(s) = 1..(Len(s) - 1)
           /\ \A i \in 1..(Len(s) - 1) : Tail(s)[i] = s[i + 1]
    OBVIOUS

\* A prefix of a sequence.
LEMMA PrefixFacts ==
    ASSUME NEW T, NEW s \in Seq(T), NEW k \in Nat, k <= Len(s)
    PROVE  /\ SubSeq(s, 1, k) \in Seq(T)
           /\ Len(SubSeq(s, 1, k)) = k
           /\ \A i \in 1..k : SubSeq(s, 1, k)[i] = s[i]
    OBVIOUS

\* What ReaderLoses does to a sequence: the last but one element is dropped.
LEMMA DropFacts ==
    ASSUME NEW T, NEW s \in Seq(T), Len(s) > 1
    PROVE  LET d == Append(SubSeq(s, 1, Len(s) - 2), s[Len(s)]) IN
           /\ d \in Seq(T)
           /\ Len(d) = Len(s) - 1
           /\ DOMAIN d = 1..(Len(s) - 1)
           /\ \A i \in 1..(Len(s) - 2) : d[i] = s[i]
           /\ d[Len(s) - 1] = s[Len(s)]
<1> DEFINE p == SubSeq(s, 1, Len(s) - 2)
<1>1. Len(s) \in Nat /\ s[Len(s)] \in T
    OBVIOUS
<1>2. p \in Seq(T) /\ Len(p) = Len(s) - 2 /\ \A i \in 1..(Len(s) - 2) : p[i] = s[i]
  <2> DEFINE k == Len(s) - 2
  <2>1. k \in Nat /\ k <= Len(s)
      BY <1>1
  <2> HIDE DEF k
  <2>2. /\ SubSeq(s, 1, k) \in Seq(T)
        /\ Len(SubSeq(s, 1, k)) = k
        /\ \A i \in 1..k : SubSeq(s, 1, k)[i] = s[i]
      BY <2>1, PrefixFacts
  <2> QED
      BY <2>2 DEF k
<1> HIDE DEF p
<1>3. /\ Append(p, s[Len(s)]) \in Seq(T)
      /\ Len(Append(p, s[Len(s)])) = Len(p) + 1
      /\ DOMAIN Append(p, s[Len(s)]) = 1..(Len(p) + 1)
      /\ \A i \in 1..Len(p) : Append(p, s[Len(s)])[i] = p[i]
      /\ Append(p, s[Len(s)])[Len(p) + 1] = s[Len(s)]
    BY <1>1, <1>2, AppendFacts
<1>4. /\ Append(p, s[Len(s)]) \in Seq(T)
      /\ Len(Append(p, s[Len(s)])) = Len(s) - 1
      /\ DOMAIN Append(p, s[Len(s)]) = 1..(Len(s) - 1)
      /\ \A i \in 1..(Len(s) - 2) : Append(p, s[Len(s)])[i] = s[i]
      /\ Append(p, s[Len(s)])[Len(s) - 1] = s[Len(s)]
    BY <1>1, <1>2, <1>3
<1> QED
    BY <1>4 DEF p

\* The fields of the events in flight.
LEMMA EventFacts ==
    ASSUME NEW ch \in Seq(NodeEvent)
    PROVE  /\ Len(ch) \in Nat
           /\ \A i \in 1..Len(ch) : ch[i].id \in Nat /\ ch[i].delay \in Nat /\ ch[i].at \in Nat
<1>1. Len(ch) \in Nat /\ \A i \in 1..Len(ch) : ch[i] \in NodeEvent
    OBVIOUS
<1> QED
    BY <1>1 DEF NodeEvent

\* An event to a node is a record of two numbers.
LEMMA MessageFacts ==
    ASSUME NEW in \in Seq(Message)
    PROVE  /\ Len(in) \in Nat
           /\ \A i \in 1..Len(in) : in[i].id \in Nat /\ in[i].delay \in Nat
<1>1. Len(in) \in Nat /\ \A i \in 1..Len(in) : in[i] \in Message
    OBVIOUS
<1> QED
    BY <1>1 DEF Message
-----------------------------------------------------------------------------
(* A node's part of the invariant, step by step. *)

\* A process that receives sees a message newer than anything it has sent, so none of its sleep
\* events answers the last message any more.
LEMMA ReceiveCounters ==
    ASSUME NEW last \in Nat, NEW msg \in Nat, NEW ch \in Seq(NodeEvent), NEW in \in Seq(Message), NEW pr,
           Counters(last, msg, ch, in, pr), pr # "dead", in # <<>>
    PROVE  /\ in[1].id = last + 1
           /\ Counters(in[1].id, msg, ch, Tail(in), "awake")
           /\ \A i \in 1..Len(ch) : ~Answers(ch[i], msg)
<1>1. /\ Len(in) \in Nat \ {0} /\ Len(Tail(in)) = Len(in) - 1
      /\ \A i \in 1..(Len(in) - 1) : Tail(in)[i] = in[i + 1]
    BY TailFacts
<1>2. last + Len(in) = msg /\ \A i \in 1..Len(in) : in[i].id = last + i
    BY DEF Counters
<1>3. in[1].id = last + 1
    BY <1>1, <1>2
<1>4. \A i \in 1..Len(ch) : ch[i].id \in Nat /\ ch[i].id <= last /\ ch[i].type # "disc"
    BY EventFacts DEF Counters
<1>5. \A i \in 1..Len(ch) : ~Answers(ch[i], msg)
    BY <1>1, <1>2, <1>4 DEF Answers
<1>6. ASSUME NEW i \in 1..Len(Tail(in)) PROVE Tail(in)[i].id = last + 1 + i
  <2>1. i \in 1..(Len(in) - 1) /\ i + 1 \in 1..Len(in) /\ last + (i + 1) = last + 1 + i
      BY <1>1
  <2>2. Tail(in)[i] = in[i + 1] /\ in[i + 1].id = last + (i + 1)
      BY <1>1, <1>2, <2>1
  <2> QED
      BY <2>1, <2>2
<1>7. Counters(last + 1, msg, ch, Tail(in), "awake")
    BY <1>1, <1>2, <1>4, <1>5, <1>6 DEF Counters
<1> QED
    BY <1>3, <1>5, <1>7

\* Its clock catches up with the dispatcher's idea of it.
LEMMA ReceiveClocks ==
    ASSUME NEW clk \in Nat, NEW time \in Nat, NEW in \in Seq(Message), NEW pr,
           Clocks(clk, time, in, pr), pr # "dead", in # <<>>
    PROVE  clk + in[1].delay = time /\ Clocks(clk + in[1].delay, time, Tail(in), "awake")
<1>1. /\ Len(in) \in Nat \ {0} /\ Len(Tail(in)) = Len(in) - 1
      /\ \A i \in 1..(Len(in) - 1) : Tail(in)[i] = in[i + 1]
    BY TailFacts
<1>2. clk + in[1].delay = time
    BY <1>1 DEF Clocks
<1>3. \A i \in 1..Len(Tail(in)) : Tail(in)[i].delay = 0
    BY <1>1 DEF Clocks
<1>4. Clocks(time, time, Tail(in), "awake")
    BY <1>1, <1>3 DEF Clocks
<1> QED
    BY <1>2, <1>4

\* An event other than a sleep event may be sent while the process works.
LEMMA EmitCounters ==
    ASSUME NEW last \in Nat, NEW msg \in Nat, NEW ch \in Seq(NodeEvent), NEW in \in Seq(Message),
           NEW e \in NodeEvent, e.id = last, e.type \notin {"sleep", "disc"},
           Counters(last, msg, ch, in, "awake")
    PROVE  /\ Counters(last, msg, Append(ch, e), in, "awake")
           /\ \A i \in 1..Len(Append(ch, e)) : ~Answers(Append(ch, e)[i], msg)
<1> DEFINE new == Append(ch, e)
<1>1. /\ Len(ch) \in Nat /\ Len(new) = Len(ch) + 1
      /\ \A i \in 1..Len(ch) : new[i] = ch[i]
      /\ new[Len(ch) + 1] = e
    BY AppendFacts
<1> HIDE DEF new
<1>2. \A i \in 1..Len(ch) : ~Answers(ch[i], msg) /\ ch[i].id <= last /\ ch[i].type # "disc"
    BY DEF Counters
<1>3. \A i \in 1..Len(new) : i \in 1..Len(ch) \/ new[i] = e
    BY <1>1
<1>4. ASSUME NEW i \in 1..Len(new) PROVE ~Answers(new[i], msg) /\ new[i].id <= last /\ new[i].type # "disc"
  <2>1. CASE i \in 1..Len(ch)
      BY <1>1, <1>2, <2>1
  <2>2. CASE new[i] = e
      BY <2>2 DEF Answers
  <2> QED
      BY <1>3, <2>1, <2>2
<1>5. Counters(last, msg, new, in, "awake")
    BY <1>4 DEF Counters
<1> QED
    BY <1>4, <1>5 DEF new

\* The poll finds nothing: there is nothing to answer and no sleep event yet.
LEMMA PollCounters ==
    ASSUME NEW last \in Nat, NEW msg \in Nat, NEW ch \in Seq(NodeEvent), NEW in \in Seq(Message),
           Counters(last, msg, ch, in, "awake")
    PROVE  /\ Counters(last, msg, ch, in, "idle")
           /\ \A i \in 1..Len(ch) : ~Answers(ch[i], msg)
    BY DEF Counters

\* The sleep event is the last event, and the only one that can answer the last message.
LEMMA SleepCounters ==
    ASSUME NEW last \in Nat, NEW msg \in Nat, NEW ch \in Seq(NodeEvent), NEW in \in Seq(Message),
           NEW e \in NodeEvent, e.id = last, e.type = "sleep",
           Counters(last, msg, ch, in, "idle")
    PROVE  /\ Counters(last, msg, Append(ch, e), in, "asleep")
           /\ \A i \in 1..Len(Append(ch, e)) : Answers(Append(ch, e)[i], msg) => Append(ch, e)[i] = e
<1> DEFINE new == Append(ch, e)
<1>1. /\ Len(ch) \in Nat /\ Len(new) = Len(ch) + 1
      /\ \A i \in 1..Len(ch) : new[i] = ch[i]
      /\ new[Len(ch) + 1] = e
    BY AppendFacts
<1> HIDE DEF new
<1>2. \A i \in 1..Len(ch) : ~Answers(ch[i], msg) /\ ch[i].id <= last /\ ch[i].type # "disc"
    BY DEF Counters
<1>3. \A i \in 1..Len(new) : i \in 1..Len(ch) \/ (i = Len(new) /\ new[i] = e)
    BY <1>1
<1>4. \A i \in 1..Len(new) : /\ Answers(new[i], msg) => new[i] = e /\ i = Len(new)
                             /\ new[i].id <= last
                             /\ new[i].type # "disc"
    BY <1>1, <1>2, <1>3
<1>5. Counters(last, msg, new, in, "asleep")
    BY <1>1, <1>4 DEF Counters
<1> QED
    BY <1>4, <1>5 DEF new

\* The disconnect is the last event of all.
LEMMA ExitCounters ==
    ASSUME NEW last \in Nat, NEW msg \in Nat, NEW ch \in Seq(NodeEvent), NEW in \in Seq(Message), NEW pr,
           NEW e \in NodeEvent, e.id = last, e.type = "disc", pr # "dead",
           Counters(last, msg, ch, in, pr)
    PROVE  /\ Counters(last, msg, Append(ch, e), <<>>, "dead")
           /\ AtRest(ch, in, pr) => AtRest(Append(ch, e), <<>>, "dead")
<1> DEFINE new == Append(ch, e)
<1>1. /\ Len(ch) \in Nat /\ Len(new) = Len(ch) + 1
      /\ \A i \in 1..Len(ch) : new[i] = ch[i]
      /\ new[Len(ch) + 1] = e
    BY AppendFacts
<1> HIDE DEF new
<1>2. \A i \in 1..Len(ch) : ch[i].id <= last /\ ch[i].type # "disc"
    BY DEF Counters
<1>3. \A i, j \in 1..Len(ch) : Answers(ch[i], msg) => ~(i < j)
    BY <1>2 DEF Counters
<1>4. \A i \in 1..Len(new) : i \in 1..Len(ch) \/ (i = Len(new) /\ new[i] = e)
    BY <1>1
<1>5. \A i \in 1..Len(new) : new[i].id <= last /\ (new[i].type = "disc" => i = Len(new))
    BY <1>1, <1>2, <1>4
<1>6. \A i, j \in 1..Len(new) : Answers(new[i], msg) /\ i < j => new[j].type = "disc"
    BY <1>1, <1>3, <1>4 DEF Answers
<1>7. Counters(last, msg, new, <<>>, "dead")
    BY <1>5, <1>6 DEF Counters
<1>8. AtRest(ch, in, pr) => AtRest(new, <<>>, "dead")
    BY <1>1, <1>4 DEF AtRest
<1> QED
    BY <1>7, <1>8 DEF new

\* Appending an event sent now.
LEMMA AppendSentAt ==
    ASSUME NEW t, NEW ch \in Seq(NodeEvent), NEW e \in NodeEvent,
           SentAt(ch, t), e.type # "disc" => e.at = t
    PROVE  SentAt(Append(ch, e), t)
<1> DEFINE new == Append(ch, e)
<1>1. /\ Len(ch) \in Nat /\ Len(new) = Len(ch) + 1
      /\ \A i \in 1..Len(ch) : new[i] = ch[i]
      /\ new[Len(ch) + 1] = e
    BY AppendFacts
<1> HIDE DEF new
<1>2. \A i \in 1..Len(new) : i \in 1..Len(ch) \/ new[i] = e
    BY <1>1
<1>3. SentAt(new, t)
    BY <1>1, <1>2 DEF SentAt
<1> QED
    BY <1>3 DEF new

\* Losing the last event before the disconnect.
LEMMA Lose ==
    ASSUME NEW last \in Nat, NEW msg \in Nat, NEW ch \in Seq(NodeEvent), NEW in \in Seq(Message),
           NEW t, Len(ch) > 1
    PROVE  LET new == Append(SubSeq(ch, 1, Len(ch) - 2), ch[Len(ch)]) IN
           /\ Counters(last, msg, ch, in, "dead") => Counters(last, msg, new, in, "dead")
           /\ AtRest(ch, in, "dead") => AtRest(new, in, "dead")
           /\ SentAt(ch, t) => SentAt(new, t)
<1> DEFINE new == Append(SubSeq(ch, 1, Len(ch) - 2), ch[Len(ch)])
<1>1. /\ Len(ch) \in Nat /\ Len(new) = Len(ch) - 1
      /\ \A i \in 1..(Len(ch) - 2) : new[i] = ch[i]
      /\ new[Len(ch) - 1] = ch[Len(ch)]
    BY DropFacts
<1> HIDE DEF new
<1>2. \A i \in 1..Len(new) : \/ i \in 1..(Len(ch) - 2) /\ i < Len(ch) /\ i \in 1..Len(ch) /\ new[i] = ch[i]
                             \/ i = Len(new) /\ new[i] = ch[Len(ch)]
  <2> TAKE i \in 1..Len(new)
  <2>1. \/ i \in 1..(Len(ch) - 2) /\ i < Len(ch) /\ i \in 1..Len(ch)
        \/ i = Len(ch) - 1
      BY <1>1
  <2> QED
      BY <1>1, <2>1
<1>3. Len(ch) \in 1..Len(ch)
    BY <1>1
<1>4. ASSUME Counters(last, msg, ch, in, "dead") PROVE Counters(last, msg, new, in, "dead")
  <2>1. \A i \in 1..Len(new) : new[i].id <= last /\ (new[i].type = "disc" => i = Len(new))
    <3>1. \A i \in 1..Len(ch) : ch[i].id <= last /\ (ch[i].type = "disc" => ~(i < Len(ch)))
        BY <1>1, <1>4 DEF Counters
    <3> QED
        BY <1>2, <1>3, <3>1
  <2>2. ASSUME NEW i \in 1..Len(new), NEW j \in 1..Len(new), Answers(new[i], msg), i < j
        PROVE  new[j].type = "disc"
    <3>1. i # Len(new) /\ i \in 1..(Len(ch) - 2) /\ i < Len(ch)
        BY <1>1, <2>2
    <3>2. i \in 1..Len(ch) /\ Answers(ch[i], msg)
        BY <1>2, <2>2, <3>1
    <3>3. \A k \in 1..Len(ch) : i < k => ch[k].type = "disc"
        BY <1>4, <3>2 DEF Counters
    <3> QED
        BY <1>2, <1>3, <2>2, <3>1, <3>3
  <2> QED
      BY <1>4, <2>1, <2>2 DEF Counters
<1>5. AtRest(ch, in, "dead") => AtRest(new, in, "dead")
    BY <1>2, <1>3 DEF AtRest
<1>6. SentAt(ch, t) => SentAt(new, t)
    BY <1>2, <1>3 DEF SentAt
<1> QED
    BY <1>4, <1>5, <1>6 DEF new

\* Taking the first event out of the channel.
LEMMA Take ==
    ASSUME NEW last \in Nat, NEW msg \in Nat, NEW ch \in Seq(NodeEvent), NEW in \in Seq(Message), NEW pr,
           NEW t, NEW clk, NEW wk, ch # <<>>
    PROVE  /\ Counters(last, msg, ch, in, pr) => Counters(last, msg, Tail(ch), in, pr)
           /\ AtRest(ch, in, pr) => AtRest(Tail(ch), in, pr)
           /\ SentAt(ch, t) => SentAt(Tail(ch), t)
           /\ Asks(clk, wk, msg, ch, pr) => Asks(clk, wk, msg, Tail(ch), pr)
<1> DEFINE new == Tail(ch)
<1>1. /\ Len(ch) \in Nat \ {0} /\ Len(new) = Len(ch) - 1
      /\ \A i \in 1..(Len(ch) - 1) : new[i] = ch[i + 1]
    BY TailFacts
<1> HIDE DEF new
<1>2. \A i \in 1..Len(new) : i + 1 \in 1..Len(ch) /\ new[i] = ch[i + 1]
    BY <1>1
<1>3. ASSUME Counters(last, msg, ch, in, pr) PROVE Counters(last, msg, new, in, pr)
  <2>1. \A i \in 1..Len(new) : /\ new[i].id <= last
                               /\ new[i].type = "disc" => i = Len(new) /\ pr = "dead"
                               /\ Answers(new[i], msg) => pr \in {"asleep", "dead"}
    <3> TAKE i \in 1..Len(new)
    <3>1. i + 1 \in 1..Len(ch) /\ new[i] = ch[i + 1] /\ (i + 1 = Len(ch) => i = Len(new))
        BY <1>1, <1>2
    <3> QED
        BY <1>3, <3>1 DEF Counters
  <2>2. \A i, j \in 1..Len(new) : Answers(new[i], msg) /\ i < j => new[j].type = "disc"
    <3> TAKE i, j \in 1..Len(new)
    <3>1. i + 1 \in 1..Len(ch) /\ j + 1 \in 1..Len(ch) /\ new[i] = ch[i + 1] /\ new[j] = ch[j + 1]
        BY <1>2
    <3>2. i < j => i + 1 < j + 1
        BY <1>1
    <3> QED
        BY <1>3, <3>1, <3>2 DEF Counters
  <2> QED
      BY <1>3, <2>1, <2>2 DEF Counters
<1>4. AtRest(ch, in, pr) => AtRest(new, in, pr)
    BY <1>1, <1>2 DEF AtRest
<1>5. SentAt(ch, t) => SentAt(new, t)
    BY <1>2 DEF SentAt
<1>6. Asks(clk, wk, msg, ch, pr) => Asks(clk, wk, msg, new, pr)
    BY <1>2 DEF Asks
<1> QED
    BY <1>3, <1>4, <1>5, <1>6 DEF new

\* A sleep event that answers the last message leaves nothing behind: this is why HandleEvent may
\* take the node out of aliveNodes.
LEMMA AnswerMeansRest ==
    ASSUME NEW last \in Nat, NEW msg \in Nat, NEW ch \in Seq(NodeEvent), NEW in \in Seq(Message), NEW pr,
           Counters(last, msg, ch, in, pr), ch # <<>>, Answers(ch[1], msg)
    PROVE  AtRest(Tail(ch), in, pr)
<1> DEFINE new == Tail(ch)
<1>1. /\ Len(ch) \in Nat \ {0} /\ Len(new) = Len(ch) - 1
      /\ \A i \in 1..(Len(ch) - 1) : new[i] = ch[i + 1]
    BY TailFacts
<1> HIDE DEF new
<1>2. 1 \in 1..Len(ch) /\ ch[1].id = msg /\ ch[1].id <= last /\ last <= msg
    BY <1>1 DEF Counters, Answers
<1>3. pr # "dead" => Len(in) = 0
    BY <1>2 DEF Counters
<1>4. \A i \in 1..Len(new) : i + 1 \in 1..Len(ch) /\ 1 < i + 1 /\ new[i] = ch[i + 1]
    BY <1>1
<1>5. \A i \in 1..Len(new) : new[i].type = "disc" /\ pr = "dead"
    BY <1>2, <1>4 DEF Counters
<1>6. pr \in {"asleep", "dead"}
    BY <1>2 DEF Counters
<1>7. AtRest(new, in, pr)
  <2>1. pr # "dead" => Len(new) = 0
      BY <1>1, <1>5
  <2> QED
      BY <1>3, <1>5, <1>6, <2>1 DEF AtRest
<1> QED
    BY <1>7 DEF new

\* Behind a disconnect there is nothing, and its process is gone.
LEMMA DisconnectIsLast ==
    ASSUME NEW last \in Nat, NEW msg \in Nat, NEW ch \in Seq(NodeEvent), NEW in \in Seq(Message), NEW pr,
           Counters(last, msg, ch, in, pr), ch # <<>>, ch[1].type = "disc"
    PROVE  pr = "dead" /\ AtRest(Tail(ch), in, pr)
<1> DEFINE new == Tail(ch)
<1>1. Len(ch) \in Nat \ {0} /\ Len(new) = Len(ch) - 1
    BY TailFacts
<1> HIDE DEF new
<1>2. 1 \in 1..Len(ch)
    BY <1>1
<1>3. pr = "dead" /\ Len(ch) = 1
    BY <1>2 DEF Counters
<1>4. Len(new) = 0
    BY <1>1, <1>3
<1>5. AtRest(new, in, pr)
    BY <1>3, <1>4 DEF AtRest
<1> QED
    BY <1>3, <1>5 DEF new

\* A message that reaches a process gets a number that no event in flight carries.
LEMMA SendCounters ==
    ASSUME NEW last \in Nat, NEW msg \in Nat, NEW ch \in Seq(NodeEvent), NEW in \in Seq(Message), NEW pr,
           NEW d \in Nat, Counters(last, msg, ch, in, pr)
    PROVE  /\ Append(in, [id |-> msg + 1, delay |-> d]) \in Seq(Message)
           /\ Counters(last, msg + 1, ch, Append(in, [id |-> msg + 1, delay |-> d]), pr)
           /\ pr = "dead" => Counters(last, msg + 1, ch, in, pr)
           /\ \A i \in 1..Len(ch) : ~Answers(ch[i], msg + 1)
<1> DEFINE m == [id |-> msg + 1, delay |-> d]
           new == Append(in, m)
<1>1. m \in Message /\ m.id = msg + 1
    BY DEF Message
<1> HIDE DEF m
<1>2. /\ new \in Seq(Message)
      /\ Len(in) \in Nat /\ Len(new) = Len(in) + 1
      /\ \A i \in 1..Len(in) : new[i] = in[i]
      /\ new[Len(in) + 1] = m
    BY <1>1, AppendFacts
<1> HIDE DEF new
<1>3. \A i \in 1..Len(ch) : ch[i].id \in Nat /\ ch[i].id <= last /\ last <= msg
    BY EventFacts DEF Counters
<1>4. \A i \in 1..Len(ch) : ~Answers(ch[i], msg + 1)
    BY <1>3 DEF Answers
<1>5. ASSUME pr # "dead"
      PROVE  last + Len(new) = msg + 1 /\ \A i \in 1..Len(new) : new[i].id = last + i
  <2>1. last + Len(in) = msg /\ \A i \in 1..Len(in) : in[i].id = last + i
      BY <1>5 DEF Counters
  <2>2. \A i \in 1..Len(new) : i \in 1..Len(in) \/ i = Len(in) + 1
      BY <1>2
  <2>3. \A i \in 1..Len(in) : new[i].id = last + i
      BY <1>2, <2>1
  <2>4. new[Len(in) + 1].id = last + (Len(in) + 1) /\ last + Len(new) = msg + 1
      BY <1>1, <1>2, <2>1
  <2> QED
      BY <2>2, <2>3, <2>4
<1>6. last <= msg + 1 /\ \A i \in 1..Len(ch) : ch[i].type = "disc" => i = Len(ch) /\ pr = "dead"
    BY DEF Counters
<1>7. /\ Counters(last, msg + 1, ch, new, pr)
      /\ pr = "dead" => Counters(last, msg + 1, ch, in, pr)
    BY <1>3, <1>4, <1>5, <1>6 DEF Counters
<1> QED
    BY <1>2, <1>4, <1>7 DEF new, m

\* The message carries the time that has passed for the node, and only one sent to a sleeping
\* process with nothing in flight may carry any.
LEMMA SendClocks ==
    ASSUME NEW clk \in Nat, NEW time \in Nat, NEW t \in Nat, NEW in \in Seq(Message), NEW pr, NEW k \in Nat,
           Clocks(clk, time, in, pr), time <= t, Len(in) > 0 \/ pr # "asleep" => time = t
    PROVE  Clocks(clk, t, Append(in, [id |-> k, delay |-> t - time]), pr)
<1> DEFINE m == [id |-> k, delay |-> t - time]
           new == Append(in, m)
<1>1. m \in Message /\ m.delay = t - time
    BY DEF Message
<1> HIDE DEF m
<1>2. /\ Len(in) \in Nat /\ Len(new) = Len(in) + 1
      /\ \A i \in 1..Len(in) : new[i] = in[i]
      /\ new[Len(in) + 1] = m
    BY <1>1, AppendFacts
<1> HIDE DEF new
<1>3. CASE pr = "dead"
    BY <1>3 DEF Clocks, new, m
<1>4. CASE pr # "dead" /\ Len(in) = 0
  <2>1. clk = time /\ new[1] = m /\ Len(new) = 1
      BY <1>2, <1>4 DEF Clocks
  <2>2. clk + new[1].delay = t /\ (pr # "asleep" => new[1].delay = 0)
      BY <1>1, <1>4, <2>1
  <2>3. Clocks(clk, t, new, pr)
      BY <2>1, <2>2 DEF Clocks
  <2> QED
      BY <2>3 DEF new, m
<1>5. CASE pr # "dead" /\ Len(in) > 0
  <2>1. m.delay = 0 /\ time = t
      BY <1>1, <1>5
  <2>2. clk + new[1].delay = t
      BY <1>2, <1>5, <2>1 DEF Clocks
  <2>3. \A i \in 1..Len(new) : i \in 1..Len(in) \/ new[i] = m
      BY <1>2
  <2>4. \A i \in 1..Len(new) : i > 1 \/ pr # "asleep" => new[i].delay = 0
      BY <1>2, <1>5, <2>1, <2>3 DEF Clocks
  <2>5. Clocks(clk, t, new, pr)
      BY <1>2, <2>2, <2>4 DEF Clocks
  <2> QED
      BY <2>5 DEF new, m
<1> QED
    BY <1>2, <1>3, <1>4, <1>5
-----------------------------------------------------------------------------
(* The invariant holds initially. *)

\* After their setup, all nodes are alive and nothing is in flight.
LEMMA InvInit == Init => Inv
<1> SUFFICES ASSUME Init PROVE Inv
    OBVIOUS
<1> USE DEF Init
<1>1. TypeOK
  <2>1. inbox \in [Nodes -> Seq(Message)] /\ chan \in [Nodes -> Seq(NodeEvent)]
      OBVIOUS
  <2>2. /\ msgId \in [Nodes -> Nat] /\ nodeTime \in [Nodes -> Nat] /\ alarm \in [Nodes -> Nat]
        /\ clock \in [Nodes -> Nat] /\ lastMsg \in [Nodes -> Nat] /\ wake \in [Nodes -> Nat]
      BY ConstAssumption
  <2>3. proc \in [Nodes -> ProcState]
      BY DEF ProcState
  <2> QED
      BY <2>1, <2>2, <2>3 DEF TypeOK, DpcState, Receiving
<1>2. ControlInv /\ TimeInv
    BY ConstAssumption DEF ControlInv, TimeInv, Paused
<1>3. ASSUME NEW n \in Nodes PROVE NodeInv(n)
  <2>1. /\ lastMsg[n] = 1 /\ msgId[n] = 1 /\ clock[n] = 0 /\ nodeTime[n] = 0 /\ proc[n] = "awake" /\ n \in alive
        /\ Len(chan[n]) = 0 /\ Len(inbox[n]) = 0
      OBVIOUS
  <2> HIDE DEF Init
  <2>2. \A i \in 1..0 : FALSE
      OBVIOUS
  <2>3. Counters(1, 1, chan[n], inbox[n], "awake") /\ Clocks(0, 0, inbox[n], "awake") /\ SentAt(chan[n], CurTime)
      BY <2>1, <2>2 DEF Counters, Clocks, SentAt
  <2>4. Asks(0, wake[n], 1, chan[n], "awake")
      BY <2>1, <2>2 DEF Asks
  <2> QED
      BY <2>1, <2>3, <2>4 DEF NodeInv
<1> QED
    BY <1>1, <1>2, <1>3 DEF Inv
-----------------------------------------------------------------------------
(* Steps of the node processes. *)

\* The types of what belongs to one node.
LEMMA LocalTypes ==
    ASSUME TypeOK, NEW n \in Nodes
    PROVE  /\ msgId[n] \in Nat /\ nodeTime[n] \in Nat /\ alarm[n] \in Nat
           /\ clock[n] \in Nat /\ lastMsg[n] \in Nat /\ wake[n] \in Nat
           /\ inbox[n] \in Seq(Message) /\ chan[n] \in Seq(NodeEvent)
           /\ CurTime \in Nat
    BY DEF TypeOK

\* A node that a step does not touch keeps its part of the invariant while time stands still.
LEMMA Untouched ==
    ASSUME NEW m \in Nodes, NodeInv(m), UNCHANGED <<CurTime, nodes>>,
           m \in alive' <=> m \in alive,
           msgId'[m] = msgId[m], nodeTime'[m] = nodeTime[m], alarm'[m] = alarm[m],
           inbox'[m] = inbox[m], chan'[m] = chan[m], proc'[m] = proc[m],
           clock'[m] = clock[m], lastMsg'[m] = lastMsg[m], wake'[m] = wake[m]
    PROVE  NodeInv(m)'
    BY Zenon DEF NodeInv, Running, NoFarDelays

\* Node processes leave the dispatcher's own state alone.
LEMMA ProcessFrame ==
    ASSUME TypeOK, ControlInv, TimeInv,
           UNCHANGED <<dpc, control, times, nodes, dnode, queue>>,
           \A m \in Nodes : Running(m)' => Running(m)
    PROVE  ControlInv' /\ TimeInv'
<1> USE DEF control, times, dnode
<1>1. Paused' <=> Paused
    BY DEF Paused
<1>2. ControlInv'
    BY <1>1, ConstAssumption DEF TypeOK, ControlInv
<1>3. TimeInv'
    BY <1>1 DEF TypeOK, TimeInv
<1> QED
    BY <1>2, <1>3

\* A process receives: the delay of the event makes up for what its clock lags behind.
LEMMA NodeReceiveInv ==
    ASSUME Inv, NEW n \in Nodes, NodeReceive(n)
    PROVE  Inv'
<1> USE DEF control, times, dnode, posted, budget
<1>1. TypeOK /\ ControlInv /\ TimeInv /\ NodeInv(n)
    BY DEF Inv
<1>2. /\ proc[n] # "dead" /\ inbox[n] # <<>>
      /\ inbox'[n] = Tail(inbox[n]) /\ Head(inbox[n]) = inbox[n][1]
      /\ lastMsg'[n] = inbox[n][1].id /\ clock'[n] = clock[n] + inbox[n][1].delay
      /\ proc'[n] = "awake" /\ chan'[n] = chan[n] /\ wake'[n] = wake[n]
      /\ inbox[n][1] \in Message /\ Tail(inbox[n]) \in Seq(Message)
    BY <1>1, TailFacts DEF TypeOK, NodeReceive
<1>3. inbox[n][1].id \in Nat /\ inbox[n][1].delay \in Nat
    BY <1>2 DEF Message
<1>4. TypeOK'
  <2>1. inbox' \in [Nodes -> Seq(Message)]
      BY <1>1, <1>2 DEF TypeOK, NodeReceive
  <2>2. clock' \in [Nodes -> Nat] /\ lastMsg' \in [Nodes -> Nat]
    <3>1. Head(inbox[n]).delay \in Nat /\ Head(inbox[n]).id \in Nat
        BY <1>2, <1>3
    <3>2. /\ clock' = [clock EXCEPT ![n] = clock[n] + Head(inbox[n]).delay]
          /\ lastMsg' = [lastMsg EXCEPT ![n] = Head(inbox[n]).id]
        BY DEF NodeReceive
    <3>3. clock \in [Nodes -> Nat] /\ lastMsg \in [Nodes -> Nat]
        BY <1>1 DEF TypeOK
    <3> QED
        BY <3>1, <3>2, <3>3
  <2>3. proc' \in [Nodes -> ProcState]
      BY <1>1 DEF TypeOK, NodeReceive, ProcState
  <2> QED
      BY <1>1, <2>1, <2>2, <2>3 DEF TypeOK, NodeReceive
<1>5. ControlInv' /\ TimeInv'
  <2>1. \A m \in Nodes : Running(m)' => Running(m)
      BY <1>1, <1>2 DEF Running, NodeReceive, TypeOK
  <2> QED
      BY <1>1, <2>1, ProcessFrame DEF NodeReceive
<1>6. ASSUME NEW m \in Nodes, m # n PROVE NodeInv(m)'
    BY <1>1, <1>6, Untouched DEF TypeOK, NodeReceive, Inv
<1>7. NodeInv(n)'
  <2>1. /\ Counters(lastMsg'[n], msgId[n], chan[n], inbox'[n], "awake")
        /\ \A i \in 1..Len(chan[n]) : ~Answers(chan[n][i], msgId[n])
    <3>1. /\ lastMsg[n] \in Nat /\ msgId[n] \in Nat
          /\ inbox[n] \in Seq(Message) /\ chan[n] \in Seq(NodeEvent)
        BY <1>1, LocalTypes
    <3>2. Counters(lastMsg[n], msgId[n], chan[n], inbox[n], proc[n])
        BY <1>1 DEF NodeInv
    <3> QED
        BY <1>2, <3>1, <3>2, ReceiveCounters
  <2>2. Clocks(clock'[n], nodeTime[n], inbox'[n], "awake")
    <3>1. clock[n] \in Nat /\ nodeTime[n] \in Nat /\ inbox[n] \in Seq(Message)
        BY <1>1, LocalTypes
    <3>2. Clocks(clock[n], nodeTime[n], inbox[n], proc[n])
        BY <1>1 DEF NodeInv
    <3>3. Clocks(clock[n] + inbox[n][1].delay, nodeTime[n], Tail(inbox[n]), "awake")
        BY <1>2, <3>1, <3>2, ReceiveClocks
    <3> QED
        BY <1>2, <3>3
  <2>3. Asks(clock'[n], wake[n], msgId[n], chan[n], "awake")
      BY <2>1 DEF Asks
  <2>4. n \in nodes /\ n \in alive /\ SentAt(chan[n], CurTime)
    <3>1. n \in nodes
        BY <1>1, <1>2 DEF ControlInv, Running
    <3>2. Len(inbox[n]) # 0
        BY <1>1, <1>2, LocalTypes, SeqFacts
    <3>3. n \in alive
        BY <1>1, <1>2, <3>1, <3>2 DEF NodeInv, AtRest
    <3> QED
        BY <1>1, <3>1, <3>3 DEF NodeInv
  <2>5. UNCHANGED <<CurTime, nodes, alive, msgId, nodeTime>>
      BY DEF NodeReceive
  <2> QED
      BY <1>2, <2>1, <2>2, <2>3, <2>4, <2>5 DEF NodeInv
<1> QED
    BY <1>4, <1>5, <1>6, <1>7 DEF Inv

\* While it works, a process is alive and its clock shows the dispatcher's time.
LEMMA Working ==
    ASSUME Inv, NEW n \in Nodes, proc[n] \in {"awake", "idle"}
    PROVE  n \in nodes /\ n \in alive /\ n \notin hasDisc /\ clock[n] = CurTime
<1>1. Running(n)
    BY DEF Running
<1>2. n \in nodes /\ n \notin hasDisc
    BY <1>1 DEF Inv, ControlInv
<1>3. n \in alive
    BY <1>2 DEF Inv, NodeInv, AtRest
<1>4. nodeTime[n] = CurTime
    BY <1>1, <1>3 DEF Inv, TimeInv
<1>5. Clocks(clock[n], nodeTime[n], inbox[n], proc[n])
    BY DEF Inv, NodeInv
<1>6. /\ clock[n] \in Nat /\ Len(inbox[n]) \in Nat
      /\ \A i \in 1..Len(inbox[n]) : inbox[n][i].delay \in Nat
    BY LocalTypes, MessageFacts DEF Inv
<1>7. clock[n] = nodeTime[n]
  <2>1. CASE Len(inbox[n]) = 0
      BY <1>5, <2>1 DEF Clocks
  <2>2. CASE Len(inbox[n]) > 0
    <3>1. 1 \in 1..Len(inbox[n])
        BY <1>6, <2>2
    <3>2. clock[n] + inbox[n][1].delay = nodeTime[n] /\ inbox[n][1].delay = 0
        BY <1>5, <2>2, <3>1 DEF Clocks
    <3> QED
        BY <1>6, <3>2
  <2> QED
      BY <1>6, <2>1, <2>2
<1> QED
    BY <1>2, <1>3, <1>4, <1>7

\* A process that works sends a radio event, stamped with the current time.
LEMMA NodeEmitInv ==
    ASSUME Inv, NEW n \in Nodes, NodeEmit(n)
    PROVE  Inv'
<1> USE DEF control, times, dnode, posted, process, budget
<1>1. TypeOK /\ ControlInv /\ TimeInv /\ NodeInv(n) /\ proc[n] = "awake"
    BY DEF Inv, NodeEmit
<1>2. n \in nodes /\ n \in alive /\ clock[n] = CurTime
    BY <1>1, Working
<1>3. PICK e \in NodeEvent : /\ chan' = [chan EXCEPT ![n] = Append(chan[n], e)]
                             /\ e.type \notin {"sleep", "disc"} /\ e.id = lastMsg[n] /\ e.at = clock[n]
  <2>1. /\ lastMsg[n] \in Nat /\ clock[n] \in Nat
        /\ 0 \in Nat /\ \A d \in Delays \cup {0} : d \in Nat
    <3>1. lastMsg[n] \in Nat /\ clock[n] \in Nat
        BY <1>1, LocalTypes
    <3>2. 0 \in Nat /\ \A d \in Delays \cup {0} : d \in Nat
        BY ConstAssumption
    <3> QED
        BY <3>1, <3>2
  <2>2. ASSUME NEW type \in {"comm", "intf", "sample", "state"}, NEW d \in Nat
        PROVE  /\ Sent(n, type, d) \in NodeEvent /\ Sent(n, type, d).type \notin {"sleep", "disc"}
               /\ Sent(n, type, d).id = lastMsg[n] /\ Sent(n, type, d).at = clock[n]
      BY <2>1 DEF Sent, NodeEvent
  <2>3. \E type \in {"comm", "intf", "sample", "state"}, d \in Nat :
            chan' = [chan EXCEPT ![n] = Append(chan[n], Sent(n, type, d))]
      BY <2>1 DEF NodeEmit
  <2> QED
      BY <2>2, <2>3
<1>4. chan[n] \in Seq(NodeEvent) /\ Append(chan[n], e) \in Seq(NodeEvent)
    BY <1>1, LocalTypes, AppendFacts
<1>5. chan' \in [Nodes -> Seq(NodeEvent)] /\ chan'[n] = Append(chan[n], e)
      /\ \A m \in Nodes : m # n => chan'[m] = chan[m]
    BY <1>1, <1>3, <1>4 DEF TypeOK
<1>6. /\ UNCHANGED <<dpc, control, times, nodes, dnode, queue, posted, inbox, process, stimuli, timeouts>>
      /\ emits' = emits + 1
    BY DEF NodeEmit
<1>7. TypeOK'
  <2>1. emits' \in Nat
      BY <1>1, <1>6 DEF TypeOK
  <2> QED
      BY <1>1, <1>5, <1>6, <2>1 DEF TypeOK
<1>8. ControlInv' /\ TimeInv'
    BY <1>1, <1>6, ProcessFrame DEF Running
<1>9. ASSUME NEW m \in Nodes, m # n PROVE NodeInv(m)'
    BY <1>5, <1>6, <1>9, Untouched DEF Inv
<1>10. NodeInv(n)'
  <2>1. /\ lastMsg[n] \in Nat /\ msgId[n] \in Nat /\ inbox[n] \in Seq(Message)
        /\ Counters(lastMsg[n], msgId[n], chan[n], inbox[n], "awake")
      BY <1>1, LocalTypes DEF NodeInv
  <2>2. /\ Counters(lastMsg[n], msgId[n], chan'[n], inbox[n], "awake")
        /\ \A i \in 1..Len(chan'[n]) : ~Answers(chan'[n][i], msgId[n])
      BY <1>3, <1>4, <1>5, <2>1, EmitCounters
  <2>3. SentAt(chan'[n], CurTime)
    <3>1. SentAt(chan[n], CurTime)
        BY <1>1, <1>2 DEF NodeInv
    <3> QED
        BY <1>2, <1>3, <1>4, <1>5, <3>1, AppendSentAt
  <2>4. Asks(clock[n], wake[n], msgId[n], chan'[n], "awake")
      BY <2>2 DEF Asks
  <2>5. Clocks(clock[n], nodeTime[n], inbox[n], "awake")
      BY <1>1 DEF NodeInv
  <2> QED
      BY <1>1, <1>2, <1>6, <2>2, <2>3, <2>4, <2>5 DEF NodeInv
<1> QED
    BY <1>7, <1>8, <1>9, <1>10 DEF Inv

\* The poll finds nothing: then the process has seen everything that was sent.
LEMMA NodePollInv ==
    ASSUME Inv, NEW n \in Nodes, NodePoll(n)
    PROVE  Inv'
<1> USE DEF control, times, dnode, posted, budget
<1>1. TypeOK /\ ControlInv /\ TimeInv /\ NodeInv(n) /\ proc[n] = "awake"
    BY DEF Inv, NodePoll
<1>2. n \in nodes /\ n \in alive
    BY <1>1, Working
<1>3. PICK w : /\ w = Ever \/ \E d \in Delays : w = clock[n] + d
               /\ wake' = [wake EXCEPT ![n] = w]
    BY DEF NodePoll
<1>4. /\ UNCHANGED <<dpc, control, times, nodes, dnode, queue, posted, inbox, chan, clock, lastMsg, budget>>
      /\ proc' = [proc EXCEPT ![n] = "idle"]
    BY DEF NodePoll
<1>5. wake' \in [Nodes -> Nat] /\ wake'[n] = w /\ \A m \in Nodes : m # n => wake'[m] = wake[m]
  <2>1. clock[n] \in Nat /\ Ever \in Nat /\ \A d \in Delays : d \in Nat
      BY <1>1, LocalTypes, ConstAssumption
  <2>2. w \in Nat
      BY <1>3, <2>1
  <2> QED
      BY <1>1, <1>3, <2>2 DEF TypeOK
<1>6. proc' \in [Nodes -> ProcState] /\ proc'[n] = "idle" /\ \A m \in Nodes : m # n => proc'[m] = proc[m]
    BY <1>1, <1>4 DEF TypeOK, ProcState
<1>7. TypeOK'
    BY <1>1, <1>4, <1>5, <1>6 DEF TypeOK
<1>8. ControlInv' /\ TimeInv'
    BY <1>1, <1>4, <1>6, ProcessFrame DEF Running
<1>9. ASSUME NEW m \in Nodes, m # n PROVE NodeInv(m)'
    BY <1>4, <1>5, <1>6, <1>9, Untouched DEF Inv
<1>10. NodeInv(n)'
  <2>1. /\ Counters(lastMsg[n], msgId[n], chan[n], inbox[n], "idle")
        /\ \A i \in 1..Len(chan[n]) : ~Answers(chan[n][i], msgId[n])
    <3>1. /\ lastMsg[n] \in Nat /\ msgId[n] \in Nat /\ inbox[n] \in Seq(Message) /\ chan[n] \in Seq(NodeEvent)
          /\ Counters(lastMsg[n], msgId[n], chan[n], inbox[n], "awake")
        BY <1>1, LocalTypes DEF NodeInv
    <3> QED
        BY <3>1, PollCounters
  <2>2. Asks(clock[n], w, msgId[n], chan[n], "idle")
      BY <1>3, <2>1 DEF Asks
  <2>3. Clocks(clock[n], nodeTime[n], inbox[n], "awake") /\ SentAt(chan[n], CurTime)
      BY <1>1, <1>2 DEF NodeInv
  <2>4. Clocks(clock[n], nodeTime[n], inbox[n], "idle")
      BY <2>3 DEF Clocks
  <2> QED
      BY <1>2, <1>4, <1>5, <1>6, <2>1, <2>2, <2>3, <2>4 DEF NodeInv
<1> QED
    BY <1>7, <1>8, <1>9, <1>10 DEF Inv

\* otSimSendSleepEvent: the sleep event answers the last message the process has seen.
LEMMA NodeSleepInv ==
    ASSUME Inv, NEW n \in Nodes, NodeSleep(n)
    PROVE  Inv'
<1> USE DEF control, times, dnode, posted, budget
<1>1. TypeOK /\ ControlInv /\ TimeInv /\ NodeInv(n) /\ proc[n] = "idle"
    BY DEF Inv, NodeSleep
<1>2. n \in nodes /\ n \in alive /\ clock[n] = CurTime
    BY <1>1, Working
<1> DEFINE delay == IF wake[n] = Ever THEN Ever ELSE wake[n] - clock[n]
           e == Sent(n, "sleep", delay)
<1>3. /\ UNCHANGED <<dpc, control, times, nodes, dnode, queue, posted, inbox, clock, lastMsg, wake, budget>>
      /\ proc' = [proc EXCEPT ![n] = "asleep"]
      /\ chan' = [chan EXCEPT ![n] = Append(chan[n], e)]
    BY DEF NodeSleep
<1>4. wake[n] = Ever \/ \E d \in Delays : wake[n] = clock[n] + d
    BY <1>1 DEF NodeInv, Asks
<1>5. /\ e \in NodeEvent /\ e.type = "sleep" /\ e.id = lastMsg[n] /\ e.at = CurTime
      /\ e.delay = IF wake[n] = Ever THEN Ever ELSE wake[n] - clock[n]
  <2>1. clock[n] \in Nat /\ lastMsg[n] \in Nat /\ wake[n] \in Nat /\ Ever \in Nat /\ \A d \in Delays : d \in Nat
      BY <1>1, LocalTypes, ConstAssumption
  <2>2. delay \in Nat
      BY <1>4, <2>1
  <2> QED
      BY <1>2, <2>1, <2>2 DEF Sent, NodeEvent
<1> HIDE DEF e
<1>6. chan[n] \in Seq(NodeEvent) /\ Append(chan[n], e) \in Seq(NodeEvent)
    BY <1>1, <1>5, LocalTypes, AppendFacts
<1>7. chan' \in [Nodes -> Seq(NodeEvent)] /\ chan'[n] = Append(chan[n], e)
      /\ \A m \in Nodes : m # n => chan'[m] = chan[m]
    BY <1>1, <1>3, <1>6 DEF TypeOK
<1>8. proc' \in [Nodes -> ProcState] /\ proc'[n] = "asleep" /\ \A m \in Nodes : m # n => proc'[m] = proc[m]
    BY <1>1, <1>3 DEF TypeOK, ProcState
<1>9. TypeOK'
    BY <1>1, <1>3, <1>7, <1>8 DEF TypeOK
<1>10. ControlInv' /\ TimeInv'
    BY <1>1, <1>3, <1>8, ProcessFrame DEF Running
<1>11. ASSUME NEW m \in Nodes, m # n PROVE NodeInv(m)'
    BY <1>3, <1>7, <1>8, <1>11, Untouched DEF Inv
<1>12. NodeInv(n)'
  <2>1. /\ Counters(lastMsg[n], msgId[n], chan'[n], inbox[n], "asleep")
        /\ \A i \in 1..Len(chan'[n]) : Answers(chan'[n][i], msgId[n]) => chan'[n][i] = e
    <3>1. /\ lastMsg[n] \in Nat /\ msgId[n] \in Nat /\ inbox[n] \in Seq(Message)
          /\ Counters(lastMsg[n], msgId[n], chan[n], inbox[n], "idle")
        BY <1>1, LocalTypes DEF NodeInv
    <3>2. e \in NodeEvent /\ e.type = "sleep" /\ e.id = lastMsg[n]
        BY <1>5
    <3>3. chan[n] \in Seq(NodeEvent)
        BY <1>6
    <3>4. /\ Counters(lastMsg[n], msgId[n], Append(chan[n], e), inbox[n], "asleep")
          /\ \A i \in 1..Len(Append(chan[n], e)) :
                Answers(Append(chan[n], e)[i], msgId[n]) => Append(chan[n], e)[i] = e
        BY <3>1, <3>2, <3>3, SleepCounters, ZenonT(60)
    <3> QED
        BY <1>7, <3>4
  <2>2. Asks(clock[n], wake[n], msgId[n], chan'[n], "asleep")
      BY <1>4, <1>5, <2>1 DEF Asks
  <2>3. SentAt(chan'[n], CurTime)
    <3>1. SentAt(chan[n], CurTime)
        BY <1>1, <1>2 DEF NodeInv
    <3> QED
        BY <1>5, <1>6, <1>7, <3>1, AppendSentAt
  <2>4. Clocks(clock[n], nodeTime[n], inbox[n], "asleep")
    <3>1. Clocks(clock[n], nodeTime[n], inbox[n], "idle")
        BY <1>1 DEF NodeInv
    <3> QED
        BY <3>1 DEF Clocks
  <2> QED
      BY <1>2, <1>3, <1>7, <1>8, <2>1, <2>2, <2>3, <2>4 DEF NodeInv
<1> QED
    BY <1>9, <1>10, <1>11, <1>12 DEF Inv

\* A process ends at any moment; its disconnect is the last event of its reader.
LEMMA NodeExitInv ==
    ASSUME Inv, NEW n \in Nodes, NodeExit(n)
    PROVE  Inv'
<1> USE DEF control, times, dnode, posted, budget
<1> DEFINE e == Sent(n, "disc", 0)
<1>1. TypeOK /\ ControlInv /\ TimeInv /\ NodeInv(n) /\ proc[n] # "dead"
    BY DEF Inv, NodeExit
<1>2. /\ UNCHANGED <<dpc, control, times, nodes, dnode, queue, posted, clock, lastMsg, wake, budget>>
      /\ proc' = [proc EXCEPT ![n] = "dead"]
      /\ inbox' = [inbox EXCEPT ![n] = <<>>]
      /\ chan' = [chan EXCEPT ![n] = Append(chan[n], e)]
    BY DEF NodeExit
<1>3. e \in NodeEvent /\ e.type = "disc" /\ e.id = lastMsg[n]
  <2>1. lastMsg[n] \in Nat /\ clock[n] \in Nat
      BY <1>1, LocalTypes
  <2> QED
      BY <2>1 DEF Sent, NodeEvent
<1> HIDE DEF e
<1>4. chan[n] \in Seq(NodeEvent) /\ Append(chan[n], e) \in Seq(NodeEvent)
    BY <1>1, <1>3, LocalTypes, AppendFacts
<1>5. chan' \in [Nodes -> Seq(NodeEvent)] /\ chan'[n] = Append(chan[n], e)
      /\ \A m \in Nodes : m # n => chan'[m] = chan[m]
    BY <1>1, <1>2, <1>4 DEF TypeOK
<1>6. proc' \in [Nodes -> ProcState] /\ proc'[n] = "dead" /\ \A m \in Nodes : m # n => proc'[m] = proc[m]
    BY <1>1, <1>2 DEF TypeOK, ProcState
<1>7. inbox' \in [Nodes -> Seq(Message)] /\ inbox'[n] = <<>> /\ \A m \in Nodes : m # n => inbox'[m] = inbox[m]
  <2>1. <<>> \in Seq(Message)
      OBVIOUS
  <2> QED
      BY <1>1, <1>2, <2>1 DEF TypeOK
<1>8. TypeOK'
    BY <1>1, <1>2, <1>5, <1>6, <1>7 DEF TypeOK
<1>9. ControlInv' /\ TimeInv'
    BY <1>1, <1>2, <1>6, ProcessFrame DEF Running
<1>10. ASSUME NEW m \in Nodes, m # n PROVE NodeInv(m)'
    BY <1>2, <1>5, <1>6, <1>7, <1>10, Untouched DEF Inv
<1>11. NodeInv(n)'
  <2>1. /\ Counters(lastMsg[n], msgId[n], chan'[n], <<>>, "dead")
        /\ AtRest(chan[n], inbox[n], proc[n]) => AtRest(chan'[n], <<>>, "dead")
    <3>1. /\ lastMsg[n] \in Nat /\ msgId[n] \in Nat /\ inbox[n] \in Seq(Message)
          /\ Counters(lastMsg[n], msgId[n], chan[n], inbox[n], proc[n])
        BY <1>1, LocalTypes DEF NodeInv
    <3>2. /\ Counters(lastMsg[n], msgId[n], Append(chan[n], e), <<>>, "dead")
          /\ AtRest(chan[n], inbox[n], proc[n]) => AtRest(Append(chan[n], e), <<>>, "dead")
        BY <1>1, <1>3, <1>4, <3>1, ExitCounters
    <3> QED
        BY <1>5, <3>2
  <2>2. n \in nodes => SentAt(chan'[n], CurTime)
    <3>1. n \in nodes => SentAt(chan[n], CurTime)
        BY <1>1 DEF NodeInv
    <3> QED
        BY <1>3, <1>4, <1>5, <3>1, AppendSentAt
  <2>3. n \in nodes \ alive => AtRest(chan[n], inbox[n], proc[n])
      BY <1>1 DEF NodeInv
  <2> QED
      BY <1>2, <1>6, <1>7, <2>1, <2>2, <2>3 DEF NodeInv, Clocks, Asks, Running
<1> QED
    BY <1>8, <1>9, <1>10, <1>11 DEF Inv

\* The reader of a closed connection may drop events before the disconnect.
LEMMA ReaderLosesInv ==
    ASSUME Inv, NEW n \in Nodes, ReaderLoses(n)
    PROVE  Inv'
<1> USE DEF control, times, dnode, posted, process, budget
<1> DEFINE rest == Append(SubSeq(chan[n], 1, Len(chan[n]) - 2), chan[n][Len(chan[n])])
<1>1. TypeOK /\ ControlInv /\ TimeInv /\ NodeInv(n) /\ n \in hasDisc /\ Len(chan[n]) > 1
    BY DEF Inv, ReaderLoses
<1>2. proc[n] = "dead"
    BY <1>1 DEF ControlInv, Running
<1>3. /\ UNCHANGED <<dpc, control, times, nodes, dnode, queue, posted, inbox, process, budget>>
      /\ chan' = [chan EXCEPT ![n] = rest]
    BY DEF ReaderLoses
<1>4. /\ lastMsg[n] \in Nat /\ msgId[n] \in Nat /\ inbox[n] \in Seq(Message) /\ chan[n] \in Seq(NodeEvent)
    BY <1>1, LocalTypes
<1>5. rest \in Seq(NodeEvent)
    BY <1>1, <1>4, DropFacts
<1>6. /\ Counters(lastMsg[n], msgId[n], chan[n], inbox[n], "dead") => Counters(lastMsg[n], msgId[n], rest, inbox[n], "dead")
      /\ AtRest(chan[n], inbox[n], "dead") => AtRest(rest, inbox[n], "dead")
      /\ SentAt(chan[n], CurTime) => SentAt(rest, CurTime)
    BY <1>1, <1>4, Lose
<1> HIDE DEF rest
<1>7. chan' \in [Nodes -> Seq(NodeEvent)] /\ chan'[n] = rest
      /\ \A m \in Nodes : m # n => chan'[m] = chan[m]
    BY <1>1, <1>3, <1>5 DEF TypeOK
<1>8. TypeOK'
    BY <1>1, <1>3, <1>7 DEF TypeOK
<1>9. ControlInv' /\ TimeInv'
    BY <1>1, <1>3, ProcessFrame DEF Running
<1>10. ASSUME NEW m \in Nodes, m # n PROVE NodeInv(m)'
    BY <1>3, <1>7, <1>10, Untouched DEF Inv
<1>11. NodeInv(n)'
    BY <1>1, <1>2, <1>3, <1>6, <1>7 DEF NodeInv, Clocks, Asks, Running
<1> QED
    BY <1>8, <1>9, <1>10, <1>11 DEF Inv

\* Inputs from other goroutines touch nothing the invariant speaks of.
LEMMA InputInv ==
    ASSUME Inv, Stop \/ \E n \in Nodes : HostPost(n)
    PROVE  Inv'
<1> USE DEF control, times, dnode, process, posted, budget
<1>1. UNCHANGED <<dpc, ret, victim, cancel, times, nodes, dnode, queue, inbox, chan, process>>
    BY DEF Stop, HostPost
<1>2. TypeOK'
  <2>1. CASE Stop
      BY <2>1 DEF Inv, TypeOK, Stop
  <2>2. ASSUME NEW n \in Nodes, HostPost(n) PROVE TypeOK'
    <3>1. stimuli' \in Nat /\ hostMsgs' \subseteq Nodes
        BY <2>2 DEF Inv, TypeOK, HostPost
    <3> QED
        BY <2>2, <3>1 DEF Inv, TypeOK, HostPost
  <2> QED
      BY <2>1, <2>2
<1>3. ControlInv' /\ TimeInv'
    BY <1>1 DEF Inv, ControlInv, TimeInv, Paused, Running
<1>4. ASSUME NEW m \in Nodes PROVE NodeInv(m)'
    BY <1>1, Untouched DEF Inv
<1> QED
    BY <1>2, <1>3, <1>4 DEF Inv
-----------------------------------------------------------------------------

(* Events received by the dispatcher. *)

\* What HandleEvent takes from the channel of a node, whatever the event is.
LEMMA HandleEventTakes ==
    ASSUME Inv, NEW n \in Nodes, HandleEvent(n)
    PROVE  /\ dpc \in Receiving /\ chan[n] # <<>> /\ chan[n] \in Seq(NodeEvent)
           /\ Head(chan[n]) = chan[n][1] /\ chan[n][1] \in NodeEvent
           /\ chan' \in [Nodes -> Seq(NodeEvent)] /\ chan'[n] = Tail(chan[n])
           /\ \A m \in Nodes : m # n => chan'[m] = chan[m]
           /\ UNCHANGED <<dpc, control, times, nodes, outTasks, hostMsgs, inbox, process, budget>>
           /\ Counters(lastMsg[n], msgId[n], Tail(chan[n]), inbox[n], proc[n])
           /\ Asks(clock[n], wake[n], msgId[n], Tail(chan[n]), proc[n])
           /\ n \in nodes => SentAt(Tail(chan[n]), CurTime)
           /\ n \in nodes \ alive => AtRest(Tail(chan[n]), inbox[n], proc[n])
<1>1. TypeOK /\ NodeInv(n)
    BY DEF Inv
<1>2. /\ lastMsg[n] \in Nat /\ msgId[n] \in Nat /\ inbox[n] \in Seq(Message) /\ chan[n] \in Seq(NodeEvent)
    BY <1>1, LocalTypes
<1>3. /\ dpc \in Receiving /\ chan[n] # <<>> /\ chan' = [chan EXCEPT ![n] = Tail(chan[n])]
      /\ UNCHANGED <<dpc, control, times, nodes, outTasks, hostMsgs, inbox, process, budget>>
    BY DEF HandleEvent
<1>4. Head(chan[n]) = chan[n][1] /\ chan[n][1] \in NodeEvent /\ Tail(chan[n]) \in Seq(NodeEvent)
    BY <1>2, <1>3, TailFacts
<1>5. chan' \in [Nodes -> Seq(NodeEvent)] /\ chan'[n] = Tail(chan[n]) /\ \A m \in Nodes : m # n => chan'[m] = chan[m]
    BY <1>1, <1>3, <1>4 DEF TypeOK
<1>6. /\ Counters(lastMsg[n], msgId[n], chan[n], inbox[n], proc[n])
      /\ Asks(clock[n], wake[n], msgId[n], chan[n], proc[n])
      /\ n \in nodes => SentAt(chan[n], CurTime)
      /\ n \in nodes \ alive => AtRest(chan[n], inbox[n], proc[n])
    BY <1>1 DEF NodeInv
<1>7. /\ Counters(lastMsg[n], msgId[n], chan[n], inbox[n], proc[n]) => Counters(lastMsg[n], msgId[n], Tail(chan[n]), inbox[n], proc[n])
      /\ AtRest(chan[n], inbox[n], proc[n]) => AtRest(Tail(chan[n]), inbox[n], proc[n])
      /\ SentAt(chan[n], CurTime) => SentAt(Tail(chan[n]), CurTime)
      /\ Asks(clock[n], wake[n], msgId[n], chan[n], proc[n]) => Asks(clock[n], wake[n], msgId[n], Tail(chan[n]), proc[n])
    BY <1>2, <1>3, Take
<1> QED
    BY <1>2, <1>3, <1>4, <1>5, <1>6, <1>7

\* A sleep event: if it repeats the last msgId nothing is left of the node's work, and the alarm
\* set for it is the one the process waits for.
LEMMA SleepEventInv ==
    ASSUME Inv, NEW n \in Nodes, HandleEvent(n), n \in nodes,
           Head(chan[n]).type = "sleep", HandleAlarmFired(n, Head(chan[n]))
    PROVE  Inv'
<1> USE DEF control, times, process, posted, budget
<1> DEFINE e == chan[n][1]
           after == CurTime + (IF e.delay >= FarDelay THEN Ever ELSE e.delay)
<1>1. TypeOK /\ ControlInv /\ TimeInv /\ NodeInv(n)
    BY DEF Inv
<1>2. /\ chan[n] # <<>> /\ chan[n] \in Seq(NodeEvent)
      /\ chan' \in [Nodes -> Seq(NodeEvent)] /\ chan'[n] = Tail(chan[n])
      /\ \A m \in Nodes : m # n => chan'[m] = chan[m]
      /\ UNCHANGED <<dpc, control, times, nodes, outTasks, hostMsgs, inbox, process, budget>>
      /\ UNCHANGED <<hasDisc, msgId, nodeTime, queue, delTasks>>
      /\ dpc \in Receiving /\ e \in NodeEvent /\ e.type = "sleep"
    BY HandleEventTakes DEF HandleAlarmFired
<1>3. /\ alive' = (IF e.id = msgId[n] THEN alive \ {n} ELSE alive)
      /\ alarm' = [alarm EXCEPT ![n] = after]
    BY HandleEventTakes DEF HandleAlarmFired
<1>4. e.delay \in Nat /\ CurTime \in Nat /\ Ever \in Nat /\ FarDelay \in Nat
    BY <1>1, <1>2, ConstAssumption DEF TypeOK, NodeEvent
<1>5. after \in Nat /\ CurTime <= after
    BY <1>4
<1> HIDE DEF after
<1>6. alarm' \in [Nodes -> Nat] /\ alarm'[n] = after /\ \A m \in Nodes : m # n => alarm'[m] = alarm[m]
    BY <1>1, <1>3, <1>5 DEF TypeOK
<1>7. alive' \subseteq alive /\ \A m \in Nodes : m # n => (m \in alive' <=> m \in alive)
    BY <1>3
<1>8. TypeOK'
    BY <1>1, <1>2, <1>6, <1>7 DEF TypeOK
<1>9. Paused' <=> Paused
    BY <1>2 DEF Paused
<1>10. ControlInv'
    BY <1>1, <1>2, <1>7, <1>9 DEF ControlInv, Running, Receiving
<1>11. TimeInv'
    BY <1>1, <1>2, <1>5, <1>6, <1>7, <1>9 DEF TimeInv, Running, TypeOK, ControlInv
<1>12. ASSUME NEW m \in Nodes, m # n PROVE NodeInv(m)'
    BY <1>2, <1>6, <1>7, <1>12, Untouched DEF Inv
<1>13. NodeInv(n)'
  <2>1. n \in alive
    <3>1. 1 \in 1..Len(chan[n])
        BY <1>2, TailFacts
    <3> QED
        BY <1>1, <1>2, <3>1 DEF NodeInv, AtRest
  <2>2. /\ lastMsg[n] \in Nat /\ msgId[n] \in Nat /\ inbox[n] \in Seq(Message)
        /\ Counters(lastMsg[n], msgId[n], chan[n], inbox[n], proc[n])
      BY <1>1, LocalTypes DEF NodeInv
  <2>3. ASSUME n \notin alive'
        PROVE  /\ AtRest(Tail(chan[n]), inbox[n], proc[n])
               /\ NoFarDelays /\ Running(n) => after <= wake[n] \/ wake[n] = Ever
    <3>1. Answers(e, msgId[n])
        BY <1>2, <1>3, <2>1, <2>3 DEF Answers
    <3>2. AtRest(Tail(chan[n]), inbox[n], proc[n])
        BY <1>2, <2>2, <3>1, AnswerMeansRest
    <3>3. ASSUME NoFarDelays, Running(n), wake[n] # Ever PROVE after = wake[n]
      <4>1. proc[n] = "asleep" /\ Len(inbox[n]) = 0
          BY <3>2, <3>3 DEF AtRest, Running
      <4>2. clock[n] = CurTime
          BY <1>1, <2>1, <3>3, <4>1 DEF NodeInv, Clocks, TimeInv, Running
      <4>3. 1 \in 1..Len(chan[n])
          BY <1>2, TailFacts
      <4>4. Asks(clock[n], wake[n], msgId[n], chan[n], proc[n])
          BY <1>1 DEF NodeInv
      <4>5. e.delay = wake[n] - clock[n] /\ \E d \in Delays : wake[n] = clock[n] + d
          BY <3>1, <3>3, <4>1, <4>3, <4>4 DEF Asks, Running
      <4>6. PICK d \in Delays : wake[n] = CurTime + d
          BY <4>2, <4>5
      <4>7. d \in Nat /\ d < FarDelay
          BY <3>3, ConstAssumption DEF NoFarDelays
      <4>8. e.delay = d
          BY <1>4, <4>2, <4>5, <4>6, <4>7
      <4> QED
          BY <1>4, <4>6, <4>7, <4>8 DEF after
    <3>4. wake[n] \in Nat
        BY <1>1, LocalTypes
    <3> QED
        BY <1>5, <3>2, <3>3, <3>4
  <2>4. /\ Counters(lastMsg[n], msgId[n], Tail(chan[n]), inbox[n], proc[n])
        /\ Asks(clock[n], wake[n], msgId[n], Tail(chan[n]), proc[n])
        /\ SentAt(Tail(chan[n]), CurTime)
      BY HandleEventTakes
  <2>5. Clocks(clock[n], nodeTime[n], inbox[n], proc[n])
      BY <1>1 DEF NodeInv
  <2> QED
      BY <1>2, <1>6, <2>3, <2>4, <2>5 DEF NodeInv, Running, NoFarDelays
<1> QED
    BY <1>8, <1>10, <1>11, <1>12, <1>13 DEF Inv

\* A disconnect: the process is gone and its reader has nothing left.
LEMMA DisconnectEventInv ==
    ASSUME Inv, NEW n \in Nodes, HandleEvent(n), n \in nodes,
           Head(chan[n]).type = "disc", HandleDisconnected(n)
    PROVE  Inv'
<1> USE DEF control, times, process, posted, budget
<1>1. TypeOK /\ ControlInv /\ TimeInv /\ NodeInv(n)
    BY DEF Inv
<1>2. /\ chan[n] # <<>> /\ chan[n] \in Seq(NodeEvent) /\ chan[n][1].type = "disc"
      /\ chan' \in [Nodes -> Seq(NodeEvent)] /\ chan'[n] = Tail(chan[n])
      /\ \A m \in Nodes : m # n => chan'[m] = chan[m]
      /\ UNCHANGED <<dpc, control, times, nodes, outTasks, hostMsgs, inbox, process, budget>>
      /\ UNCHANGED <<msgId, nodeTime, queue>>
      /\ dpc \in Receiving
    BY HandleEventTakes DEF HandleDisconnected
<1>3. /\ hasDisc' = hasDisc \cup {n} /\ alive' = alive \ {n} /\ delTasks' \subseteq delTasks \cup {n}
      /\ alarm' = [alarm EXCEPT ![n] = Ever]
    BY DEF HandleDisconnected
<1>4. Ever \in Nat /\ CurTime \in Nat /\ pauseTime \in Nat /\ CurTime <= Ever
    BY <1>1, ConstAssumption DEF TypeOK, ControlInv
<1>5. alarm' \in [Nodes -> Nat] /\ alarm'[n] = Ever /\ \A m \in Nodes : m # n => alarm'[m] = alarm[m]
    BY <1>1, <1>3, <1>4 DEF TypeOK
<1>6. proc[n] = "dead" /\ AtRest(Tail(chan[n]), inbox[n], proc[n])
  <2>1. /\ lastMsg[n] \in Nat /\ msgId[n] \in Nat /\ inbox[n] \in Seq(Message)
        /\ Counters(lastMsg[n], msgId[n], chan[n], inbox[n], proc[n])
      BY <1>1, LocalTypes DEF NodeInv
  <2> QED
      BY <1>2, <2>1, DisconnectIsLast
<1>7. TypeOK'
    BY <1>1, <1>2, <1>3, <1>5 DEF TypeOK
<1>8. Paused' <=> Paused
    BY <1>2 DEF Paused
<1>9. ControlInv'
    BY <1>1, <1>2, <1>3, <1>6, <1>8 DEF ControlInv, Running, Receiving
<1>10. TimeInv'
    BY <1>1, <1>2, <1>3, <1>4, <1>5, <1>8 DEF TimeInv, Running, TypeOK
<1>11. ASSUME NEW m \in Nodes, m # n PROVE NodeInv(m)'
    BY <1>2, <1>3, <1>5, <1>11, Untouched DEF Inv
<1>12. NodeInv(n)'
  <2>1. /\ Counters(lastMsg[n], msgId[n], Tail(chan[n]), inbox[n], proc[n])
        /\ SentAt(Tail(chan[n]), CurTime)
      BY HandleEventTakes
  <2> QED
      BY <1>2, <1>6, <2>1 DEF NodeInv, Running, Clocks, Asks
<1> QED
    BY <1>7, <1>9, <1>10, <1>11, <1>12 DEF Inv

\* An event that is queued, or ignored because its node is unknown.
LEMMA RadioEventInv ==
    ASSUME Inv, NEW n \in Nodes, HandleEvent(n), UNCHANGED <<dnode, delTasks>>,
           \/ UNCHANGED queue
           \/ \E e \in QueuedEvent : e.ts = CurTime /\ queue' = queue \cup {e}
    PROVE  Inv'
<1> USE DEF control, times, process, posted, budget, dnode
<1>1. TypeOK /\ ControlInv /\ TimeInv /\ NodeInv(n)
    BY DEF Inv
<1>2. /\ chan' \in [Nodes -> Seq(NodeEvent)] /\ chan'[n] = Tail(chan[n])
      /\ \A m \in Nodes : m # n => chan'[m] = chan[m]
      /\ UNCHANGED <<dpc, control, times, nodes, outTasks, hostMsgs, inbox, process, budget>>
    BY HandleEventTakes
<1>3. queue' \subseteq QueuedEvent /\ \A e \in queue' : CurTime <= e.ts
  <2>1. queue \subseteq QueuedEvent /\ CurTime <= CurTime /\ \A e \in queue : CurTime <= e.ts
      BY <1>1 DEF TypeOK, TimeInv
  <2> QED
      BY <2>1
<1>4. TypeOK'
    BY <1>1, <1>2, <1>3 DEF TypeOK
<1>5. Paused' <=> Paused
    BY <1>2 DEF Paused
<1>6. ControlInv'
    BY <1>1, <1>2, <1>5 DEF ControlInv, Running
<1>7. TimeInv'
    BY <1>1, <1>2, <1>3, <1>5 DEF TimeInv, Running
<1>8. ASSUME NEW m \in Nodes, m # n PROVE NodeInv(m)'
    BY <1>2, <1>8, Untouched DEF Inv
<1>9. NodeInv(n)'
  <2>1. /\ Counters(lastMsg[n], msgId[n], Tail(chan[n]), inbox[n], proc[n])
        /\ Asks(clock[n], wake[n], msgId[n], Tail(chan[n]), proc[n])
        /\ n \in nodes => SentAt(Tail(chan[n]), CurTime)
        /\ n \in nodes \ alive => AtRest(Tail(chan[n]), inbox[n], proc[n])
      BY HandleEventTakes
  <2>2. /\ Clocks(clock[n], nodeTime[n], inbox[n], proc[n])
        /\ NoFarDelays /\ Running(n) /\ n \notin alive => alarm[n] <= wake[n] \/ wake[n] = Ever
      BY <1>1 DEF NodeInv
  <2> QED
      BY <1>2, <2>1, <2>2 DEF NodeInv, Running, NoFarDelays
<1> QED
    BY <1>4, <1>6, <1>7, <1>8, <1>9 DEF Inv

\* HandleEvent preserves the invariant for every type of event.
LEMMA HandleEventInv ==
    ASSUME Inv, NEW n \in Nodes, HandleEvent(n)
    PROVE  Inv'
<1>1. CASE n \notin nodes /\ UNCHANGED <<dnode, queue, delTasks>>
    BY <1>1, RadioEventInv
<1>2. CASE n \in nodes /\ Head(chan[n]).type = "sleep" /\ HandleAlarmFired(n, Head(chan[n]))
    BY <1>2, SleepEventInv
<1>3. CASE n \in nodes /\ Head(chan[n]).type = "disc" /\ HandleDisconnected(n)
    BY <1>3, DisconnectEventInv
<1>4. CASE /\ n \in nodes /\ Head(chan[n]).type \in {"comm", "intf", "sample", "state"}
           /\ QueueRadio(n, Head(chan[n]))
  <2> DEFINE e == Head(chan[n])
             q == [ts |-> CurTime, node |-> n, kind |-> e.type, delay |-> e.delay]
  <2>1. e \in NodeEvent /\ CurTime \in Nat
    <3>1. TypeOK
        BY DEF Inv
    <3> QED
        BY <3>1, HandleEventTakes, LocalTypes
  <2>2. e.delay \in Nat /\ e.type \in QueueKind
      BY <1>4, <2>1 DEF NodeEvent, QueueKind
  <2> HIDE DEF e
  <2>3. q \in QueuedEvent /\ q.ts = CurTime
      BY <2>1, <2>2 DEF QueuedEvent
  <2>4. queue' = queue \cup {q} /\ UNCHANGED <<dnode, delTasks>>
      BY <1>4 DEF QueueRadio, e
  <2> HIDE DEF q
  <2> QED
      BY <2>3, <2>4, RadioEventInv
<1> QED
    BY <1>1, <1>2, <1>3, <1>4 DEF HandleEvent

\* An event of a simulated host is queued for the current time.
LEMMA HandleHostEventInv ==
    ASSUME Inv, NEW n \in Nodes, HandleHostEvent(n)
    PROVE  Inv'
<1> USE DEF control, times, process, posted, budget, dnode
<1>1. TypeOK /\ ControlInv /\ TimeInv
    BY DEF Inv
<1>2. /\ UNCHANGED <<dpc, control, times, nodes, dnode, delTasks, outTasks, inbox, chan, process, budget>>
      /\ hostMsgs' = hostMsgs \ {n}
      /\ queue' \subseteq queue \cup {Queued(CurTime, n, "host")}
    BY DEF HandleHostEvent
<1>3. Queued(CurTime, n, "host") \in QueuedEvent /\ Queued(CurTime, n, "host").ts = CurTime
    BY <1>1 DEF TypeOK, Queued, QueuedEvent, QueueKind
<1>4. queue' \subseteq QueuedEvent /\ \A e \in queue' : CurTime <= e.ts
  <2>1. queue \subseteq QueuedEvent /\ CurTime <= CurTime /\ \A e \in queue : CurTime <= e.ts
      BY <1>1 DEF TypeOK, TimeInv
  <2> QED
      BY <1>2, <1>3, <2>1
<1>5. TypeOK'
    BY <1>1, <1>2, <1>4 DEF TypeOK
<1>6. Paused' <=> Paused
    BY <1>2 DEF Paused
<1>7. ControlInv' /\ TimeInv'
    BY <1>1, <1>2, <1>4, <1>6 DEF ControlInv, TimeInv, Running
<1>8. ASSUME NEW m \in Nodes PROVE NodeInv(m)'
    BY <1>2, Untouched DEF Inv
<1> QED
    BY <1>5, <1>7, <1>8 DEF Inv
-----------------------------------------------------------------------------
(* Steps of the dispatcher goroutine that only move it along. *)

\* Such a step preserves the invariant if it starts no pause and enters no state too early.
LEMMA ControlStep ==
    ASSUME Inv, TypeOK', UNCHANGED <<CurTime, nodes, dnode, queue, inbox, chan, process>>,
           CurTime <= pauseTime' /\ pauseTime' <= Ever,
           Paused' => Paused /\ pauseTime' = pauseTime,
           dpc' = "next" => alive = {},
           dpc' \in {"del1", "del2", "kill", "del3"} => victim' \in nodes,
           dpc' = "del3" => ~Running(victim')
    PROVE  Inv'
<1> USE DEF dnode, process
<1>1. ControlInv'
    BY DEF Inv, ControlInv, Running
<1>2. TimeInv'
    BY DEF Inv, TimeInv, Running
<1>3. ASSUME NEW m \in Nodes PROVE NodeInv(m)'
    BY Untouched DEF Inv
<1> QED
    BY <1>1, <1>2, <1>3 DEF Inv

\* RecvEvents only counts its timeouts.
LEMMA RecvOverType == ASSUME timeouts \in Nat, RecvOver PROVE timeouts' \in Nat
    BY DEF RecvOver

\* Tasks that send nothing: the end of a command, a display task, a cancellation, a deletion that begins.
LEMMA TaskStepInv ==
    ASSUME Inv,
           \/ CommandReturn \/ GoCancel
           \/ \E n \in Nodes : DisplayOutput(n) \/ DeleteCommand(n) \/ DeleteDisconnected(n)
    PROVE  Inv'
<1> USE DEF control, times, process, posted, budget, dnode, InTasks
<1>1. TypeOK /\ ControlInv /\ CurTime <= pauseTime /\ pauseTime <= Ever
    BY DEF Inv, ControlInv
<1>2. CASE CommandReturn
  <2>1. TypeOK'
      BY <1>1, <1>2 DEF TypeOK, CommandReturn, DpcState, Receiving
  <2>2. dpc' \in {"run", "tasks", "drain"} /\ (Paused' => Paused)
      BY <1>1, <1>2 DEF TypeOK, CommandReturn, Paused
  <2> QED
      BY <1>1, <1>2, <2>1, <2>2, ControlStep DEF CommandReturn
<1>3. CASE GoCancel
  <2>1. TypeOK'
      BY <1>1, <1>3 DEF TypeOK, GoCancel
  <2>2. dpc' = "tasks" /\ ~Paused'
      BY <1>3 DEF GoCancel, Paused
  <2> QED
      BY <1>1, <1>3, <2>1, <2>2, ControlStep DEF GoCancel
<1>4. ASSUME NEW n \in Nodes, DisplayOutput(n) PROVE Inv'
  <2>1. TypeOK'
      BY <1>1, <1>4 DEF TypeOK, DisplayOutput, DpcState, Receiving
  <2>2. dpc' = "cmd" /\ (Paused' => Paused)
      BY <1>4 DEF DisplayOutput, Paused
  <2> QED
      BY <1>1, <1>4, <2>1, <2>2, ControlStep DEF DisplayOutput
<1>5. ASSUME NEW n \in Nodes, DeleteCommand(n) PROVE Inv'
  <2>1. stimuli' \in Nat
      BY <1>1, <1>5 DEF TypeOK, DeleteCommand
  <2>2. TypeOK'
      BY <1>1, <1>5, <2>1 DEF TypeOK, DeleteCommand, StartDelete, DpcState, Receiving
  <2>3. dpc' = "del1" /\ victim' \in nodes /\ (Paused' => Paused)
      BY <1>5 DEF DeleteCommand, StartDelete, Paused
  <2> QED
      BY <1>1, <1>5, <2>2, <2>3, ControlStep DEF DeleteCommand
<1>6. ASSUME NEW n \in Nodes, DeleteDisconnected(n) PROVE Inv'
  <2>1. CASE n \in nodes /\ ~stopping
    <3>1. TypeOK'
        BY <1>1, <1>6, <2>1 DEF TypeOK, DeleteDisconnected, StartDelete, DpcState, Receiving
    <3>2. dpc' = "del1" /\ victim' \in nodes /\ (Paused' => Paused)
        BY <1>6, <2>1 DEF DeleteDisconnected, StartDelete, Paused
    <3> QED
        BY <1>1, <1>6, <3>1, <3>2, ControlStep DEF DeleteDisconnected
  <2>2. CASE ~(n \in nodes /\ ~stopping)
    <3>1. TypeOK'
        BY <1>1, <1>6, <2>2 DEF TypeOK, DeleteDisconnected
    <3>2. dpc' \in {"run", "tasks", "drain"} /\ (Paused' => Paused)
        BY <1>6, <2>2 DEF DeleteDisconnected, Paused
    <3> QED
        BY <1>1, <1>6, <2>2, <3>1, <3>2, ControlStep DEF DeleteDisconnected
  <2> QED
      BY <2>1, <2>2
<1> QED
    BY <1>2, <1>3, <1>4, <1>5, <1>6

\* DeleteNode waits, first for the simulation and then for the process to end.
LEMMA ExitStepInv ==
    ASSUME Inv, ExitInitiated \/ FinalizeExit
    PROVE  Inv'
<1> USE DEF control, times, process, posted, budget, dnode
<1>1. TypeOK /\ ControlInv /\ CurTime <= pauseTime /\ pauseTime <= Ever
    BY DEF Inv, ControlInv
<1>2. CASE ExitInitiated
  <2>1. timeouts' \in Nat
      BY <1>1, <1>2, RecvOverType DEF TypeOK, ExitInitiated
  <2>2. TypeOK'
      BY <1>1, <1>2, <2>1 DEF TypeOK, ExitInitiated, DpcState, Receiving
  <2>3. dpc' = "kill" /\ victim' \in nodes /\ (Paused' => Paused)
      BY <1>1, <1>2 DEF ExitInitiated, Paused, ControlInv
  <2> QED
      BY <1>1, <1>2, <2>2, <2>3, ControlStep DEF ExitInitiated
<1>3. CASE FinalizeExit
  <2>1. dpc' = "del3" /\ victim' \in nodes /\ ~Running(victim') /\ (Paused' => Paused)
      BY <1>1, <1>3 DEF FinalizeExit, Paused, ControlInv, Running
  <2>2. TypeOK'
      BY <1>1, <1>3, <2>1 DEF TypeOK, FinalizeExit, DpcState, Receiving
  <2> QED
      BY <1>1, <1>3, <2>1, <2>2, ControlStep DEF FinalizeExit
<1> QED
    BY <1>2, <1>3

\* Steps of Run and of the loop of a period that neither send nor advance time.
LEMMA RunStepInv ==
    ASSUME Inv, RunExit \/ DrainDone \/ TasksDone \/ SyncReturn \/ \E d \in Durations : RunGo(d)
    PROVE  Inv'
<1> USE DEF control, times, process, posted, budget, dnode
<1>1. TypeOK /\ ControlInv /\ CurTime <= pauseTime /\ pauseTime <= Ever
    BY DEF Inv, ControlInv
<1>2. CASE RunExit
  <2>1. TypeOK' /\ dpc' = "drain" /\ Paused
      BY <1>1, <1>2 DEF TypeOK, RunExit, DpcState, Receiving, Paused
  <2> QED
      BY <1>1, <1>2, <2>1, ControlStep DEF RunExit
<1>3. CASE DrainDone
  <2>1. TypeOK' /\ dpc' = "exit" /\ Paused
      BY <1>1, <1>3 DEF TypeOK, DrainDone, DpcState, Receiving, Paused
  <2> QED
      BY <1>1, <1>3, <2>1, ControlStep DEF DrainDone
<1>4. CASE TasksDone
  <2>1. TypeOK' /\ dpc' \in {"next", "loop"} /\ (dpc' = "next" => alive = {})
      BY <1>1, <1>4 DEF TypeOK, TasksDone, DpcState, Receiving
  <2>2. ~Paused'
      BY <2>1 DEF Paused
  <2> QED
      BY <1>1, <1>4, <2>1, <2>2, ControlStep DEF TasksDone
<1>5. CASE SyncReturn
  <2>1. timeouts' \in Nat
      BY <1>1, <1>5, RecvOverType DEF TypeOK, SyncReturn
  <2>2. TypeOK' /\ dpc' = "run" /\ Paused
      BY <1>1, <1>5, <2>1 DEF TypeOK, SyncReturn, DpcState, Receiving, Paused
  <2> QED
      BY <1>1, <1>5, <2>2, ControlStep DEF SyncReturn
<1>6. ASSUME NEW d \in Durations, RunGo(d) PROVE Inv'
  <2>1. CurTime \in Nat /\ pauseTime \in Nat /\ d \in Nat /\ Ever \in Nat /\ CurTime <= Ever
      BY <1>1, ConstAssumption DEF TypeOK
  <2>2. pauseTime' \in Nat /\ CurTime <= pauseTime' /\ pauseTime' <= Ever
      BY <1>6, <2>1 DEF RunGo, Min2
  <2>3. TypeOK' /\ dpc' = "loop"
      BY <1>1, <1>6, <2>2 DEF TypeOK, RunGo, DpcState, Receiving
  <2>4. ~Paused'
      BY <2>3 DEF Paused
  <2> QED
      BY <1>6, <2>2, <2>3, <2>4, ControlStep DEF RunGo
<1> QED
    BY <1>2, <1>3, <1>4, <1>5, <1>6
=============================================================================

------------------------- MODULE UartReceiverProofs -------------------------
(***************************************************************************)
(* For any texts, cut anywhere, flushed anywhere, with rings and ERRORs in *)
(* between, the channel never opens with a reply outstanding unless two    *)
(* tasks have been in iridium_send_raw at once, at most one ring task      *)
(* works, and every variable keeps its type.                               *)
(*                                                                         *)
(* Where one task sends, lines stay whole, a ring has an event of its own, *)
(* nothing is flushed and no ERROR comes, no reply is lost, and            *)
(* uart_satcom_task implements ReplyChannel; the fields of iridium_t are   *)
(* those of the last reply, only a message without text stops the device,  *)
(* and message_callback gets every text in order.                          *)
(*                                                                         *)
(* What ends a reply is its line OK. It is the only one there is, on the   *)
(* wire, among the lines of the event or in hand, and only it opens the    *)
(* channel (WInv, and RInv where one task sends). In the orderly case it   *)
(* is there until it opens the channel (KInv), and the lines on the stack  *)
(* and the lines still to be scanned are those of the reply (DInv).        *)
(***************************************************************************)
EXTENDS UartReceiver, TokensProofs, SequenceTheorems

Words == AT \cup Values \cup {"+", ":", ",", "CSQ", "SBD", "SBDRT", "CRIS", "O", "K",
                              "SBDRING", "ERROR", EOL}
IsSeq(s) == \E S : s \in Seq(S)

\* How often the first half of OK occurs in a text, and OK among lines.
NoO(s) == \A i \in DOMAIN s : s[i] # "O"
OneO(s) == \A i, j \in DOMAIN s : s[i] = "O" /\ s[j] = "O" => i = j
NoOK(lines) == \A i \in DOMAIN lines : lines[i] # OK
OneOK(lines) == \A i, j \in DOMAIN lines : lines[i] = OK /\ lines[j] = OK => i = j

\* A sequence grows by one.
LEMMA AppendIsSeq ==
  ASSUME NEW s, IsSeq(s), NEW e
  PROVE  IsSeq(Append(s, e)) /\ Len(Append(s, e)) = Len(s) + 1
<1>1. PICK S : s \in Seq(S)
  BY DEF IsSeq
<1>2. s \in Seq(S \cup {e}) /\ e \in S \cup {e}
  BY <1>1
<1>3. Append(s, e) \in Seq(S \cup {e}) /\ Len(Append(s, e)) = Len(s) + 1
  BY <1>2
<1> QED BY <1>3 DEF IsSeq

\* One OK in two texts after each other.
LEMMA Joined ==
  ASSUME NEW a \in Seq(Words), NEW b \in Seq(Words)
  PROVE  /\ a \o b \in Seq(Words)
         /\ NoO(a) /\ NoO(b) => NoO(a \o b)
         /\ OneO(a) /\ NoO(b) => OneO(a \o b)
         /\ NoO(a) /\ OneO(b) => OneO(a \o b)
<1>1. a \o b \in Seq(Words) /\ Len(a \o b) = Len(a) + Len(b) /\ Len(a) \in Nat /\ Len(b) \in Nat
  OBVIOUS
<1>2. \A i \in DOMAIN (a \o b) :
        \/ i \in DOMAIN a /\ (a \o b)[i] = a[i]
        \/ i - Len(a) \in DOMAIN b /\ (a \o b)[i] = b[i - Len(a)] /\ i \in Int
  BY <1>1
<1>3. NoO(a) /\ NoO(b) => NoO(a \o b)
  BY <1>2 DEF NoO
<1>4. OneO(a) /\ NoO(b) => OneO(a \o b)
  BY <1>2 DEF NoO, OneO
<1>5. NoO(a) /\ OneO(b) => OneO(a \o b)
  BY <1>1, <1>2 DEF NoO, OneO
<1> QED BY <1>1, <1>3, <1>4, <1>5

\* A text cut in two has its OK in one of the parts.
LEMMA Cut ==
  ASSUME NEW s \in Seq(Words), NEW n \in 0 .. Len(s)
  PROVE  LET a == SubSeq(s, 1, n)
             b == SubSeq(s, n + 1, Len(s))
         IN  /\ a \in Seq(Words) /\ b \in Seq(Words)
             /\ NoO(s) => NoO(a) /\ NoO(b)
             /\ OneO(s) => (OneO(a) /\ NoO(b)) \/ (NoO(a) /\ OneO(b))
<1> DEFINE a == SubSeq(s, 1, n)
           b == SubSeq(s, n + 1, Len(s))
<1>1. /\ a \in Seq(Words) /\ DOMAIN a = 1 .. n /\ \A i \in 1 .. n : a[i] = s[i]
      /\ \A i \in 1 .. n : i \in DOMAIN s
  OBVIOUS
<1>2. /\ b \in Seq(Words) /\ DOMAIN b = 1 .. Len(s) - n
      /\ \A i \in 1 .. Len(s) - n : b[i] = s[i + n]
      /\ \A i \in 1 .. Len(s) - n : i + n \in DOMAIN s
      /\ \A i, j \in 1 .. Len(s) - n : i + n = j + n => i = j
      /\ \A i \in 1 .. n : \A j \in 1 .. Len(s) - n : i # j + n
  OBVIOUS
<1> HIDE DEF a, b
<1>3. NoO(s) => NoO(a) /\ NoO(b)
  BY <1>1, <1>2 DEF NoO
<1>4. OneO(s) => OneO(a) /\ OneO(b)
  <2>1. OneO(s) => OneO(a)
    BY <1>1 DEF OneO
  <2>2. ASSUME OneO(s), NEW i \in DOMAIN b, NEW j \in DOMAIN b, b[i] = "O", b[j] = "O"
        PROVE  i = j
    <3>1. /\ i + n \in DOMAIN s /\ j + n \in DOMAIN s
          /\ s[i + n] = "O" /\ s[j + n] = "O" /\ (i + n = j + n => i = j)
      BY <1>2, <2>2
    <3> QED BY <2>2, <3>1 DEF OneO
  <2> QED BY <2>1, <2>2 DEF OneO
<1>5. OneO(s) => NoO(a) \/ NoO(b)
  <2> SUFFICES ASSUME OneO(s), NEW i \in 1 .. n, NEW j \in 1 .. Len(s) - n, a[i] = "O", b[j] = "O"
               PROVE  FALSE
    BY <1>1, <1>2 DEF NoO
  <2> QED BY <1>1, <1>2 DEF OneO
<1> QED BY <1>1, <1>2, <1>3, <1>4, <1>5 DEF a, b

\* strtok finds OK at most as often as it is in the text.
LEMMA FieldsKeepOK ==
  ASSUME NEW s \in Seq(Words)
  PROVE  /\ Fields(s, EOL) \in Seq(Seq(Words))
         /\ NoO(s) => NoOK(Fields(s, EOL))
         /\ OneO(s) => OneOK(Fields(s, EOL))
<1> DEFINE S == Starts(s, EOL)
           F == Fields(s, EOL)
<1>1. F \in Seq(Seq(Words)) /\ DOMAIN F = 1 .. Cardinality(S)
  BY FieldsType
<1>2. ASSUME NEW n \in DOMAIN F, F[n] = OK
      PROVE  \E i \in S : Rank(S, i) = n /\ i \in DOMAIN s /\ s[i] = "O"
  <2>1. PICK i \in S : Rank(S, i) = n /\ F[n] = FieldAt(s, EOL, i)
    BY <1>1, FieldHasStart
  <2>2. FieldAt(s, EOL, i)[1] = s[i]
    BY FieldAtIs
  <2>3. i \in DOMAIN s /\ s[i] = F[n][1]
    BY <2>1, <2>2 DEF Starts
  <2>4. F[n][1] = "O"
    BY <1>2 DEF OK
  <2> QED BY <2>1, <2>3, <2>4
<1>3. NoO(s) => NoOK(F)
  BY <1>2 DEF NoO, NoOK
<1>4. OneO(s) => OneOK(F)
  BY <1>2 DEF OneO, OneOK
<1> QED BY <1>1, <1>3, <1>4

\* A line that is not empty is its words and the line end.
LEMMA LineIs ==
  ASSUME NEW s \in Seq(Words), s # <<>>
  PROVE  /\ Line(s) \in Seq(Words) /\ Len(Line(s)) = Len(s) + 1 /\ Len(s) \in Nat
         /\ \A i \in 1 .. Len(s) : Line(s)[i] = s[i]
         /\ Line(s)[Len(s) + 1] = EOL
<1>1. EOL \in Words
  BY DEF Words
<1>2. Line(s) = Append(s, EOL)
  BY DEF Line
<1> QED BY <1>1, <1>2

\* A line end is no OK.
LEMMA LineKeeps ==
  ASSUME NEW s \in Seq(Words), NoO(s)
  PROVE  Line(s) \in Seq(Words) /\ NoO(Line(s))
<1>1. EOL \in Words /\ EOL # "O"
  BY DEF Words, EOL
<1>2. CASE s = <<>>
  BY <1>2 DEF Line
<1>3. CASE s # <<>>
  <2>1. Line(s) = Append(s, EOL)
    BY <1>3 DEF Line
  <2>2. Append(s, EOL) \in Seq(Words)
    BY <1>1
  <2>3. \A i \in DOMAIN Append(s, EOL) :
          (i \in DOMAIN s /\ Append(s, EOL)[i] = s[i]) \/ Append(s, EOL)[i] = EOL
    OBVIOUS
  <2> QED BY <1>1, <2>1, <2>2, <2>3 DEF NoO
<1> QED BY <1>2, <1>3

\* The lines of a reply but the last, and of an ERROR, hold no OK.
LEMMA LinesOfReply ==
  ASSUME NEW c \in Commands, NEW p \in Payloads(c)
  PROVE  /\ Header(c) \in Seq(Words) /\ Body(c, p) \in Seq(Words)
         /\ Line(<<c>>) \in Seq(Words) /\ NoO(Line(<<c>>))
         /\ DataLines(c, p) \in Seq(Words) /\ NoO(DataLines(c, p))
         /\ Line(OK) \in Seq(Words) /\ OneO(Line(OK))
         /\ Line(ERROR) \in Seq(Words) /\ NoO(Line(ERROR))
         /\ Line(SBDRING) \in Seq(Words) /\ NoO(Line(SBDRING))
<1> DEFINE Plain(s) == s \in Seq(Words) /\ NoO(s)
<1>1. ASSUME NEW s, Plain(s) PROVE Plain(Line(s))
  BY <1>1, LineKeeps
<1>2. ASSUME NEW w \in Words, w # "O" PROVE Plain(<<w>>)
  <2>1. <<w>> \in Seq(Words) /\ \A i \in DOMAIN <<w>> : <<w>>[i] = w
    OBVIOUS
  <2> QED BY <1>2, <2>1 DEF NoO
<1>3. Plain(<<>>)
  <2>1. <<>> \in Seq(Words) /\ DOMAIN <<>> = {}
    OBVIOUS
  <2> QED BY <2>1 DEF NoO
<1>4. \A a, b : Plain(a) /\ Plain(b) => Plain(a \o b)
  BY Joined
<1>5. Plain(p)
  <2>1. Values \cup {"+"} \subseteq Words /\ "O" \notin Values \cup {"+"}
    BY ReceiverAssumption DEF Words
  <2>2. CASE c = "AT+SBDRT"
    <3>1. p \in Seq(Values \cup {"+"})
      BY <2>2, ReceiverAssumption DEF Payloads
    <3>2. \A i \in DOMAIN p : p[i] \in Values \cup {"+"}
      BY <3>1
    <3>3. p \in Seq(Words)
      BY <2>1, <3>1
    <3> QED BY <2>1, <3>2, <3>3 DEF NoO
  <2>3. CASE c # "AT+SBDRT"
    <3>1. PICK v \in Values : p = <<v>>
      BY <2>3 DEF Payloads
    <3> QED BY <1>2, <2>1, <3>1
  <2> QED BY <2>2, <2>3
<1>6. Plain(<<",">>)
  BY <1>2 DEF Words
<1>7. Plain(Header(c))
  <2>1. \A w \in {"+", "CSQ", "SBD", "CRIS", "SBDRT", ":"} : w \in Words /\ w # "O"
    BY DEF Words
  <2>2. ASSUME NEW w \in {"CSQ", "SBD", "CRIS", "SBDRT"} PROVE Plain(<<"+", w, ":">>)
    <3>1. /\ <<"+", w, ":">> \in Seq(Words)
          /\ \A i \in DOMAIN <<"+", w, ":">> : <<"+", w, ":">>[i] \in {"+", w, ":"}
      BY <2>1
    <3> QED BY <2>1, <3>1 DEF NoO
  <2> QED BY <1>3, <2>2 DEF Header
<1> HIDE DEF Plain
<1>8. Plain(Body(c, p))
  <2>1. Plain(p \o <<",">> \o p)
    BY <1>4, <1>5, <1>6
  <2>2. Plain(p \o <<",">> \o p \o <<",">> \o p)
    BY <1>4, <1>5, <1>6, <2>1
  <2>3. Plain(p \o <<",">> \o p \o <<",">> \o p \o <<",">> \o p)
    BY <1>4, <1>5, <1>6, <2>2
  <2>4. Plain(p \o <<",">> \o p \o <<",">> \o p \o <<",">> \o p \o <<",">> \o p)
    BY <1>4, <1>5, <1>6, <2>3
  <2>5. Plain(p \o <<",">> \o p \o <<",">> \o p \o <<",">> \o p \o <<",">> \o p
              \o <<",">> \o p)
    BY <1>4, <1>5, <1>6, <2>4
  <2> QED BY <1>3, <1>5, <2>1, <2>5 DEF Body
<1>9. Plain(DataLines(c, p))
  <2>1. Plain(Header(c) \o Body(c, p))
    BY <1>4, <1>7, <1>8
  <2>2. Plain(Line(Header(c))) /\ Plain(Line(Body(c, p))) /\ Plain(Line(Header(c) \o Body(c, p)))
    BY <1>1, <1>7, <1>8, <2>1
  <2> QED BY <1>4, <2>2 DEF DataLines
<1>10. Plain(Line(<<c>>))
  <2>1. c \in Words /\ c # "O"
    BY ReceiverAssumption DEF Words
  <2> QED BY <1>1, <1>2, <2>1
<1>11. Plain(Line(ERROR)) /\ Plain(Line(SBDRING))
  <2>1. Plain(ERROR) /\ Plain(SBDRING)
    BY <1>2 DEF Words, ERROR, SBDRING
  <2> QED BY <1>1, <2>1
<1>12. Line(OK) \in Seq(Words) /\ OneO(Line(OK))
  <2>1. Plain(<<"K">>)
    BY <1>2 DEF Words
  <2>2. <<"O">> \in Seq(Words) /\ DOMAIN <<"O">> = {1}
    BY DEF Words
  <2>3. OneO(<<"O">>)
    BY <2>2 DEF OneO
  <2>4. Line(OK) = <<"O">> \o Line(<<"K">>)
    BY DEF Line, OK
  <2>5. Plain(Line(<<"K">>))
    BY <1>1, <2>1
  <2> QED BY <2>2, <2>3, <2>4, <2>5, Joined DEF Plain
<1> QED BY <1>7, <1>8, <1>9, <1>10, <1>11, <1>12 DEF Plain

\* What is behind the first line holds no more OKs, and none behind an OK.
LEMMA TailOfLines ==
  ASSUME NEW lines \in Seq(Seq(Words)), lines # <<>>
  PROVE  /\ Tail(lines) \in Seq(Seq(Words))
         /\ NoOK(lines) => NoOK(Tail(lines)) /\ Head(lines) # OK
         /\ OneOK(lines) => OneOK(Tail(lines))
         /\ OneOK(lines) /\ Head(lines) = OK => NoOK(Tail(lines))
<1>1. /\ Tail(lines) \in Seq(Seq(Words)) /\ 1 \in DOMAIN lines /\ Head(lines) = lines[1]
      /\ \A i \in DOMAIN Tail(lines) :
           i + 1 \in DOMAIN lines /\ Tail(lines)[i] = lines[i + 1] /\ i + 1 # 1
      /\ \A i, j \in DOMAIN Tail(lines) : i + 1 = j + 1 => i = j
  OBVIOUS
<1> DEFINE t == Tail(lines)
<1> HIDE DEF t
<1>2. NoOK(lines) => NoOK(Tail(lines)) /\ Head(lines) # OK
  BY <1>1 DEF NoOK
<1>3. OneOK(lines) => OneOK(Tail(lines))
  <2> SUFFICES ASSUME OneOK(lines), NEW i \in DOMAIN Tail(lines), NEW j \in DOMAIN Tail(lines),
                      Tail(lines)[i] = OK, Tail(lines)[j] = OK
               PROVE  i = j
    BY DEF OneOK
  <2>1. i + 1 = j + 1
    BY <1>1 DEF OneOK
  <2> QED BY <1>1, <2>1
<1>4. OneOK(lines) /\ Head(lines) = OK => NoOK(Tail(lines))
  BY <1>1 DEF NoOK, OneOK
<1> QED BY <1>1, <1>2, <1>3, <1>4

-----------------------------------------------------------------------------
Reading == uart_pc \in {"receive", "scan", "spin"}
Nothing == Reading /\ NoO(wire) /\ NoOK(chunk) /\ Len(handled) = Len(sent)
Pending ==
  /\ Len(handled) + 1 = Len(sent)
  /\ \/ Reading /\ OneO(wire) /\ NoOK(chunk)
     \/ Reading /\ NoO(wire) /\ OneOK(chunk)
     \/ uart_pc = "process" /\ NoO(wire) /\ NoOK(Tail(chunk))
     \/ uart_pc = "abort"
Handled == uart_pc = "open" /\ NoO(wire) /\ NoOK(chunk) /\ Len(handled) = Len(sent)

RType ==
  /\ wire \in Seq(Words) /\ chunk \in Seq(Seq(Words)) /\ (uart_pc = "process" => chunk # <<>>)
  /\ IsSeq(sent) /\ IsSeq(handled)
  /\ Len(sent) \in Nat /\ Len(handled) \in Nat
  /\ status \in {"IQS_OPEN", "IQS_WAITING"}
  /\ writers \in [Writers -> {"idle", "write", "set_waiting"}] /\ raced \in BOOLEAN
  /\ Writers = {} => ~raced

\* Where the OK of the reply is, by what the channel says, when only one task sends.
RInv ==
  /\ RType
  /\ \/ status = "IQS_OPEN" /\ Nothing
     \/ status = "IQS_WAITING" /\ (Pending \/ Handled)

\* The same with a writer between its test, its bytes and its store, as long as
\* there is one at a time. A reply may come before the store.
Alone == \A v, w \in Writers : writers[v] # "idle" /\ writers[w] # "idle" => v = w
Before == \E w \in Writers : writers[w] = "set_waiting"
Outside == \A w \in Writers : writers[w] = "idle"
WInv ==
  /\ RType
  /\ ~raced =>
       /\ Alone
       /\ \/ status = "IQS_OPEN" /\ Nothing
          \/ status = "IQS_OPEN" /\ (Pending \/ Handled) /\ Before
          \/ status = "IQS_WAITING" /\ (Pending \/ Handled) /\ Outside
          \/ status = "IQS_WAITING" /\ Nothing /\ Outside /\ Writers # {}

\* At the start nothing is sent.
LEMMA RInit == Init => WInv
<1> SUFFICES ASSUME Init PROVE WInv
  OBVIOUS
<1>1. <<>> \in Seq({}) /\ <<>> \in Seq(Words) /\ <<>> \in Seq(Seq(Words))
      /\ DOMAIN <<>> = {} /\ Len(<<>>) = 0
  OBVIOUS
<1>2. RType
  BY <1>1 DEF Init, RType, IsSeq
<1>3. Nothing
  BY <1>1 DEF Init, Nothing, Reading, NoO, NoOK
<1> QED BY <1>2, <1>3 DEF Init, WInv, Alone

\* A command that is written while there is no OK anywhere brings at most one.
LEMMA TransmitKeeps ==
  ASSUME RType, NEW c \in Commands, NEW p \in Payloads(c), Transmit(c, p),
         UNCHANGED <<chunk, uart_pc, handled>>
  PROVE  /\ wire' \in Seq(Words) /\ IsSeq(sent') /\ Len(sent') = Len(sent) + 1
         /\ Nothing => Pending'
<1> DEFINE w1 == wire \o Line(<<c>>)
           w2 == w1 \o DataLines(c, p)
<1>1. /\ sent' = Append(sent, Reply(c, p))
      /\ wire' = w2 \o Line(OK) \/ wire' = w1 \o Line(ERROR)
  BY DEF Transmit
<1>3. w1 \in Seq(Words) /\ (NoO(wire) => NoO(w1))
  BY LinesOfReply, Joined DEF RType
<1> HIDE DEF w1
<1>4. w2 \in Seq(Words) /\ (NoO(wire) => NoO(w2))
  BY <1>3, LinesOfReply, Joined
<1> HIDE DEF w2
<1>5. w2 \o Line(OK) \in Seq(Words) /\ (NoO(wire) => OneO(w2 \o Line(OK)))
  BY <1>4, LinesOfReply, Joined
<1>6. w1 \o Line(ERROR) \in Seq(Words) /\ (NoO(wire) => NoO(w1 \o Line(ERROR)))
  BY <1>3, LinesOfReply, Joined
<1>7. wire' \in Seq(Words) /\ (NoO(wire) => OneO(wire'))
  BY <1>1, <1>5, <1>6 DEF NoO, OneO
<1>8. IsSeq(sent') /\ Len(sent') = Len(sent) + 1
  BY <1>1, AppendIsSeq DEF RType
<1>9. Nothing => Pending'
  BY <1>7, <1>8 DEF Pending, Nothing, Reading
<1> QED BY <1>7, <1>8, <1>9

\* What the steps of the senders do to the channel.
LEMMA SendKeeps ==
  ASSUME WInv, NEW c \in Commands, NEW p \in Payloads(c), SendCommand(c, p)
  PROVE  WInv'
<1>1. /\ Writers = {} /\ Transmit(c, p) /\ status = "IQS_OPEN" /\ status' = "IQS_WAITING"
      /\ UNCHANGED <<chunk, uart_pc, handled, writers, raced>>
  BY DEF SendCommand, scan, callers
<1>2. RType /\ ~raced /\ Nothing
  BY <1>1 DEF WInv, RType, Before
<1>3. RType' /\ Pending'
  BY <1>1, <1>2, TransmitKeeps DEF RType
<1> QED BY <1>1, <1>3 DEF WInv, Alone, Outside

LEMMA WritersKeep ==
  ASSUME WInv, NEW w \in Writers,
         \/ CheckStatus(w) \/ UpdateIqsWaiting(w)
         \/ \E c \in Commands : \E p \in Payloads(c) : WriteBytes(w, c, p)
  PROVE  WInv'
<1> USE DEF Goto
<1>1. RType
  BY DEF WInv
<1>2. CASE CheckStatus(w)
  <2>1. /\ UNCHANGED <<wire, chunk, uart_pc, sent, handled, status>> /\ status = "IQS_OPEN"
        /\ writers' = [writers EXCEPT ![w] = "write"] /\ writers[w] = "idle"
        /\ raced' = (raced \/ \E v \in Writers : writers[v] # "idle")
    BY <1>2 DEF CheckStatus, scan
  <2>2. RType'
    BY <1>1, <2>1 DEF RType
  <2>3. ASSUME ~raced' PROVE Nothing' /\ Alone'
    <3>1. ~raced /\ \A v \in Writers : writers[v] = "idle"
      BY <2>1, <2>3
    <3>2. Nothing
      BY <2>1, <3>1 DEF WInv, Before
    <3> QED BY <1>1, <2>1, <3>1, <3>2 DEF Alone, Nothing, Reading, RType
  <2> QED BY <2>1, <2>2, <2>3 DEF WInv
<1>3. CASE UpdateIqsWaiting(w)
  <2>1. /\ UNCHANGED <<wire, chunk, uart_pc, sent, handled, raced>> /\ status' = "IQS_WAITING"
        /\ writers' = [writers EXCEPT ![w] = "idle"] /\ writers[w] = "set_waiting"
    BY <1>3 DEF UpdateIqsWaiting, scan
  <2>2. RType'
    BY <1>1, <2>1 DEF RType
  <2>3. ASSUME ~raced PROVE Outside'
    BY <1>1, <2>1, <2>3 DEF WInv, Alone, Outside, RType
  <2>4. Nothing' = Nothing /\ Pending' = Pending /\ Handled' = Handled
    BY <2>1 DEF Nothing, Pending, Handled, Reading
  <2> QED BY <2>1, <2>2, <2>3, <2>4 DEF WInv, Alone, Outside
<1>4. ASSUME NEW c \in Commands, NEW p \in Payloads(c), WriteBytes(w, c, p) PROVE WInv'
  <2>1. /\ Transmit(c, p) /\ UNCHANGED <<chunk, uart_pc, handled, raced, status>>
        /\ writers' = [writers EXCEPT ![w] = "set_waiting"] /\ writers[w] = "write"
    BY <1>4 DEF WriteBytes, scan
  <2>2. RType' /\ (Nothing => Pending')
    BY <1>1, <2>1, TransmitKeeps DEF RType
  <2>3. ASSUME ~raced PROVE status = "IQS_OPEN" /\ Nothing /\ Alone' /\ Before'
    <3>1. ~Outside /\ ~Before
      BY <2>1, <2>3 DEF WInv, Alone, Outside, Before
    <3> QED BY <1>1, <2>1, <2>3, <3>1 DEF WInv, Alone, Before, RType
  <2> QED BY <2>1, <2>2, <2>3 DEF WInv
<1> QED BY <1>2, <1>3, <1>4

\* A SBDRING between two lines brings no OK.
LEMMA RingKeeps ==
  ASSUME RType, ModemRing
  PROVE  /\ RType'
         /\ Nothing => Nothing'
         /\ Pending => Pending'
         /\ Handled => Handled'
<1>1. wire \in Seq(Words) /\ DOMAIN wire = 1 .. Len(wire) /\ Len(wire) \in Nat
  BY DEF RType
<1>2. PICK i \in LineStarts :
        wire' = SubSeq(wire, 1, i) \o Line(SBDRING) \o SubSeq(wire, i + 1, Len(wire))
  BY DEF ModemRing
<1>3. i \in 0 .. Len(wire)
  BY <1>1 DEF LineStarts
<1> DEFINE a == SubSeq(wire, 1, i)
           b == SubSeq(wire, i + 1, Len(wire))
<1>4. /\ a \in Seq(Words) /\ b \in Seq(Words)
      /\ NoO(wire) => NoO(a) /\ NoO(b)
      /\ OneO(wire) => (OneO(a) /\ NoO(b)) \/ (NoO(a) /\ OneO(b))
  BY <1>1, <1>3, Cut
<1>5. wire' = a \o Line(SBDRING) \o b
  BY <1>2
<1> HIDE DEF a, b
<1>6. Line(SBDRING) \in Seq(Words) /\ NoO(Line(SBDRING))
  <2>1. SBDRING \in Seq(Words) /\ NoO(SBDRING)
    BY DEF SBDRING, Words, NoO
  <2> QED BY <2>1, LineKeeps
<1>7. /\ a \o Line(SBDRING) \in Seq(Words)
      /\ NoO(a) => NoO(a \o Line(SBDRING))
      /\ OneO(a) => OneO(a \o Line(SBDRING))
  BY <1>4, <1>6, Joined
<1>8. /\ wire' \in Seq(Words)
      /\ NoO(wire) => NoO(wire')
      /\ OneO(wire) => OneO(wire')
  BY <1>4, <1>5, <1>7, Joined
<1>9. UNCHANGED <<chunk, uart_pc, sent, handled, status, writers, raced>>
  BY DEF ModemRing, scan, callers
<1> QED BY <1>8, <1>9 DEF RType, Nothing, Pending, Handled, Reading

\* What is read or flushed was on the wire.
LEMMA ReadKeeps ==
  ASSUME RType, UartData \/ UartOverflow
  PROVE  /\ RType' /\ ~Handled
         /\ Nothing => Nothing'
         /\ Pending => Pending'
<1>1. wire \in Seq(Words) /\ DOMAIN wire = 1 .. Len(wire) /\ uart_pc = "receive"
  BY DEF RType, UartData, UartOverflow
<1>2. /\ UNCHANGED <<sent, handled, status, writers, raced>>
      /\ uart_pc' \in {"receive", "scan"}
  BY <1>1 DEF UartData, UartOverflow, scan, callers
<1>3. PICK n \in 1 .. Len(wire) :
        /\ wire' = SubSeq(wire, n + 1, Len(wire))
        /\ chunk' \in {chunk, Fields(SubSeq(wire, 1, n), EOL)}
  BY <1>1 DEF UartData, UartOverflow, scan
<1>4. n \in 0 .. Len(wire)
  BY <1>1
<1> DEFINE a == SubSeq(wire, 1, n)
<1>5. /\ a \in Seq(Words) /\ wire' \in Seq(Words)
      /\ NoO(wire) => NoO(a) /\ NoO(wire')
      /\ OneO(wire) => (OneO(a) /\ NoO(wire')) \/ (NoO(a) /\ OneO(wire'))
  BY <1>1, <1>3, <1>4, Cut
<1>6. chunk' \in {chunk, Fields(a, EOL)}
  BY <1>3
<1> HIDE DEF a
<1>7. /\ Fields(a, EOL) \in Seq(Seq(Words))
      /\ NoO(a) => NoOK(Fields(a, EOL))
      /\ OneO(a) => OneOK(Fields(a, EOL))
  BY <1>5, FieldsKeepOK
<1>8. RType'
  BY <1>1, <1>2, <1>5, <1>6, <1>7 DEF RType
<1>9. Nothing => Nothing'
  BY <1>1, <1>2, <1>5, <1>6, <1>7 DEF Nothing, Reading
<1>10. ASSUME Pending PROVE Pending'
  <2>1. /\ Len(handled) + 1 = Len(sent)
        /\ (OneO(wire) /\ NoOK(chunk)) \/ (NoO(wire) /\ OneOK(chunk))
    BY <1>1, <1>10 DEF Pending
  <2>2. NoOK(chunk) => OneOK(chunk)
    BY DEF NoOK, OneOK
  <2>3. NoO(wire) => OneO(wire)
    BY DEF NoO, OneO
  <2>4. /\ (OneO(wire') /\ NoOK(chunk')) \/ (NoO(wire') /\ OneOK(chunk'))
    <3>1. CASE chunk' = chunk
      <4>1. NoO(wire') => OneO(wire')
        BY DEF NoO, OneO
      <4> QED BY <1>5, <2>1, <2>2, <3>1, <4>1
    <3>2. CASE chunk' = Fields(a, EOL)
      BY <1>5, <1>7, <2>1, <2>3, <3>2
    <3> QED BY <1>6, <3>1, <3>2
  <2> QED BY <1>2, <2>1, <2>4 DEF Pending, Reading
<1> QED BY <1>1, <1>8, <1>9, <1>10 DEF Handled

\* The line in hand is the one OK, or none.
LEMMA ScanKeeps ==
  ASSUME RType, EndOfChunk \/ PushLine \/ StartRingTask \/ SpinOnError \/ PopAll
  PROVE  /\ RType' /\ ~Handled
         /\ Nothing => Nothing'
         /\ Pending => Pending'
<1>1. /\ uart_pc = "scan" /\ UNCHANGED <<wire, sent, handled, status, writers, raced>>
      /\ chunk \in Seq(Seq(Words)) /\ ~Handled
  BY DEF RType, EndOfChunk, PushLine, StartRingTask, SpinOnError, PopAll, Scanning, callers,
         Handled
<1>2. CASE EndOfChunk \/ SpinOnError
  BY <1>1, <1>2 DEF RType, Nothing, Pending, Reading, EndOfChunk, SpinOnError
<1>3. CASE PushLine
  <2>1. chunk # <<>> /\ chunk' = Tail(chunk) /\ UNCHANGED uart_pc
    BY <1>3 DEF PushLine, Scanning
  <2>2. /\ chunk' \in Seq(Seq(Words))
        /\ NoOK(chunk) => NoOK(chunk')
        /\ OneOK(chunk) => OneOK(chunk')
    BY <1>1, <2>1, TailOfLines
  <2> QED BY <1>1, <2>1, <2>2 DEF RType, Nothing, Pending, Reading
<1>4. CASE StartRingTask
  <2>1. chunk' = <<>> /\ uart_pc' = "receive"
    BY <1>4 DEF StartRingTask
  <2>2. chunk' \in Seq(Seq(Words)) /\ NoOK(chunk') /\ OneOK(chunk')
    <3>1. <<>> \in Seq(Seq(Words)) /\ DOMAIN <<>> = {}
      OBVIOUS
    <3> QED BY <2>1, <3>1 DEF NoOK, OneOK
  <2> QED BY <1>1, <2>1, <2>2 DEF RType, Nothing, Pending, Reading
<1>5. CASE PopAll
  <2>1. chunk # <<>> /\ Head(chunk) = OK /\ UNCHANGED chunk /\ uart_pc' = "process"
    BY <1>5 DEF PopAll, Scanning
  <2>2. ~NoOK(chunk) /\ (OneOK(chunk) => NoOK(Tail(chunk)))
    BY <1>1, <2>1, TailOfLines
  <2> QED BY <1>1, <2>1, <2>2 DEF RType, Nothing, Pending, Reading
<1> QED BY <1>2, <1>3, <1>4, <1>5

\* A reply that is processed leaves no OK behind.
LEMMA ProcessKeeps ==
  ASSUME RType, ProcessPlain \/ ProcessSplit \/ ProcessMessage
  PROVE  /\ RType' /\ ~Nothing /\ ~Handled
         /\ Pending => Handled'
<1>1. /\ uart_pc = "process" /\ uart_pc' = "open" /\ chunk' \in {Tail(chunk), <<>>}
      /\ \E e : handled' = Append(handled, e)
      /\ UNCHANGED <<wire, sent, status, writers, raced>>
  BY DEF ProcessPlain, ProcessSplit, ProcessMessage, Done, callers
<1>2. chunk # <<>> /\ ~Nothing /\ ~Handled
  BY <1>1 DEF RType, Nothing, Handled, Reading
<1>3. <<>> \in Seq(Seq(Words)) /\ NoOK(<<>>)
  <2>1. <<>> \in Seq(Seq(Words)) /\ DOMAIN <<>> = {}
    OBVIOUS
  <2> QED BY <2>1 DEF NoOK
<1>4. Tail(chunk) \in Seq(Seq(Words))
  BY <1>2, TailOfLines DEF RType
<1>5. IsSeq(handled') /\ Len(handled') = Len(handled) + 1
  BY <1>1, AppendIsSeq DEF RType
<1>8. chunk' \in Seq(Seq(Words)) /\ Len(handled') \in Nat
  <2>1. chunk' \in Seq(Seq(Words))
    BY ONLY <1>1, <1>3, <1>4, Zenon
  <2>2. Len(handled) \in Nat
    BY DEF RType
  <2>3. Len(handled') \in Nat
    BY ONLY <1>5, <2>2
  <2> QED BY <2>1, <2>3
<1>6. RType'
  BY <1>1, <1>5, <1>8 DEF RType
<1>7. Pending => Handled'
  BY <1>1, <1>3, <1>5 DEF Pending, Reading, Handled
<1> QED BY <1>2, <1>6, <1>7

\* The steps of uart_satcom_task and of the modem leave the writers where they are.
LEMMA ReceiverKeeps ==
  ASSUME WInv, ModemRing \/ uart_satcom_task
  PROVE  WInv'
<1>1. RType /\ UNCHANGED <<writers, raced>>
  BY DEF WInv, ModemRing, uart_satcom_task, UartData, UartOverflow, EndOfChunk, PushLine,
         StartRingTask, SpinOnError, PopAll, ProcessPlain, ProcessSplit, ProcessMessage,
         ProcessAbort, UpdateIqsOpen, callers
<1>2. Alone' = Alone /\ Before' = Before /\ Outside' = Outside
  BY <1>1 DEF Alone, Before, Outside
<1>3. CASE /\ UNCHANGED status /\ RType' /\ (Nothing => Nothing')
           /\ (Pending => Pending' \/ Handled') /\ (Handled => Handled')
  BY <1>1, <1>2, <1>3 DEF WInv
<1>4. CASE UpdateIqsOpen
  <2>1. /\ uart_pc = "open" /\ uart_pc' = "scan" /\ status' = "IQS_OPEN"
        /\ UNCHANGED <<wire, chunk, sent, handled>>
    BY <1>4 DEF UpdateIqsOpen
  <2>2. RType' /\ ~Nothing /\ ~Pending /\ (Handled => Nothing')
    BY <1>1, <2>1 DEF RType, Nothing, Pending, Handled, Reading
  <2> QED BY <1>1, <1>2, <2>1, <2>2 DEF WInv
<1>5. CASE ProcessAbort
  <2>1. /\ uart_pc = "process" /\ uart_pc' = "abort"
        /\ UNCHANGED <<wire, chunk, sent, handled, status>>
    BY <1>5 DEF ProcessAbort
  <2>2. RType' /\ ~Nothing /\ ~Handled /\ (Pending => Pending')
    BY <1>1, <2>1 DEF RType, Nothing, Pending, Handled, Reading
  <2> QED BY <1>3, <2>1, <2>2
<1>6. ModemRing \/ UartData \/ UartOverflow \/ EndOfChunk \/ PushLine \/ StartRingTask
      \/ SpinOnError \/ PopAll \/ ProcessPlain \/ ProcessSplit \/ ProcessMessage => UNCHANGED status
  BY DEF ModemRing, UartData, UartOverflow, EndOfChunk, PushLine, StartRingTask, SpinOnError,
         PopAll, ProcessPlain, ProcessSplit, ProcessMessage
<1> QED BY <1>1, <1>3, <1>4, <1>5, <1>6, RingKeeps, ReadKeeps, ScanKeeps, ProcessKeeps
        DEF uart_satcom_task

\* The invariant holds in every reachable state.
LEMMA WInvariant == Spec => []WInv
<1>1. ASSUME WInv, [Next]_vars PROVE WInv'
  <2>1. CASE \E c \in Commands : \E p \in Payloads(c) : SendCommand(c, p)
    BY <1>1, <2>1, SendKeeps
  <2>2. CASE \E w \in Writers :
               \/ CheckStatus(w) \/ UpdateIqsWaiting(w)
               \/ \E c \in Commands : \E p \in Payloads(c) : WriteBytes(w, c, p)
    BY <1>1, <2>2, WritersKeep
  <2>3. CASE ModemRing \/ uart_satcom_task
    BY <1>1, <2>3, ReceiverKeeps
  <2>4. CASE message_satcom_task \/ RingTaskEnds \/ UNCHANGED vars
    <3>1. UNCHANGED <<wire, chunk, uart_pc, sent, handled, status, writers, raced>>
      BY <2>4 DEF message_satcom_task, RingTaskEnds, vars, scan, callers
    <3> QED BY <1>1, <3>1 DEF WInv, RType, Nothing, Pending, Handled, Reading, Alone, Before, Outside
  <2> QED BY <1>1, <2>1, <2>2, <2>3, <2>4 DEF Next
<1> QED BY <1>1, RInit, PTL DEF Spec

\* The steps there are when only one task sends.
OneSends ==
  \/ \E c \in Commands : \E p \in Payloads(c) : SendCommand(c, p)
  \/ ModemRing \/ uart_satcom_task \/ message_satcom_task \/ RingTaskEnds
  \/ UNCHANGED vars
LEMMA OneWriter ==
  ASSUME Writers = {}, [Next]_vars
  PROVE  OneSends
BY DEF Next, OneSends

LEMMA RInvariant ==
  ASSUME Writers = {}
  PROVE  Spec => []RInv
<1>1. WInv => RInv
  BY DEF WInv, RInv, RType, Before
<1> QED BY <1>1, WInvariant, PTL

\* Between a writer's store (224) and iridium_update_iqs (544) the channel is
\* closed: it opens only after the reply to the last command is processed,
\* whatever is cut, flushed, rung or refused in between, and also when that
\* happens before the store. The one thing that opens it with a reply
\* outstanding is two writers at once in iridium_send_raw.
THEOREM OpenAfterReply == Spec => []OpenMeansAnswered
<1>1. WInv => OpenMeansAnswered
  BY DEF WInv, OpenMeansAnswered, Nothing, Before
<1> QED BY <1>1, WInvariant, PTL

RingInv == ring_task_running \in {0, 1} /\ ring_tasks \in Nat /\ OneRingTask

\* The flag is set before a ring task starts and cleared by its end.
LEMMA RingInvariant == Spec => []RingInv
<1>1. Init => RingInv
  BY DEF Init, RingInv, OneRingTask
<1>2. ASSUME RingInv, [Next]_vars PROVE RingInv'
  <2>1. CASE StartRingTask
    BY <1>2, <2>1 DEF RingInv, OneRingTask, StartRingTask, ring
  <2>2. CASE RingTaskEnds
    BY <1>2, <2>2 DEF RingInv, OneRingTask, RingTaskEnds
  <2>3. CASE UNCHANGED ring
    BY <1>2, <2>3 DEF RingInv, OneRingTask, ring
  <2>4. StartRingTask \/ RingTaskEnds \/ UNCHANGED ring
    BY <1>2 DEF Next, uart_satcom_task, SendCommand, CheckStatus, WriteBytes,
                UpdateIqsWaiting, ModemRing, UartData, UartOverflow, EndOfChunk, PushLine, SpinOnError, PopAll, ProcessPlain, ProcessSplit,
                ProcessMessage, ProcessAbort, UpdateIqsOpen, message_satcom_task, vars, ring
  <2> QED BY <2>1, <2>2, <2>3, <2>4
<1> QED BY <1>1, <1>2, PTL DEF Spec

\* uart_satcom_task starts no ring task while one works, also when a task is
\* not created or the flag is cleared after the task's last session.
THEOREM RingTaskAlone == Spec => []OneRingTask
<1>1. RingInv => OneRingTask
  BY DEF RingInv
<1> QED BY <1>1, RingInvariant, PTL

-----------------------------------------------------------------------------
(***************************************************************************)
(* No reply is lost.  That needs what the code relies on: events that end  *)
(* where lines end, SBDRING in an event of its own, no flush and no ERROR. *)
(* Then the line OK of a reply is whole, on the wire or in the event.      *)
(***************************************************************************)
Orderly == Writers = {} /\ WholeLines /\ RingApart /\ Faults \cap {"ERROR", "FIFO_OVF"} = {}

\* The line OK, behind another line or nothing.
OKAt(s, i) == /\ s[i] = "O" /\ s[i + 1] = "K" /\ s[i + 2] = EOL
              /\ i > 1 => s[i - 1] = EOL
HasReply(s) == \E i \in 1 .. Len(s) - 2 : OKAt(s, i)
EndsLine(s) == s # <<>> => s[Len(s)] = EOL
HasOK(lines) == \E i \in DOMAIN lines : lines[i] = OK
NoRing(lines) == \A i \in DOMAIN lines : lines[i] # SBDRING

\* What is put before or behind a text leaves its line OK alone.
LEMMA ReplyJoined ==
  ASSUME NEW a \in Seq(Words), NEW b \in Seq(Words), EndsLine(a)
  PROVE  /\ HasReply(a) => HasReply(a \o b)
         /\ HasReply(b) => HasReply(a \o b)
         /\ EndsLine(b) => EndsLine(a \o b)
<1>1. /\ Len(a \o b) = Len(a) + Len(b) /\ Len(a) \in Nat /\ Len(b) \in Nat
      /\ \A i \in 1 .. Len(a) : (a \o b)[i] = a[i]
      /\ \A i \in 1 .. Len(b) : (a \o b)[Len(a) + i] = b[i]
      /\ Len(a) > 0 => a # <<>>
      /\ Len(b) > 0 => b # <<>>
      /\ a \o b # <<>> => Len(a) + Len(b) > 0
  OBVIOUS
<1>2. ASSUME HasReply(a) PROVE HasReply(a \o b)
  <2>1. PICK i \in 1 .. Len(a) - 2 : OKAt(a, i)
    BY <1>2 DEF HasReply
  <2>2. /\ {i, i + 1, i + 2} \subseteq 1 .. Len(a) /\ i \in 1 .. Len(a \o b) - 2
        /\ i > 1 => i - 1 \in 1 .. Len(a)
    BY <1>1
  <2>3. OKAt(a \o b, i)
    BY <1>1, <2>1, <2>2 DEF OKAt
  <2> QED BY <2>2, <2>3 DEF HasReply
<1>3. ASSUME HasReply(b) PROVE HasReply(a \o b)
  <2>1. PICK i \in 1 .. Len(b) - 2 : OKAt(b, i)
    BY <1>3 DEF HasReply
  <2> DEFINE j == Len(a) + i
             c == a \o b
  <2>2. j \in 1 .. Len(c) - 2
    BY <1>1
  <2>3. c[j] = b[i] /\ c[j + 1] = b[i + 1] /\ c[j + 2] = b[i + 2]
    <3>1. /\ i + 1 \in 1 .. Len(b) /\ i + 2 \in 1 .. Len(b)
          /\ j + 1 = Len(a) + (i + 1) /\ j + 2 = Len(a) + (i + 2)
      BY <1>1
    <3> QED BY <1>1, <3>1
  <2>4. j > 1 => c[j - 1] = EOL
    <3>1. CASE i > 1
      <4>1. i - 1 \in 1 .. Len(b) /\ j - 1 = Len(a) + (i - 1)
        BY <1>1, <3>1
      <4> QED BY <1>1, <2>1, <3>1, <4>1 DEF OKAt
    <3>2. CASE i = 1 /\ Len(a) > 0
      <4>1. j - 1 = Len(a) /\ Len(a) \in 1 .. Len(a)
        BY <1>1, <3>2
      <4> QED BY <1>1, <3>2, <4>1 DEF EndsLine
    <3> QED BY <1>1, <3>1, <3>2
  <2> HIDE DEF c, j
  <2>5. OKAt(c, j)
    BY <2>1, <2>3, <2>4 DEF OKAt
  <2>6. HasReply(c)
    BY <2>2, <2>5 DEF HasReply
  <2> QED BY <2>6 DEF c
<1>4. ASSUME EndsLine(b) PROVE EndsLine(a \o b)
  <2>1. CASE Len(b) > 0
    <3>1. Len(b) \in 1 .. Len(b) /\ b[Len(b)] = EOL
      BY <1>1, <1>4, <2>1 DEF EndsLine
    <3> QED BY <1>1, <3>1 DEF EndsLine
  <2>2. CASE Len(b) = 0 /\ Len(a) > 0
    <3>1. Len(a) \in 1 .. Len(a) /\ a[Len(a)] = EOL /\ Len(a \o b) = Len(a)
      BY <1>1, <2>2 DEF EndsLine
    <3> QED BY <1>1, <3>1 DEF EndsLine
  <2>3. CASE Len(b) = 0 /\ Len(a) = 0
    BY <1>1, <2>3 DEF EndsLine
  <2> QED BY <1>1, <2>1, <2>2, <2>3
<1> QED BY <1>2, <1>3, <1>4

\* A cut between lines leaves the line OK whole.
LEMMA ReplyCut ==
  ASSUME NEW s \in Seq(Words), NEW n \in 0 .. Len(s), n > 0 => s[n] = EOL
  PROVE  LET a == SubSeq(s, 1, n)
             b == SubSeq(s, n + 1, Len(s))
         IN  /\ EndsLine(a)
             /\ EndsLine(s) => EndsLine(b)
             /\ HasReply(s) => HasReply(a) \/ HasReply(b)
<1> DEFINE a == SubSeq(s, 1, n)
           b == SubSeq(s, n + 1, Len(s))
<1>1. /\ Len(a) = n /\ \A i \in 1 .. n : a[i] = s[i]
      /\ Len(b) = Len(s) - n /\ \A i \in 1 .. Len(s) - n : b[i] = s[i + n]
      /\ Len(s) \in Nat /\ (a # <<>> => n > 0)
  OBVIOUS
<1> HIDE DEF a, b
<1>2. EndsLine(a)
  BY <1>1 DEF EndsLine
<1>3. ASSUME EndsLine(s) PROVE EndsLine(b)
  <2>1. b # <<>> => s # <<>> /\ Len(s) - n \in 1 .. Len(s) - n
    BY DEF b
  <2> QED BY <1>1, <1>3, <2>1 DEF EndsLine
<1>4. ASSUME HasReply(s) PROVE HasReply(a) \/ HasReply(b)
  <2>1. PICK i \in 1 .. Len(s) - 2 : OKAt(s, i)
    BY <1>4 DEF HasReply
  <2>2. n # i /\ n # i + 1
    BY <2>1 DEF OKAt, EOL
  <2>3. CASE i + 2 <= n
    <3>1. /\ {i, i + 1, i + 2} \subseteq 1 .. n /\ i \in 1 .. Len(a) - 2
          /\ i > 1 => i - 1 \in 1 .. n
      BY <1>1, <2>3
    <3>2. OKAt(a, i)
      BY <1>1, <2>1, <3>1 DEF OKAt
    <3> QED BY <3>1, <3>2 DEF HasReply
  <2>4. CASE i > n
    <3> DEFINE j == i - n
    <3>1. /\ j \in 1 .. Len(b) - 2 /\ {j, j + 1, j + 2} \subseteq 1 .. Len(s) - n
          /\ j + n = i /\ (j + 1) + n = i + 1 /\ (j + 2) + n = i + 2
          /\ j > 1 => j - 1 \in 1 .. Len(s) - n /\ (j - 1) + n = i - 1 /\ i > 1
      BY <1>1, <2>4
    <3>2. OKAt(b, j)
      BY <1>1, <2>1, <3>1 DEF OKAt
    <3> QED BY <3>1, <3>2 DEF HasReply
  <2> QED BY <1>1, <2>2, <2>3, <2>4
<1> QED BY <1>2, <1>3, <1>4 DEF a, b

\* strtok finds the line OK, and a SBDRING only where there is one.
LEMMA ReplyIsField ==
  ASSUME NEW s \in Seq(Words)
  PROVE  /\ HasReply(s) => HasOK(Fields(s, EOL))
         /\ (\A i \in DOMAIN s : s[i] # "SBDRING") => NoRing(Fields(s, EOL))
<1>1. ASSUME HasReply(s) PROVE HasOK(Fields(s, EOL))
  <2>1. PICK i \in 1 .. Len(s) - 2 : OKAt(s, i)
    BY <1>1 DEF HasReply
  <2> DEFINE ends == {j \in i .. Len(s) : \A k \in i .. j : s[k] # EOL}
  <2>2. i \in Starts(s, EOL)
    BY <2>1 DEF OKAt, Starts, EOL
  <2>3. ends = i .. i + 1
    BY <2>1 DEF OKAt, EOL
  <2>4. Cardinality(i .. i + 1) = 2
    <3>1. i \in Int /\ i + 1 \in Int
      OBVIOUS
    <3>2. Cardinality(i .. i + 1) = IF i > i + 1 THEN 0 ELSE (i + 1) - i + 1
      BY <3>1, FS_Interval
    <3> QED BY <3>2
  <2>5. FieldAt(s, EOL, i) = SubSeq(s, i, i + 2 - 1)
    BY <2>3, <2>4 DEF FieldAt
  <2>6. SubSeq(s, i, i + 2 - 1) = OK
    <3>1. i + 2 - 1 = i + 1 /\ i \in 1 .. Len(s) /\ i + 1 \in 1 .. Len(s)
      OBVIOUS
    <3> DEFINE t == SubSeq(s, i, i + 1)
    <3>2. t \in Seq(Words) /\ Len(t) = 2 /\ t[1] = s[i] /\ t[2] = s[i + 1]
      BY <3>1
    <3> HIDE DEF t
    <3>3. OK \in Seq(Words)
      <4>1. "O" \in Words /\ "K" \in Words
        BY DEF Words
      <4> QED BY <4>1 DEF OK
    <3>4. Len(OK) = 2 /\ OK[1] = "O" /\ OK[2] = "K"
      BY DEF OK
    <3>5. \A k \in 1 .. Len(t) : t[k] = OK[k]
      BY <2>1, <3>2, <3>4 DEF OKAt
    <3>6. t = OK
      BY <3>2, <3>4, <3>5, <3>3, SeqEqual
    <3> QED BY <3>1, <3>6 DEF t
  <2>7. Fields(s, EOL)[Rank(Starts(s, EOL), i)] = OK
    BY <2>2, <2>5, <2>6, FieldOfRank
  <2>8. Rank(Starts(s, EOL), i) \in 1 .. Cardinality(Starts(s, EOL))
    BY <2>2, FieldOfRank
  <2>9. DOMAIN Fields(s, EOL) = 1 .. Cardinality(Starts(s, EOL))
    BY DEF Fields
  <2> QED BY <2>7, <2>8, <2>9 DEF HasOK
<1>2. ASSUME \A i \in DOMAIN s : s[i] # "SBDRING", NEW n \in DOMAIN Fields(s, EOL)
      PROVE  Fields(s, EOL)[n] # SBDRING
  <2>1. n \in 1 .. Cardinality(Starts(s, EOL))
    BY DEF Fields
  <2>2. PICK i \in Starts(s, EOL) : Fields(s, EOL)[n] = FieldAt(s, EOL, i)
    BY <2>1, FieldHasStart
  <2>3. FieldAt(s, EOL, i)[1] = s[i] /\ i \in DOMAIN s
    BY FieldAtIs DEF Starts
  <2>4. SBDRING[1] = "SBDRING"
    BY DEF SBDRING
  <2> QED BY <1>2, <2>2, <2>3, <2>4
<1> QED BY <1>1, <1>2 DEF NoRing

KInv ==
  /\ EndsLine(wire)
  /\ uart_pc = "receive" => chunk = <<>>
  /\ status = "IQS_WAITING" /\ uart_pc \in {"receive", "scan"} =>
       HasReply(wire) \/ (HasOK(chunk) /\ NoRing(chunk))

\* A reply comes with a line OK.
LEMMA SendBringsOK ==
  ASSUME Orderly, RInv, KInv, NEW c \in Commands, NEW p \in Payloads(c), SendCommand(c, p)
  PROVE  KInv'
<1> DEFINE w1 == wire \o Line(<<c>>)
           w2 == w1 \o DataLines(c, p)
<1>1. wire' = w2 \o Line(OK) /\ UNCHANGED <<chunk, uart_pc>> /\ wire \in Seq(Words)
  BY DEF SendCommand, Transmit, Orderly, scan, RInv, RType
<1>2. ASSUME NEW s \in Seq(Words)
      PROVE  Line(s) \in Seq(Words) /\ EndsLine(Line(s))
  <2>1. EOL \in Words
    BY DEF Words
  <2>2. CASE s = <<>>
    BY <2>2 DEF Line, EndsLine
  <2>3. CASE s # <<>>
    <3>1. /\ Append(s, EOL) \in Seq(Words)
          /\ Append(s, EOL)[Len(Append(s, EOL))] = EOL
      BY <2>1
    <3> QED BY <2>3, <3>1 DEF Line, EndsLine
  <2> QED BY <2>2, <2>3
<1>3. w1 \in Seq(Words) /\ EndsLine(w1)
  <2>1. c \in Words
    BY ReceiverAssumption DEF Words
  <2>2. <<c>> \in Seq(Words)
    BY <2>1
  <2>3. Line(<<c>>) \in Seq(Words) /\ EndsLine(Line(<<c>>))
    BY <1>2, <2>2
  <2>4. w1 \in Seq(Words)
    BY <1>1, <2>3
  <2> QED BY <1>1, <2>3, <2>4, ReplyJoined DEF KInv
<1>4. DataLines(c, p) \in Seq(Words) /\ EndsLine(DataLines(c, p))
  <2>1. Header(c) \in Seq(Words) /\ Body(c, p) \in Seq(Words)
    BY LinesOfReply
  <2>2. \A s \in Seq(Words) : Line(s) \in Seq(Words) /\ EndsLine(Line(s))
    BY <1>2
  <2>3. Header(c) \o Body(c, p) \in Seq(Words)
    BY <2>1
  <2>4. Line(Header(c)) \o Line(Body(c, p)) \in Seq(Words)
        /\ EndsLine(Line(Header(c)) \o Line(Body(c, p)))
    BY <2>1, <2>2, ReplyJoined
  <2> QED BY <2>2, <2>3, <2>4 DEF DataLines
<1> HIDE DEF w1
<1>5. w2 \in Seq(Words) /\ EndsLine(w2)
  BY <1>3, <1>4, ReplyJoined
<1> HIDE DEF w2
<1>6. Line(OK) \in Seq(Words) /\ EndsLine(Line(OK)) /\ HasReply(Line(OK))
  <2>1. OK \in Seq(Words)
    BY DEF OK, Words
  <2>2. OK # <<>> /\ Len(OK) = 2 /\ OK[1] = "O" /\ OK[2] = "K"
    BY DEF OK
  <2>3. /\ Len(Line(OK)) = Len(OK) + 1 /\ Line(OK)[Len(OK) + 1] = EOL
        /\ \A i \in 1 .. Len(OK) : Line(OK)[i] = OK[i]
    BY <2>1, <2>2, LineIs
  <2>4. /\ Len(Line(OK)) = 3
        /\ Line(OK)[1] = "O" /\ Line(OK)[2] = "K" /\ Line(OK)[3] = EOL
    BY <2>2, <2>3
  <2>5. 1 \in 1 .. Len(Line(OK)) - 2 /\ OKAt(Line(OK), 1)
    BY <2>4 DEF OKAt
  <2> QED BY <1>2, <2>1, <2>5 DEF HasReply
<1>7. HasReply(wire') /\ EndsLine(wire')
  BY <1>1, <1>5, <1>6, ReplyJoined
<1> QED BY <1>1, <1>7 DEF KInv

\* A SBDRING goes between two lines.
LEMMA RingKeepsOK ==
  ASSUME Orderly, RInv, KInv, ModemRing
  PROVE  KInv'
<1>1. PICK i \in LineStarts :
        wire' = SubSeq(wire, 1, i) \o Line(SBDRING) \o SubSeq(wire, i + 1, Len(wire))
  BY DEF ModemRing
<1>2. wire \in Seq(Words) /\ i \in 0 .. Len(wire) /\ (i > 0 => wire[i] = EOL)
  BY DEF LineStarts, RInv, RType
<1> DEFINE a == SubSeq(wire, 1, i)
           b == SubSeq(wire, i + 1, Len(wire))
<1>3. /\ a \in Seq(Words) /\ b \in Seq(Words) /\ EndsLine(a) /\ EndsLine(b)
      /\ HasReply(wire) => HasReply(a) \/ HasReply(b)
  BY <1>2, ReplyCut DEF KInv
<1>4. wire' = a \o Line(SBDRING) \o b
  BY <1>1
<1> HIDE DEF a, b
<1>5. Line(SBDRING) \in Seq(Words) /\ EndsLine(Line(SBDRING))
  <2>1. Line(SBDRING) = Append(SBDRING, EOL) /\ SBDRING \in Seq(Words) /\ EOL \in Words
    BY DEF Line, SBDRING, Words
  <2> QED BY <2>1 DEF EndsLine
<1>6. /\ a \o Line(SBDRING) \in Seq(Words) /\ EndsLine(a \o Line(SBDRING))
      /\ HasReply(a) => HasReply(a \o Line(SBDRING))
  BY <1>3, <1>5, ReplyJoined
<1>7. EndsLine(wire') /\ (HasReply(wire) => HasReply(wire'))
  BY <1>3, <1>4, <1>6, ReplyJoined
<1>8. UNCHANGED <<chunk, uart_pc, status>>
  BY DEF ModemRing, scan
<1> QED BY <1>7, <1>8 DEF KInv

\* The event holds the line OK, or is a SBDRING and leaves it on the wire.
LEMMA ReadKeepsOK ==
  ASSUME Orderly, RInv, KInv, UartData
  PROVE  KInv'
<1>1. PICK n \in DOMAIN wire :
        /\ wire[n] = EOL
        /\ Contains(SubSeq(wire, 1, n), "SBDRING") => SubSeq(wire, 1, n) = Line(SBDRING)
        /\ chunk' = Fields(SubSeq(wire, 1, n), EOL)
        /\ wire' = SubSeq(wire, n + 1, Len(wire))
  BY DEF UartData, Orderly
<1> DEFINE a == SubSeq(wire, 1, n)
<1>2. wire \in Seq(Words) /\ n \in 0 .. Len(wire) /\ a \in Seq(Words)
  BY DEF RInv, RType
<1>3. EndsLine(wire') /\ (HasReply(wire) => HasReply(a) \/ HasReply(wire'))
  BY <1>1, <1>2, ReplyCut DEF KInv
<1>4. /\ Contains(a, "SBDRING") => a = Line(SBDRING)
      /\ chunk' = Fields(a, EOL)
  BY <1>1
<1> HIDE DEF a
<1>5. /\ HasReply(a) => HasOK(chunk')
      /\ ~Contains(a, "SBDRING") => NoRing(chunk')
  <2>1. DOMAIN a = 1 .. Len(a)
    BY <1>2
  <2> QED BY <1>2, <1>4, <2>1, ReplyIsField DEF Contains
<1>6. a = Line(SBDRING) => ~HasReply(a)
  <2>1. SBDRING \in Seq(Words)
    BY DEF SBDRING, Words
  <2>2. SBDRING # <<>> /\ Len(SBDRING) = 1
    BY DEF SBDRING
  <2>3. Len(Line(SBDRING)) = Len(SBDRING) + 1
    BY <2>1, <2>2, LineIs
  <2>4. Len(Line(SBDRING)) = 2
    BY <2>2, <2>3
  <2>5. 1 .. Len(Line(SBDRING)) - 2 = {}
    BY <2>4
  <2> QED BY <2>5 DEF HasReply
<1>7. UNCHANGED status /\ uart_pc = "receive" /\ uart_pc' = "scan" /\ chunk = <<>>
  BY DEF UartData, KInv
<1>8. status = "IQS_WAITING" => HasReply(wire)
  BY <1>7 DEF KInv, HasOK
<1> QED BY <1>3, <1>4, <1>5, <1>6, <1>7, <1>8 DEF KInv

\* No line but OK itself takes the OK away.
LEMMA LineKeepsOK ==
  ASSUME RInv, KInv, EndOfChunk \/ PushLine \/ StartRingTask
  PROVE  KInv'
<1>1. /\ uart_pc = "scan" /\ UNCHANGED <<wire, status>> /\ chunk \in Seq(Seq(Words))
  BY DEF RInv, RType, EndOfChunk, PushLine, StartRingTask, Scanning
<1>2. CASE EndOfChunk
  <2>1. chunk = <<>> /\ UNCHANGED chunk
    BY <1>2 DEF EndOfChunk
  <2> QED BY <1>1, <2>1 DEF KInv, HasOK
<1>3. CASE PushLine
  <2>1. /\ chunk # <<>> /\ Head(chunk) # OK /\ chunk' = Tail(chunk) /\ UNCHANGED uart_pc
    BY <1>3 DEF PushLine, Scanning
  <2>2. /\ Head(chunk) = chunk[1] /\ \A i \in DOMAIN chunk : i # 1 => i - 1 \in DOMAIN Tail(chunk)
        /\ \A i \in DOMAIN chunk : i # 1 => chunk[i] = Tail(chunk)[i - 1]
        /\ \A i \in DOMAIN Tail(chunk) : i + 1 \in DOMAIN chunk /\ Tail(chunk)[i] = chunk[i + 1]
    BY <1>1, <2>1
  <2>3. HasOK(chunk) => HasOK(chunk')
    BY <2>1, <2>2 DEF HasOK
  <2>4. NoRing(chunk) => NoRing(chunk')
    BY <2>1, <2>2 DEF NoRing
  <2> QED BY <1>1, <2>1, <2>3, <2>4 DEF KInv
<1>4. CASE StartRingTask
  <2>1. /\ chunk # <<>> /\ Head(chunk) = SBDRING /\ chunk' = <<>> /\ uart_pc' = "receive"
    BY <1>4 DEF StartRingTask, Scanning
  <2>2. ~NoRing(chunk)
    BY <1>1, <2>1 DEF NoRing
  <2> QED BY <1>1, <2>1, <2>2 DEF KInv
<1> QED BY <1>2, <1>3, <1>4

\* The line OK of a reply is not lost.
LEMMA KInvariant ==
  ASSUME Orderly
  PROVE  Spec => []KInv
<1>1. Init => KInv
  BY DEF Init, KInv, EndsLine
<1>2. ASSUME RInv, KInv, [Next]_vars PROVE KInv'
  <2>1. CASE \E c \in Commands : \E p \in Payloads(c) : SendCommand(c, p)
    BY <1>2, <2>1, SendBringsOK
  <2>2. CASE ModemRing
    BY <1>2, <2>2, RingKeepsOK
  <2>3. CASE UartData
    BY <1>2, <2>3, ReadKeepsOK
  <2>4. CASE EndOfChunk \/ PushLine \/ StartRingTask
    BY <1>2, <2>4, LineKeepsOK
  <2>5. CASE SpinOnError \/ PopAll \/ ProcessAbort
    BY <1>2, <2>5 DEF KInv, SpinOnError, PopAll, ProcessAbort
  <2>6. CASE ProcessPlain \/ ProcessSplit \/ ProcessMessage
    BY <1>2, <2>6 DEF KInv, ProcessPlain, ProcessSplit, ProcessMessage, Done
  <2>7. CASE UpdateIqsOpen
    BY <1>2, <2>7 DEF KInv, UpdateIqsOpen
  <2>8. CASE message_satcom_task \/ RingTaskEnds \/ UNCHANGED vars
    <3>1. UNCHANGED <<wire, chunk, uart_pc, status>>
      BY <2>8 DEF message_satcom_task, RingTaskEnds, vars, scan
    <3> QED BY <1>2, <3>1 DEF KInv
  <2>9. ~UartOverflow /\ OneSends
    BY <1>2, OneWriter DEF Orderly, UartOverflow
  <2> QED BY <2>1, <2>2, <2>3, <2>4, <2>5, <2>6, <2>7, <2>8, <2>9
          DEF OneSends, uart_satcom_task
<1>3. Writers = {}
  BY DEF Orderly
<1> QED BY <1>1, <1>2, <1>3, RInvariant, PTL DEF Spec

\* If events end where lines end and hold a SBDRING or something else, and
\* nothing is flushed or answered with ERROR, uart_satcom_task misses no reply:
\* when it has read everything the channel is open.
THEOREM EveryReplySeen ==
  ASSUME Orderly
  PROVE  Spec => []NoReplyLost
<1>1. RInv /\ KInv => NoReplyLost
  <2> SUFFICES ASSUME RInv, KInv, wire = <<>>, uart_pc = "receive" PROVE status = "IQS_OPEN"
    BY DEF NoReplyLost
  <2>1. ~HasReply(wire) /\ ~HasOK(chunk)
    BY DEF KInv, HasReply, HasOK
  <2> QED BY <2>1 DEF RInv, RType, KInv
<1>2. Writers = {}
  BY DEF Orderly
<1> QED BY <1>1, <1>2, RInvariant, KInvariant, PTL

-----------------------------------------------------------------------------
(***************************************************************************)
(* Each reply is processed whole, under its own command and in order.  The *)
(* lines of the reply outstanding are on the stack or not yet scanned, and *)
(* SBDRINGs between them do no harm.                                       *)
(***************************************************************************)
Filled(s) == IF s = <<>> THEN <<>> ELSE <<s>>
DataFields(c, p) ==
  IF c = "AT+SBDRT" THEN Filled(Header(c)) \o Filled(Body(c, p))
                    ELSE Filled(Header(c) \o Body(c, p))
ReplyFields(c, p) == <<<<c>>>> \o DataFields(c, p) \o <<OK>>

\* A text of some words is a text of more.
LEMMA SeqOfMore ==
  ASSUME NEW A, NEW B, A \in SUBSET B, NEW s \in Seq(A)
  PROVE  s \in Seq(B)
<1>1. Len(s) \in Nat /\ s \in [1 .. Len(s) -> B]
  OBVIOUS
<1> QED BY <1>1

\* Two texts in a row.
LEMMA PairOf ==
  ASSUME NEW x, NEW y
  PROVE  <<x>> \o <<y>> = <<x, y>>
<1>1. <<x>> \in Seq({x, y}) /\ <<y>> \in Seq({x, y}) /\ <<x, y>> \in Seq({x, y})
  OBVIOUS
<1>2. /\ <<x>> \o <<y>> \in Seq({x, y}) /\ Len(<<x>> \o <<y>>) = 2
      /\ (<<x>> \o <<y>>)[1] = x /\ (<<x>> \o <<y>>)[2] = y
  BY <1>1
<1>3. \A i \in 1 .. 2 : i = 1 \/ i = 2
  OBVIOUS
<1> DEFINE z == <<x>> \o <<y>>
<1> HIDE DEF z
<1>4. z \in Seq({x, y}) /\ Len(z) = 2 /\ z[1] = x /\ z[2] = y
  BY <1>2 DEF z
<1>5. z = <<x, y>>
  BY <1>1, <1>3, <1>4, SeqEqual
<1> QED BY <1>5 DEF z

\* A line, as strtok gives it back.
LEMMA LineFields ==
  ASSUME NEW s \in Seq(Words), \A i \in DOMAIN s : s[i] # EOL
  PROVE  /\ Line(s) \in Seq(Words) /\ EndsLine(Line(s))
         /\ Fields(Line(s), EOL) = Filled(s)
<1>1. EOL \in Words
  BY DEF Words
<1>2. CASE s = <<>>
  <2>1. Line(s) = <<>> /\ <<>> \in Seq(Words)
    BY <1>2 DEF Line
  <2>2. Starts(<<>>, EOL) = {}
    BY DEF Starts
  <2>3. Cardinality(Starts(<<>>, EOL)) = 0
    BY <2>2, FS_EmptySet
  <2>4. Fields(<<>>, EOL) \in Seq(Seq(Words)) /\ Len(Fields(<<>>, EOL)) = 0
    BY <2>1, <2>3, FieldsType
  <2>5. Fields(<<>>, EOL) = <<>>
    BY <2>4
  <2> QED BY <1>2, <2>1, <2>5 DEF Filled, EndsLine
<1>3. CASE s # <<>>
  <2>1. Line(s) = Append(s, EOL)
    BY <1>3 DEF Line
  <2>2. Append(s, EOL) \in Seq(Words) /\ Append(s, EOL)[Len(Append(s, EOL))] = EOL
    BY <1>1
  <2>3. Fields(Append(s, EOL), EOL) = <<s>>
    BY <1>3, FieldsOne
  <2> QED BY <1>3, <2>1, <2>2, <2>3 DEF Filled, EndsLine
<1> QED BY <1>2, <1>3

\* What headers and bodies are made of, and begin with.
HeaderWords == {"+", ":", "CSQ", "SBD", "SBDRT", "CRIS"}
LEMMA DataWords ==
  ASSUME NEW c \in Commands, NEW p \in Payloads(c)
  PROVE  /\ p \in Seq(Values \cup {"+"})
         /\ Header(c) \in Seq(HeaderWords) /\ Body(c, p) \in Seq(Values \cup {"+", ","})
         /\ Header(c) # <<>> => Header(c)[1] = "+"
         /\ Header(c) = <<>> => Body(c, p) \in {p, <<>>}
         /\ c = "AT+SBDRT" => Header(c) # <<>> /\ Body(c, p) = p
<1> DEFINE X == Values \cup {"+", ","}
<1>1. p \in Seq(Values \cup {"+"})
  <2>1. CASE c = "AT+SBDRT"
    BY <2>1, ReceiverAssumption DEF Payloads
  <2>2. CASE c # "AT+SBDRT"
    <3>1. PICK v \in Values : p = <<v>>
      BY <2>2 DEF Payloads
    <3> QED BY <3>1
  <2> QED BY <2>1, <2>2
<1>2. \A w \in {"CSQ", "SBD", "SBDRT", "CRIS"} :
        /\ <<"+", w, ":">> \in Seq(HeaderWords) /\ <<"+", w, ":">> # <<>>
        /\ <<"+", w, ":">>[1] = "+"
  BY DEF HeaderWords
<1>3. Header(c) \in {<<>>} \cup {<<"+", w, ":">> : w \in {"CSQ", "SBD", "SBDRT", "CRIS"}}
  BY DEF Header
<1>4. <<>> \in Seq(HeaderWords) /\ <<>> \in Seq(X)
  OBVIOUS
<1>5. p \in Seq(X) /\ <<",">> \in Seq(X)
  <2>1. Values \cup {"+"} \in SUBSET X
    OBVIOUS
  <2>2. p \in Seq(X)
    BY <1>1, <2>1, SeqOfMore
  <2>3. "," \in X
    OBVIOUS
  <2> HIDE DEF X
  <2>4. \A w \in X : <<w>> \in Seq(X)
    OBVIOUS
  <2> QED BY <2>2, <2>3, <2>4
<1>6. Body(c, p) \in Seq(X)
  <2> HIDE DEF X
  <2>1. \A a, b \in Seq(X) : a \o b \in Seq(X)
    OBVIOUS
  <2>2. p \o <<",">> \o p \in Seq(X)
    BY <1>5, <2>1
  <2>3. p \o <<",">> \o p \o <<",">> \o p \in Seq(X)
    BY <1>5, <2>1, <2>2
  <2>4. p \o <<",">> \o p \o <<",">> \o p \o <<",">> \o p \in Seq(X)
    BY <1>5, <2>1, <2>3
  <2>5. p \o <<",">> \o p \o <<",">> \o p \o <<",">> \o p \o <<",">> \o p \in Seq(X)
    BY <1>5, <2>1, <2>4
  <2>6. p \o <<",">> \o p \o <<",">> \o p \o <<",">> \o p \o <<",">> \o p \o <<",">> \o p \in Seq(X)
    BY <1>5, <2>1, <2>5
  <2> QED BY <1>4, <1>5, <2>2, <2>6 DEF Body
<1>7. Header(c) = <<>> => Body(c, p) \in {p, <<>>}
  BY DEF Header, Body
<1>8. c = "AT+SBDRT" => Header(c) # <<>> /\ Body(c, p) = p
  BY DEF Header, Body, Mailbox
<1> QED BY <1>1, <1>2, <1>3, <1>4, <1>6, <1>7, <1>8

NoEnd(s) == \A i \in DOMAIN s : s[i] # EOL
TextLine(d) == d \in Seq(Words) /\ d # <<>> /\ d[1] \in Values \cup {"+"}
               /\ NoEnd(d)

\* The lines between a command and OK, and what PopAll makes of them.
Cases(c, p) ==
  \/ DataFields(c, p) = <<>> /\ Data(c, p) = <<>>
  \/ \E d : TextLine(d) /\ DataFields(c, p) = <<d>> /\ Data(c, p) = d
  \/ \E h, b : TextLine(h) /\ TextLine(b) /\ DataFields(c, p) = <<h, b>>
               /\ Data(c, p) = b \o h
LEMMA DataCases ==
  ASSUME NEW c \in Commands, NEW p \in Payloads(c)
  PROVE  /\ NoEnd(Header(c)) /\ NoEnd(Body(c, p)) /\ NoEnd(Header(c) \o Body(c, p))
         /\ Header(c) \in Seq(Words) /\ Body(c, p) \in Seq(Words)
         /\ Header(c) \o Body(c, p) \in Seq(Words)
         /\ Cases(c, p)
<1> DEFINE h == Header(c)
           b == Body(c, p)
           X == Values \cup HeaderWords \cup {","}
<1>1. X \in SUBSET Words /\ EOL \notin X
  BY ReceiverAssumption DEF Words, HeaderWords, EOL
<1>2. /\ h \in Seq(X) /\ b \in Seq(X)
      /\ h # <<>> => h[1] = "+"
      /\ h = <<>> /\ b # <<>> => b[1] \in Values \cup {"+"}
      /\ c = "AT+SBDRT" /\ b # <<>> => b[1] \in Values \cup {"+"}
      /\ c = "AT+SBDRT" => h # <<>>
  <2>1. h \in Seq(X) /\ b \in Seq(X)
    <3>1. h \in Seq(HeaderWords) /\ b \in Seq(Values \cup {"+", ","})
      BY DataWords
    <3>2. HeaderWords \in SUBSET X /\ Values \cup {"+", ","} \in SUBSET X
      BY DEF HeaderWords
    <3> HIDE DEF X, h, b
    <3> QED BY <3>1, <3>2, SeqOfMore
  <2>2. p \in Seq(Values \cup {"+"})
    BY DataWords
  <2>3. p # <<>> => p[1] \in Values \cup {"+"}
    BY <2>2
  <2> QED BY <2>1, <2>3, DataWords
<1> HIDE DEF h, b, X
<1>3. ASSUME NEW s \in Seq(X) PROVE s \in Seq(Words) /\ NoEnd(s)
  BY <1>1, SeqOfMore DEF NoEnd
<1>4. h \o b \in Seq(X)
  BY <1>2
<1>5. ASSUME NEW s \in Seq(X), s # <<>>, s[1] \in Values \cup {"+"} PROVE TextLine(s)
  BY <1>3, <1>5 DEF TextLine
<1>6. ASSUME c = "AT+SBDRT" PROVE Cases(c, p)
  <2>1. Data(c, p) = b \o h /\ TextLine(h)
    BY <1>2, <1>5, <1>6 DEF Data, h, b
  <2>2. CASE b = <<>>
    <3>1. b \o h = h
      BY <1>2, <2>2
    <3>2. DataFields(c, p) = <<h>> \o <<>>
      BY <1>2, <1>6, <2>2 DEF DataFields, Filled, h, b
    <3>3. DataFields(c, p) = <<h>>
      BY <3>2
    <3> QED BY <2>1, <3>1, <3>3 DEF Cases
  <2>3. CASE b # <<>>
    <3>1. DataFields(c, p) = <<h>> \o <<b>>
      BY <1>2, <1>6, <2>3 DEF DataFields, Filled, h, b
    <3>2. <<h>> \o <<b>> = <<h, b>>
      BY PairOf
    <3>3. TextLine(b)
      BY <1>2, <1>5, <1>6, <2>3
    <3> QED BY <2>1, <3>1, <3>2, <3>3 DEF Cases
  <2> QED BY <2>2, <2>3
<1>7. ASSUME c # "AT+SBDRT" PROVE Cases(c, p)
  <2>1. Data(c, p) = h \o b /\ DataFields(c, p) = Filled(h \o b)
    BY <1>7 DEF Data, DataFields, h, b
  <2>2. h \o b # <<>> => (h \o b)[1] \in Values \cup {"+"}
    <3>1. CASE h = <<>>
      <4>1. h \o b = b
        BY <1>2, <3>1
      <4> QED BY <1>2, <3>1, <4>1
    <3>2. CASE h # <<>>
      <4>1. (h \o b)[1] = h[1]
        BY <1>2, <3>2
      <4> QED BY <1>2, <3>2, <4>1
    <3> QED BY <3>1, <3>2
  <2>3. h \o b # <<>> => TextLine(h \o b)
    BY <1>4, <1>5, <2>2
  <2> QED BY <2>1, <2>3 DEF Filled, Cases
<1>8. /\ NoEnd(h) /\ NoEnd(b) /\ NoEnd(h \o b)
      /\ h \in Seq(Words) /\ b \in Seq(Words) /\ h \o b \in Seq(Words)
  BY <1>2, <1>3, <1>4
<1> QED BY <1>6, <1>7, <1>8 DEF h, b

\* The lines of a reply: the command, texts, OK.
LEMMA ReplyLines ==
  ASSUME NEW c \in Commands, NEW p \in Payloads(c)
  PROVE  LET L == ReplyFields(c, p)
         IN  /\ L \in Seq(Seq(Words)) /\ Len(L) \in 2 .. 4
             /\ L[1] = <<c>> /\ L[Len(L)] = OK
             /\ \A i \in 2 .. Len(L) - 1 : TextLine(L[i])
             /\ \/ Len(L) = 2 /\ Data(c, p) = <<>>
                \/ Len(L) = 3 /\ Data(c, p) = L[2]
                \/ Len(L) = 4 /\ Data(c, p) = L[3] \o L[2]
<1> DEFINE L == ReplyFields(c, p)
<1>1. <<c>> \in Seq(Words) /\ OK \in Seq(Words)
  <2>1. c \in Words /\ "O" \in Words /\ "K" \in Words
    BY ReceiverAssumption DEF Words
  <2> QED BY <2>1 DEF OK
<1>2. \A d : TextLine(d) => d \in Seq(Words)
  BY DEF TextLine
<1>3. Cases(c, p)
  BY DataCases
<1>4. CASE DataFields(c, p) = <<>> /\ Data(c, p) = <<>>
  <2>1. L = <<<<c>>, OK>>
    BY <1>1, <1>4, PairOf DEF ReplyFields
  <2> QED BY <1>1, <1>4, <2>1
<1>5. CASE \E d : TextLine(d) /\ DataFields(c, p) = <<d>> /\ Data(c, p) = d
  <2>1. PICK d : TextLine(d) /\ DataFields(c, p) = <<d>> /\ Data(c, p) = d
    BY <1>5
  <2>2. L = <<<<c>>>> \o <<d>> \o <<OK>>
    BY <2>1 DEF ReplyFields
  <2> DEFINE S == Seq(Words)
  <2>3. <<c>> \in S /\ OK \in S /\ d \in S
    BY <1>1, <1>2, <2>1
  <2> HIDE DEF S, L
  <2>4. L \in Seq(S) /\ Len(L) = 3 /\ L[1] = <<c>> /\ L[2] = d /\ L[3] = OK
    BY <2>2, <2>3
  <2>5. \A i \in 2 .. Len(L) - 1 : i = 2
    BY <2>4
  <2> QED BY <2>1, <2>4, <2>5 DEF S, L
<1>6. CASE \E h, b : TextLine(h) /\ TextLine(b) /\ DataFields(c, p) = <<h, b>>
                     /\ Data(c, p) = b \o h
  <2>1. PICK h, b : TextLine(h) /\ TextLine(b) /\ DataFields(c, p) = <<h, b>>
                    /\ Data(c, p) = b \o h
    BY <1>6
  <2>2. L = <<<<c>>>> \o <<h, b>> \o <<OK>>
    BY <2>1 DEF ReplyFields
  <2> DEFINE S == Seq(Words)
  <2>3. <<c>> \in S /\ OK \in S /\ h \in S /\ b \in S
    BY <1>1, <1>2, <2>1
  <2> HIDE DEF S, L
  <2>4. L \in Seq(S) /\ Len(L) = 4 /\ L[1] = <<c>> /\ L[2] = h /\ L[3] = b /\ L[4] = OK
    BY <2>2, <2>3
  <2>5. \A i \in 2 .. Len(L) - 1 : i = 2 \/ i = 3
    BY <2>4
  <2> QED BY <2>1, <2>4, <2>5 DEF S, L
<1> QED BY <1>3, <1>4, <1>5, <1>6 DEF Cases

\* The lines of a reply are those that strtok finds in it.
LEMMA ReplyText ==
  ASSUME NEW c \in Commands, NEW p \in Payloads(c), NEW w \in Seq(Words), EndsLine(w)
  PROVE  LET t == w \o Line(<<c>>) \o DataLines(c, p) \o Line(OK)
         IN  Fields(t, EOL) = Fields(w, EOL) \o ReplyFields(c, p) /\ EndsLine(t)
<1>1. ASSUME NEW a \in Seq(Words), NEW b \in Seq(Words), EndsLine(a), EndsLine(b)
      PROVE  /\ a \o b \in Seq(Words) /\ EndsLine(a \o b)
             /\ Fields(a \o b, EOL) = Fields(a, EOL) \o Fields(b, EOL)
  <2>1. a \o b \in Seq(Words) /\ EndsLine(a \o b)
    BY <1>1, ReplyJoined
  <2>2. Fields(a \o b, EOL) = Fields(a, EOL) \o Fields(b, EOL)
    BY <1>1, FieldsConcat DEF EndsLine
  <2> QED BY <2>1, <2>2
<1>2. /\ Line(<<c>>) \in Seq(Words) /\ EndsLine(Line(<<c>>))
      /\ Fields(Line(<<c>>), EOL) = <<<<c>>>>
  <2>1. c \in Words /\ c # EOL
    BY ReceiverAssumption DEF Words
  <2>2. <<c>> \in Seq(Words) /\ <<c>> # <<>> /\ \A i \in DOMAIN <<c>> : <<c>>[i] # EOL
    BY <2>1
  <2> QED BY <2>2, LineFields DEF Filled
<1>3. /\ Line(OK) \in Seq(Words) /\ EndsLine(Line(OK)) /\ Fields(Line(OK), EOL) = <<OK>>
  <2>1. "O" \in Words /\ "K" \in Words /\ EOL # "O" /\ EOL # "K"
    BY DEF Words, EOL
  <2>2. OK \in Seq(Words) /\ OK # <<>> /\ \A i \in DOMAIN OK : OK[i] # EOL
    BY <2>1 DEF OK
  <2> QED BY <2>2, LineFields DEF Filled
<1>4. /\ DataLines(c, p) \in Seq(Words) /\ EndsLine(DataLines(c, p))
      /\ Fields(DataLines(c, p), EOL) = DataFields(c, p)
  <2>1. ASSUME NEW s \in Seq(Words), NoEnd(s)
        PROVE  /\ Line(s) \in Seq(Words) /\ EndsLine(Line(s))
               /\ Fields(Line(s), EOL) = Filled(s)
    BY <2>1, LineFields DEF NoEnd
  <2>2. CASE c = "AT+SBDRT"
    <3> DEFINE x == Line(Header(c))
               y == Line(Body(c, p))
    <3>1. /\ x \in Seq(Words) /\ EndsLine(x) /\ Fields(x, EOL) = Filled(Header(c))
          /\ y \in Seq(Words) /\ EndsLine(y) /\ Fields(y, EOL) = Filled(Body(c, p))
      BY <2>1, DataCases
    <3>2. DataLines(c, p) = x \o y /\ DataFields(c, p) = Filled(Header(c)) \o Filled(Body(c, p))
      BY <2>2 DEF DataLines, DataFields
    <3> HIDE DEF x, y
    <3> QED BY <1>1, <3>1, <3>2
  <2>3. CASE c # "AT+SBDRT"
    BY <2>1, <2>3, DataCases DEF DataLines, DataFields
  <2> QED BY <2>2, <2>3
<1> DEFINE F(s) == Fields(s, EOL)
           a == w \o Line(<<c>>)
           b == a \o DataLines(c, p)
           t == b \o Line(OK)
<1>5. a \in Seq(Words) /\ EndsLine(a) /\ F(a) = F(w) \o <<<<c>>>>
  BY <1>1, <1>2
<1> HIDE DEF a
<1>6. b \in Seq(Words) /\ EndsLine(b) /\ F(b) = F(a) \o DataFields(c, p)
  BY <1>1, <1>4, <1>5
<1> HIDE DEF b
<1>7. t \in Seq(Words) /\ EndsLine(t) /\ F(t) = F(b) \o <<OK>>
  BY <1>1, <1>3, <1>6
<1>8. /\ F(w) \in Seq(Seq(Words)) /\ DataFields(c, p) \in Seq(Seq(Words))
      /\ <<<<c>>>> \in Seq(Seq(Words)) /\ <<OK>> \in Seq(Seq(Words))
  BY <1>2, <1>3, <1>4, FieldsType
<1>9. F(t) = F(w) \o ReplyFields(c, p)
  <2> DEFINE S == Seq(Words)
             fw == F(w)
             fd == DataFields(c, p)
             fc == <<<<c>>>>
             fo == <<OK>>
  <2>1. fw \in Seq(S) /\ fd \in Seq(S) /\ fc \in Seq(S) /\ fo \in Seq(S)
    BY <1>8
  <2>2. F(t) = fw \o fc \o fd \o fo /\ ReplyFields(c, p) = fc \o fd \o fo
    BY <1>5, <1>6, <1>7 DEF ReplyFields
  <2> HIDE DEF S, fw, fd, fc, fo
  <2>3. fc \o fd \in Seq(S) /\ (fw \o fc) \o fd = fw \o (fc \o fd)
    BY ONLY <2>1, ConcatAssociative, SMTT(15)
  <2> DEFINE g == fc \o fd
  <2>4. g \in Seq(S)
    BY <2>3
  <2> HIDE DEF g
  <2>5. (fw \o g) \o fo = fw \o (g \o fo)
    BY ONLY <2>1, <2>4, ConcatAssociative, SMTT(15)
  <2> QED BY <2>2, <2>3, <2>5 DEF fw, g
<1> QED BY <1>7, <1>9 DEF a, b, t

Lines == Seq(Words) \ {SBDRING}

\* Only the last line of a reply is OK, and none is ERROR or SBDRING.
LEMMA ReplyLinesDiffer ==
  ASSUME NEW c \in Commands, NEW p \in Payloads(c), NEW i \in 1 .. Len(ReplyFields(c, p))
  PROVE  /\ ReplyFields(c, p)[i] \in Lines /\ ReplyFields(c, p)[i] # ERROR
         /\ ReplyFields(c, p)[i] = OK => i = Len(ReplyFields(c, p))
<1> DEFINE L == ReplyFields(c, p)
<1>1. /\ L \in Seq(Seq(Words)) /\ Len(L) \in 2 .. 4 /\ L[1] = <<c>> /\ L[Len(L)] = OK
      /\ \A j \in 2 .. Len(L) - 1 : TextLine(L[j])
  BY ReplyLines
<1> HIDE DEF L
<1>2. OK[1] = "O" /\ ERROR[1] = "ERROR" /\ SBDRING[1] = "SBDRING"
  BY DEF OK, ERROR, SBDRING
<1>3. <<c>>[1] = c /\ c \notin {"O", "ERROR", "SBDRING"}
  BY ReceiverAssumption
<1>4. \A x \in Values \cup {"+"} : x \notin {"O", "ERROR", "SBDRING"}
  BY ReceiverAssumption
<1>5. L[i] \in Seq(Words)
  BY <1>1 DEF L
<1>6. i = 1 \/ i \in 2 .. Len(L) - 1 \/ i = Len(L)
  BY <1>1 DEF L
<1>7. L[i] # ERROR /\ L[i] # SBDRING /\ (L[i] = OK => i = Len(L))
  <2>1. CASE i = 1
    BY <1>1, <1>2, <1>3, <2>1
  <2>2. CASE i \in 2 .. Len(L) - 1
    <3>1. L[i][1] \in Values \cup {"+"}
      BY <1>1, <2>2 DEF TextLine
    <3> QED BY <1>2, <1>4, <3>1
  <2>3. CASE i = Len(L)
    BY <1>1, <1>2, <2>3
  <2> QED BY <1>6, <2>1, <2>2, <2>3
<1> QED BY <1>5, <1>7 DEF Lines, L

\* A longer sequence keeps what it has.
LEMMA AppendAt ==
  ASSUME NEW s, IsSeq(s), NEW e
  PROVE  /\ DOMAIN s = 1 .. Len(s) /\ DOMAIN Append(s, e) = 1 .. Len(s) + 1 /\ Len(s) \in Nat
         /\ \A i \in 1 .. Len(s) : Append(s, e)[i] = s[i]
         /\ Append(s, e)[Len(s) + 1] = e
<1>1. PICK S : s \in Seq(S)
  BY DEF IsSeq
<1>2. s \in Seq(S \cup {e}) /\ e \in S \cup {e}
  BY <1>1
<1> QED BY <1>2

-----------------------------------------------------------------------------
\* The lines not yet scanned, without those that tell of a ring.
RestOf(lines, text) == Those(lines \o Fields(text, EOL), Lines)
Rest == RestOf(chunk, wire)

\* They are those of the event and those on the wire.
LEMMA RestIs ==
  ASSUME NEW lines \in Seq(Seq(Words)), NEW text \in Seq(Words)
  PROVE  /\ RestOf(lines, text) \in Seq(Seq(Words))
         /\ RestOf(lines, text) = Those(lines, Lines) \o Those(Fields(text, EOL), Lines)
         /\ RestOf(<<>>, text) = Those(Fields(text, EOL), Lines)
         /\ Those(lines, Lines) \in Seq(Seq(Words))
         /\ Those(Fields(text, EOL), Lines) \in Seq(Seq(Words))
<1>1. Fields(text, EOL) \in Seq(Seq(Words))
  BY FieldsType
<1> DEFINE f == Fields(text, EOL)
<1> HIDE DEF f
<1>2. f \in Seq(Seq(Words))
  BY <1>1 DEF f
<1>3. lines \o f \in Seq(Seq(Words)) /\ <<>> \o f = f
  BY <1>2
<1>4. /\ Those(lines \o f, Lines) \in Seq(Seq(Words)) /\ Those(lines, Lines) \in Seq(Seq(Words))
      /\ Those(f, Lines) \in Seq(Seq(Words))
  BY <1>2, <1>3, ThoseType
<1>5. Those(lines \o f, Lines) = Those(lines, Lines) \o Those(f, Lines)
  BY <1>2, ThoseConcat
<1> QED BY <1>3, <1>4, <1>5 DEF RestOf, f

\* The first line is one of them unless it is a SBDRING.
LEMMA RestHead ==
  ASSUME NEW lines \in Seq(Seq(Words)), lines # <<>>, NEW text \in Seq(Words)
  PROVE  /\ Head(lines) = SBDRING => RestOf(lines, text) = RestOf(Tail(lines), text)
         /\ Head(lines) # SBDRING =>
              RestOf(lines, text) = <<Head(lines)>> \o RestOf(Tail(lines), text)
<1> DEFINE S == Seq(Words)
           h == Head(lines)
           t == Tail(lines)
           a == Those(t, Lines)
           b == Those(Fields(text, EOL), Lines)
<1>1. h \in S /\ t \in Seq(S) /\ lines = <<h>> \o t /\ <<h>> \in Seq(S)
  <2>1. h \in S /\ t \in Seq(S)
    OBVIOUS
  <2> HIDE DEF S
  <2>2. lines \in Seq(S)
    BY DEF S
  <2>3. lines = <<h>> \o t
    BY <2>2
  <2> QED BY <2>1, <2>3
<1>2. a \in Seq(S) /\ b \in Seq(S) /\ RestOf(t, text) = a \o b
  BY <1>1, RestIs
<1>3. Those(lines, Lines) = Those(<<h>>, Lines) \o a
  <2>1. \A x, y \in Seq(S) : Those(x \o y, Lines) = Those(x, Lines) \o Those(y, Lines)
    BY ThoseConcat
  <2> HIDE DEF S, h, t
  <2> QED BY <1>1, <2>1
<1>4. Those(<<h>>, Lines) = IF h # SBDRING THEN <<h>> ELSE <<>>
  BY <1>1, ThoseOne DEF Lines
<1>5. RestOf(lines, text) = Those(lines, Lines) \o b
  BY RestIs
<1> HIDE DEF S, h, t, a, b
<1>6. h = SBDRING => RestOf(lines, text) = RestOf(t, text)
  <2>1. <<>> \o a = a
    BY <1>2
  <2> QED BY <1>2, <1>3, <1>4, <1>5, <2>1
<1>7. h # SBDRING => RestOf(lines, text) = <<h>> \o RestOf(t, text)
  <2>1. \A x, y, z \in Seq(S) : (x \o y) \o z = x \o (y \o z)
    BY ONLY ConcatAssociative, SMTT(15)
  <2>2. (<<h>> \o a) \o b = <<h>> \o (a \o b)
    BY <1>1, <1>2, <2>1
  <2> QED BY <1>2, <1>3, <1>4, <1>5, <2>2
<1> QED BY <1>6, <1>7 DEF h, t

\* Where the reply outstanding is: its first lines on the stack, the last one
\* on top, the others not yet scanned; or taken off the stack.
Told(r) == [command |-> r.command, data |-> r.data]
Pushed(L) ==
  \E k \in 0 .. Len(L) - 1 :
    /\ Len(stack) = k /\ \A i \in 1 .. k : stack[i] = L[k + 1 - i]
    /\ Rest = SubSeq(L, k + 1, Len(L))
Answering(c, p) ==
  /\ sent[Len(sent)] = Reply(c, p)
  /\ uart_pc \in {"receive", "scan"} => Pushed(ReplyFields(c, p))
  /\ uart_pc = "process" => command = <<c>> /\ buffer_data = Data(c, p)
SomeReply(r) == \E c \in Commands : \E p \in Payloads(c) : r = Reply(c, p)
DInv ==
  /\ \A i \in 1 .. Len(sent) : SomeReply(sent[i])
  /\ \A i \in 1 .. Len(handled) : handled[i] = Told(sent[i])
  /\ stack \in Seq(Seq(Words))
  /\ NoRing(chunk) \/ chunk = <<SBDRING>>
  /\ uart_pc # "spin"
  /\ uart_pc \in {"process", "open"} => stack = <<>>
  /\ uart_pc = "process" => RestOf(Tail(chunk), wire) = <<>>
  /\ uart_pc = "open" => Rest = <<>>
  /\ status = "IQS_OPEN" => stack = <<>> /\ Rest = <<>>
  /\ status = "IQS_WAITING" =>
       \E c \in Commands : \E p \in Payloads(c) : Answering(c, p)

\* No text of a reply begins with AT.
NoATTexts == Values \cap AT = {}

\* At the start nothing is outstanding.
LEMMA DInit == Init => DInv
<1> SUFFICES ASSUME Init PROVE DInv
  OBVIOUS
<1>1. /\ wire = <<>> /\ chunk = <<>> /\ stack = <<>> /\ uart_pc = "receive"
      /\ status = "IQS_OPEN" /\ sent = <<>> /\ handled = <<>>
  BY DEF Init
<1>2. /\ <<>> \in Seq(Words) /\ <<>> \in Seq(Seq(Words)) /\ Len(<<>>) = 0 /\ DOMAIN <<>> = {}
      /\ \A i \in DOMAIN <<>> : <<>>[i] # EOL
  OBVIOUS
<1>3. Fields(<<>>, EOL) = <<>>
  <2>1. Line(<<>>) = <<>> /\ Filled(<<>>) = <<>>
    BY DEF Line, Filled
  <2> QED BY <1>2, <2>1, LineFields
<1>4. Rest = <<>>
  <2>1. Those(<<>>, Lines) = <<>>
    BY <1>2, ThoseNone
  <2> QED BY <1>1, <1>2, <1>3, <2>1, RestIs DEF Rest
<1>5. NoRing(chunk)
  BY <1>1, <1>2 DEF NoRing
<1> QED BY <1>1, <1>2, <1>4, <1>5 DEF DInv

\* What is left of the reply when the channel is open: nothing.
LEMMA SendD ==
  ASSUME Orderly, RInv, KInv, DInv, NEW c \in Commands, NEW p \in Payloads(c), SendCommand(c, p)
  PROVE  DInv'
<1> DEFINE L == ReplyFields(c, p)
           w == wire \o Line(<<c>>) \o DataLines(c, p) \o Line(OK)
<1>1. /\ status = "IQS_OPEN" /\ status' = "IQS_WAITING" /\ wire' = w
      /\ sent' = Append(sent, Reply(c, p))
      /\ UNCHANGED <<chunk, stack, uart_pc, handled, command, buffer_data>>
  BY DEF SendCommand, Transmit, Orderly, scan
<1>2. /\ wire \in Seq(Words) /\ chunk \in Seq(Seq(Words)) /\ IsSeq(sent)
      /\ uart_pc \in {"receive", "scan"} /\ Len(handled) = Len(sent)
      /\ EndsLine(wire) /\ stack = <<>> /\ Rest = <<>>
  BY <1>1 DEF RInv, RType, Nothing, Reading, KInv, DInv
<1>3. L \in Seq(Seq(Words)) /\ Len(L) \in 2 .. 4
  BY ReplyLines
<1>4. Rest' = L
  <2>1. Fields(w, EOL) = Fields(wire, EOL) \o L
    BY <1>2, ReplyText
  <2>2. Fields(wire, EOL) \in Seq(Seq(Words))
    BY <1>2, FieldsType
  <2>3. Those(L, Lines) = L
    <3>1. \A i \in DOMAIN L : L[i] \in Lines
      BY <1>3, ReplyLinesDiffer
    <3> QED BY <1>3, <3>1, ThoseAll
  <2> DEFINE f == Fields(wire, EOL)
             S == Seq(Words)
  <2>4. /\ f \in Seq(S) /\ chunk \in Seq(S) /\ L \in Seq(S)
        /\ Rest' = Those(chunk \o (f \o L), Lines) /\ Those(chunk \o f, Lines) = <<>>
    BY <1>1, <1>2, <1>3, <2>1, <2>2 DEF Rest, RestOf
  <2> HIDE DEF f, L, S
  <2>5. \A x, y, z \in Seq(S) : (x \o y) \o z = x \o (y \o z)
    BY ConcatAssociative
  <2>6. \A x, y \in Seq(S) : Those(x \o y, Lines) = Those(x, Lines) \o Those(y, Lines)
    BY ThoseConcat
  <2>7. chunk \o f \in Seq(S) /\ chunk \o (f \o L) = (chunk \o f) \o L
    BY <2>4, <2>5
  <2>8. Rest' = <<>> \o L
    BY <2>3, <2>4, <2>6, <2>7
  <2> QED BY <2>4, <2>8
<1>5. Pushed(L)'
  <2>1. SubSeq(L, 1, Len(L)) = L
    BY <1>3
  <2> HIDE DEF L
  <2>2. 0 \in 0 .. Len(L) - 1 /\ Len(stack') = 0 /\ 0 + 1 = 1
    <3>1. stack' = <<>>
      BY <1>1, <1>2
    <3>2. Len(stack') = 0
      BY <3>1
    <3>3. \A n \in 2 .. 4 : 0 \in 0 .. n - 1
      OBVIOUS
    <3>4. 0 \in 0 .. Len(L) - 1
      BY <1>3, <3>3
    <3> QED BY <3>2, <3>4
  <2> QED BY <1>4, <2>1, <2>2 DEF Pushed
<1>6. /\ Len(sent') = Len(sent) + 1 /\ Len(sent) \in Nat /\ sent'[Len(sent')] = Reply(c, p)
      /\ \A i \in 1 .. Len(sent) : sent'[i] = sent[i]
  BY <1>1, <1>2, AppendIsSeq, AppendAt
<1>7. Answering(c, p)'
  BY <1>1, <1>2, <1>5, <1>6 DEF Answering
<1>8. \A i \in 1 .. Len(sent') : SomeReply(sent'[i])
  <2>1. SomeReply(Reply(c, p))
    BY DEF SomeReply
  <2>2. \A i \in 1 .. Len(sent') : i \in 1 .. Len(sent) \/ i = Len(sent')
    BY <1>6
  <2> QED BY <1>6, <2>1, <2>2 DEF DInv
<1>9. \A i \in 1 .. Len(handled') : handled'[i] = Told(sent'[i])
  BY <1>1, <1>2, <1>6 DEF DInv
<1> QED BY <1>1, <1>2, <1>7, <1>8, <1>9 DEF DInv

\* The two parts of a text that is cut.
LEMMA CutJoined ==
  ASSUME NEW s \in Seq(Words), NEW n \in 0 .. Len(s)
  PROVE  /\ SubSeq(s, 1, n) \in Seq(Words) /\ SubSeq(s, n + 1, Len(s)) \in Seq(Words)
         /\ s = SubSeq(s, 1, n) \o SubSeq(s, n + 1, Len(s))
<1>1. 1 \in 1 .. Len(s) + 1 /\ n \in 1 - 1 .. Len(s) /\ Len(s) \in n .. Len(s)
  OBVIOUS
<1> DEFINE front == SubSeq(s, 1, n)
           back == SubSeq(s, n + 1, Len(s))
<1>2. front \o back = SubSeq(s, 1, Len(s))
  BY <1>1, ConcatAdjacentSubSeq
<1>3. SubSeq(s, 1, Len(s)) = s
  OBVIOUS
<1>4. front \in Seq(Words) /\ back \in Seq(Words)
  OBVIOUS
<1>5. s = front \o back
  BY <1>2, <1>3, Zenon
<1> QED BY <1>4, <1>5, Zenon

\* A SBDRING is no line of a reply.
LEMMA RingD ==
  ASSUME Orderly, RInv, KInv, DInv, ModemRing
  PROVE  DInv'
<1>1. PICK i \in LineStarts :
        wire' = SubSeq(wire, 1, i) \o Line(SBDRING) \o SubSeq(wire, i + 1, Len(wire))
  BY DEF ModemRing
<1>2. wire \in Seq(Words) /\ i \in 0 .. Len(wire) /\ (i > 0 => wire[i] = EOL) /\ EndsLine(wire)
      /\ chunk \in Seq(Seq(Words))
  BY DEF LineStarts, RInv, RType, KInv
<1> DEFINE a == SubSeq(wire, 1, i)
           b == SubSeq(wire, i + 1, Len(wire))
           r == Line(SBDRING)
           F(s) == Fields(s, EOL)
           S == Seq(Words)
<1>3. a \in S /\ b \in S /\ EndsLine(a) /\ wire = a \o b /\ wire' = a \o r \o b
  <2>1. a \in S /\ b \in S /\ wire = a \o b
    BY <1>2, CutJoined
  <2>2. EndsLine(a)
    BY <1>2, ReplyCut
  <2> QED BY <1>1, <2>1, <2>2
<1>4. r \in S /\ EndsLine(r) /\ F(r) = <<SBDRING>> /\ SBDRING \in S
  <2>1. "SBDRING" \in Words /\ EOL # "SBDRING"
    BY DEF Words, EOL
  <2>2. SBDRING \in S /\ SBDRING # <<>> /\ \A j \in DOMAIN SBDRING : SBDRING[j] # EOL
    BY <2>1 DEF SBDRING
  <2> QED BY <2>2, LineFields DEF Filled
<1> HIDE DEF a, b, r
<1>5. a \o r \in S /\ EndsLine(a \o r)
  BY <1>3, <1>4, ReplyJoined
<1>6. F(wire) = F(a) \o F(b) /\ F(a \o r) = F(a) \o F(r) /\ F(wire') = F(a \o r) \o F(b)
  <2>1. \A x, y \in S : EndsLine(x) => F(x \o y) = F(x) \o F(y)
    BY FieldsConcat DEF EndsLine
  <2> HIDE DEF S, F
  <2> QED BY <1>3, <1>4, <1>5, <2>1
<1>7. F(a) \in Seq(S) /\ F(b) \in Seq(S) /\ F(r) \in Seq(S)
  BY <1>3, <1>4, FieldsType
<1> DEFINE T(s) == Those(s, Lines)
<1>8. T(F(wire')) = T(F(wire))
  <2> DEFINE x == F(a)
             y == F(b)
             z == F(r)
  <2>1. /\ x \in Seq(S) /\ y \in Seq(S) /\ z \in Seq(S) /\ z = <<SBDRING>>
        /\ F(wire) = x \o y /\ F(wire') = (x \o z) \o y
    BY <1>4, <1>6, <1>7
  <2>2. T(<<SBDRING>>) = <<>>
    BY ThoseOne DEF Lines
  <2> HIDE DEF S, x, y, z
  <2>3. \A u, v \in Seq(S) : T(u \o v) = T(u) \o T(v)
    BY ThoseConcat
  <2>4. T(x) \in Seq(S)
    BY <2>1, ThoseType
  <2>5. x \o z \in Seq(S)
    BY <2>1
  <2> HIDE DEF T, F
  <2>6. T(F(wire')) = (T(x) \o <<>>) \o T(y) /\ T(F(wire)) = T(x) \o T(y)
    <3>1. T((x \o z) \o y) = T(x \o z) \o T(y)
      BY <2>1, <2>3, <2>5
    <3>2. T(x \o z) = T(x) \o T(z) /\ T(x \o y) = T(x) \o T(y)
      BY <2>1, <2>3
    <3>3. T(z) = <<>>
      BY <2>1, <2>2
    <3> QED BY <2>1, <3>1, <3>2, <3>3
  <2>7. T(x) \o <<>> = T(x)
    BY <2>4
  <2> QED BY <2>6, <2>7
<1>9. wire' \in S
  BY <1>3, <1>5
<1>10. ASSUME NEW lines \in Seq(S) PROVE RestOf(lines, wire') = RestOf(lines, wire)
  <2>1. /\ RestOf(lines, wire) = Those(lines, Lines) \o T(F(wire))
        /\ RestOf(lines, wire') = Those(lines, Lines) \o T(F(wire'))
    BY <1>2, <1>9, RestIs
  <2> HIDE DEF T, F
  <2> QED BY <1>8, <2>1
<1>11. UNCHANGED <<chunk, stack, uart_pc, sent, handled, status, command, buffer_data>>
  BY DEF ModemRing, scan
<1>12. Rest' = Rest
  BY <1>2, <1>10, <1>11 DEF Rest
<1>13. uart_pc = "process" => RestOf(Tail(chunk), wire') = RestOf(Tail(chunk), wire)
  <2>1. uart_pc = "process" => chunk # <<>>
    BY DEF RInv, RType
  <2>2. uart_pc = "process" => Tail(chunk) \in Seq(S)
    BY <1>2, <2>1
  <2> QED BY <1>10, <2>2
<1>14. \A c \in Commands : \A p \in Payloads(c) : Answering(c, p) => Answering(c, p)'
  BY <1>11, <1>12 DEF Answering, Pushed
<1> QED BY <1>11, <1>12, <1>13, <1>14 DEF DInv

\* An event takes lines off the wire.
LEMMA ReadD ==
  ASSUME Orderly, RInv, KInv, DInv, UartData
  PROVE  DInv'
<1>1. PICK n \in DOMAIN wire :
        /\ wire[n] = EOL
        /\ Contains(SubSeq(wire, 1, n), "SBDRING") => SubSeq(wire, 1, n) = Line(SBDRING)
        /\ chunk' = Fields(SubSeq(wire, 1, n), EOL)
        /\ wire' = SubSeq(wire, n + 1, Len(wire))
  BY DEF UartData, Orderly
<1> DEFINE a == SubSeq(wire, 1, n)
           S == Seq(Words)
<1>2. /\ wire \in S /\ n \in 1 .. Len(wire) /\ n \in 0 .. Len(wire)
      /\ uart_pc = "receive" /\ uart_pc' = "scan" /\ chunk = <<>>
      /\ UNCHANGED <<stack, sent, handled, status, command, buffer_data>>
  BY DEF UartData, RInv, RType, KInv
<1>3. a \in S /\ wire' \in S /\ wire = a \o wire' /\ EndsLine(a)
  <2>1. a \in S /\ wire' \in S /\ wire = a \o wire'
    BY <1>1, <1>2, CutJoined
  <2> QED BY <1>1, <1>2, <2>1, ReplyCut
<1>4. /\ Contains(a, "SBDRING") => a = Line(SBDRING)
      /\ chunk' = Fields(a, EOL)
  BY <1>1
<1> HIDE DEF a
<1>5. NoRing(chunk') \/ chunk' = <<SBDRING>>
  <2>1. CASE ~Contains(a, "SBDRING")
    <3>1. DOMAIN a = 1 .. Len(a)
      BY <1>3
    <3> QED BY <1>3, <1>4, <2>1, <3>1, ReplyIsField DEF Contains
  <2>2. CASE a = Line(SBDRING)
    <3>1. "SBDRING" \in Words /\ EOL # "SBDRING"
      BY DEF Words, EOL
    <3>2. SBDRING \in S /\ SBDRING # <<>> /\ \A j \in DOMAIN SBDRING : SBDRING[j] # EOL
      BY <3>1 DEF SBDRING
    <3> QED BY <1>4, <2>2, <3>2, LineFields DEF Filled
  <2> QED BY <1>4, <2>1, <2>2
<1>6. Rest' = Rest
  <2>1. Fields(wire, EOL) = Fields(a, EOL) \o Fields(wire', EOL)
    BY <1>3, FieldsConcat DEF EndsLine
  <2>2. Rest = Those(Fields(wire, EOL), Lines)
    <3>1. chunk \in Seq(S)
      BY <1>2
    <3> QED BY <1>2, <3>1, RestIs DEF Rest
  <2> QED BY <1>4, <2>1, <2>2 DEF Rest, RestOf
<1>7. \A c \in Commands : \A p \in Payloads(c) : Answering(c, p) => Answering(c, p)'
  BY <1>2, <1>6 DEF Answering, Pushed
<1> QED BY <1>2, <1>5, <1>6, <1>7 DEF DInv

\* A line that is pushed is the next one of the reply, and a SBDRING none of it;
\* there is no line ERROR.
LEMMA ScanD ==
  ASSUME Orderly, RInv, KInv, DInv, EndOfChunk \/ PushLine \/ StartRingTask \/ SpinOnError
  PROVE  DInv'
<1>1. /\ uart_pc = "scan" /\ UNCHANGED <<wire, sent, handled, status, command, buffer_data>>
      /\ chunk \in Seq(Seq(Words)) /\ wire \in Seq(Words) /\ stack \in Seq(Seq(Words))
      /\ status \in {"IQS_OPEN", "IQS_WAITING"}
  BY DEF RInv, RType, DInv, EndOfChunk, PushLine, StartRingTask, SpinOnError, Scanning
<1>2. CASE EndOfChunk
  <2>1. uart_pc' = "receive" /\ UNCHANGED <<chunk, stack>>
    BY <1>2 DEF EndOfChunk
  <2>2. Rest' = Rest
    BY <1>1, <2>1 DEF Rest
  <2>3. \A c \in Commands : \A p \in Payloads(c) : Answering(c, p) => Answering(c, p)'
    BY <1>1, <2>1, <2>2 DEF Answering, Pushed
  <2> QED BY <1>1, <2>1, <2>2, <2>3 DEF DInv
<1>3. CASE StartRingTask
  <2>1. /\ chunk # <<>> /\ Head(chunk) = SBDRING /\ chunk' = <<>> /\ uart_pc' = "receive"
        /\ UNCHANGED stack
    BY <1>3 DEF StartRingTask, Scanning
  <2>2. chunk = <<SBDRING>>
    <3>1. 1 \in DOMAIN chunk /\ chunk[1] = Head(chunk)
      BY <1>1, <2>1
    <3> QED BY <2>1, <3>1 DEF DInv, NoRing
  <2>3. Rest' = Rest
    <3>1. Tail(chunk) = <<>>
      BY <2>2
    <3> QED BY <1>1, <2>1, <3>1, RestHead DEF Rest
  <2>4. NoRing(chunk')
    <3>1. DOMAIN chunk' = {}
      BY <2>1
    <3> QED BY <3>1 DEF NoRing
  <2>5. \A c \in Commands : \A p \in Payloads(c) : Answering(c, p) => Answering(c, p)'
    BY <1>1, <2>1, <2>3 DEF Answering, Pushed
  <2> QED BY <1>1, <2>1, <2>3, <2>4, <2>5 DEF DInv
<1>4. CASE PushLine \/ SpinOnError
  <2>1. /\ chunk # <<>> /\ Head(chunk) # SBDRING
        /\ PushLine => Head(chunk) # OK
        /\ SpinOnError => Head(chunk) = ERROR
    <3>1. ERROR[1] = "ERROR" /\ SBDRING[1] = "SBDRING"
      BY DEF ERROR, SBDRING
    <3>2. ERROR # SBDRING
      BY <3>1
    <3> QED BY <1>4, <3>2 DEF PushLine, SpinOnError, Scanning
  <2> DEFINE x == Head(chunk)
             R == RestOf(Tail(chunk), wire)
  <2>2. Rest = <<x>> \o R /\ R \in Seq(Seq(Words)) /\ x \in Seq(Words) /\ Tail(chunk) \in Seq(Seq(Words))
    <3>1. Tail(chunk) \in Seq(Seq(Words)) /\ x \in Seq(Words)
      BY <1>1, <2>1
    <3> QED BY <1>1, <2>1, <3>1, RestHead, RestIs DEF Rest
  <2> HIDE DEF x, R
  <2>3. Rest # <<>> /\ Rest[1] = x /\ Tail(Rest) = R /\ Len(Rest) \in Nat \ {0}
        /\ Rest \in Seq(Seq(Words))
    BY <2>2
  <2>4. status = "IQS_WAITING"
    BY <1>1, <2>3 DEF DInv
  <2>19. PICK c \in Commands : \E p \in Payloads(c) : Answering(c, p)
    BY <2>4 DEF DInv
  <2>5. PICK p \in Payloads(c) : Answering(c, p)
    BY <2>19
  <2> DEFINE L == ReplyFields(c, p)
  <2>6. L \in Seq(Seq(Words)) /\ Len(L) \in 2 .. 4 /\ L[Len(L)] = OK
        /\ \A i \in 1 .. Len(L) : L[i] # ERROR
    BY ReplyLines, ReplyLinesDiffer
  <2>7. PICK k \in 0 .. Len(L) - 1 :
          /\ Len(stack) = k /\ \A i \in 1 .. k : stack[i] = L[k + 1 - i]
          /\ Rest = SubSeq(L, k + 1, Len(L))
    BY <1>1, <2>5 DEF Answering, Pushed
  <2>8. sent[Len(sent)] = Reply(c, p)
    BY <2>5 DEF Answering
  <2> HIDE DEF L
  <2>9. k + 1 \in 1 .. Len(L) /\ x = L[k + 1] /\ R = SubSeq(L, k + 1 + 1, Len(L))
    <3>1. k + 1 \in 1 .. Len(L)
      BY <2>6
    <3>2. SubSeq(L, k + 1, Len(L))[1] = L[k + 1]
      BY <2>6, <3>1
    <3>3. Tail(SubSeq(L, k + 1, Len(L))) = SubSeq(L, k + 1 + 1, Len(L))
      <4> DEFINE u == SubSeq(L, k + 1, Len(L))
                 v == SubSeq(L, k + 1 + 1, Len(L))
                 S == Seq(Words)
      <4>1. /\ u \in Seq(S) /\ Len(u) = Len(L) - k /\ \A i \in 1 .. Len(L) - k : u[i] = L[k + i]
            /\ v \in Seq(S) /\ Len(v) = Len(L) - k - 1
            /\ \A i \in 1 .. Len(L) - k - 1 : v[i] = L[k + 1 + i]
        BY <2>6, <3>1
      <4> HIDE DEF u, v, S
      <4>2. /\ Tail(u) \in Seq(S) /\ Len(Tail(u)) = Len(L) - k - 1
            /\ \A i \in 1 .. Len(L) - k - 1 : Tail(u)[i] = u[i + 1]
        BY <2>6, <4>1
      <4>3. ASSUME NEW i \in 1 .. Len(L) - k - 1 PROVE Tail(u)[i] = v[i]
        <5>1. i + 1 \in 1 .. Len(L) - k /\ k + (i + 1) = k + 1 + i
          BY <2>6
        <5> QED BY <4>1, <4>2, <5>1
      <4>4. Tail(u) = v
        BY <4>1, <4>2, <4>3, SeqEqual
      <4> QED BY <4>4 DEF u, v
    <3> QED BY <2>3, <2>7, <3>1, <3>2, <3>3
  <2>10. PushLine /\ ~SpinOnError
    BY <1>4, <2>1, <2>6, <2>9 DEF x
  <2>11. k + 1 \in 0 .. Len(L) - 1
    <3>1. k + 1 # Len(L)
      BY <2>1, <2>6, <2>9, <2>10 DEF x
    <3> QED BY <2>6, <3>1
  <2>12. chunk' = Tail(chunk) /\ stack' = <<x>> \o stack /\ UNCHANGED uart_pc
    BY <2>10 DEF PushLine, Scanning, x
  <2>13. Rest' = R
    BY <1>1, <2>12 DEF Rest, R
  <2>14. /\ stack' \in Seq(Seq(Words)) /\ Len(stack') = k + 1 /\ stack'[1] = x
         /\ \A i \in 2 .. k + 1 : stack'[i] = stack[i - 1]
    <3> DEFINE S == Seq(Words)
    <3>1. x \in S /\ stack \in Seq(S) /\ Len(stack) = k
      BY <1>1, <2>2, <2>7
    <3> HIDE DEF S
    <3>2. /\ <<x>> \o stack \in Seq(S) /\ Len(<<x>> \o stack) = k + 1 /\ (<<x>> \o stack)[1] = x
          /\ \A i \in 2 .. k + 1 : (<<x>> \o stack)[i] = stack[i - 1]
      BY <3>1
    <3> QED BY <2>12, <3>2 DEF S
  <2>15. \A i \in 1 .. k + 1 : stack'[i] = L[(k + 1) + 1 - i]
    <3> SUFFICES ASSUME NEW i \in 1 .. k + 1 PROVE stack'[i] = L[(k + 1) + 1 - i]
      OBVIOUS
    <3>1. CASE i = 1
      BY <2>9, <2>11, <2>14, <3>1
    <3>2. CASE i # 1
      <4>1. i - 1 \in 1 .. k /\ i \in 2 .. k + 1 /\ k + 1 - (i - 1) = (k + 1) + 1 - i
        BY <2>11, <3>2
      <4> QED BY <2>7, <2>14, <4>1
    <3> QED BY <3>1, <3>2
  <2>16. Pushed(L)'
    BY <2>9, <2>11, <2>13, <2>14, <2>15 DEF Pushed
  <2>17. Answering(c, p)'
    BY <1>1, <2>8, <2>12, <2>16 DEF Answering, L
  <2>18. NoRing(chunk') \/ chunk' = <<SBDRING>>
    <3>1. CASE NoRing(chunk)
      <4>1. \A i \in DOMAIN Tail(chunk) : i + 1 \in DOMAIN chunk /\ Tail(chunk)[i] = chunk[i + 1]
        BY <1>1, <2>1
      <4> QED BY <2>12, <3>1, <4>1 DEF NoRing
    <3>2. CASE chunk = <<SBDRING>>
      BY <2>1, <3>2
    <3> QED BY <3>1, <3>2 DEF DInv
  <2> QED BY <1>1, <2>4, <2>12, <2>14, <2>17, <2>18 DEF DInv
<1> QED BY <1>2, <1>3, <1>4

\* What a loop finds in a few texts of which only the last is of the one sort.
LEMMA LastOfSort ==
  ASSUME NEW S, NEW x \in S, NEW E, NEW G, x \in E, x \notin G,
         NEW q \in Seq(S), \A i \in DOMAIN q : q[i] \in G /\ q[i] \notin E
  PROVE  Those(q \o <<x>>, E) = <<x>> /\ Those(q \o <<x>>, G) = q
<1>1. <<x>> \in Seq(S)
  OBVIOUS
<1>2. ASSUME NEW T PROVE Those(q \o <<x>>, T) = Those(q, T) \o Those(<<x>>, T)
  <2>1. \A a, b \in Seq(S) : Those(a \o b, T) = Those(a, T) \o Those(b, T)
    BY ThoseConcat
  <2> QED BY <1>1, <2>1
<1>3. Those(<<x>>, E) = <<x>> /\ Those(<<x>>, G) = <<>>
  BY ThoseOne
<1>4. Those(q, E) = <<>> /\ Those(q, G) = q
  BY ThoseAll, ThoseNone
<1>5. <<>> \o <<x>> = <<x>> /\ q \o <<>> = q
  BY <1>1
<1> QED BY <1>2, <1>3, <1>4, <1>5

\* The lines of a reply that are its data do not begin with AT.
LEMMA ATLine ==
  ASSUME NoATTexts, NEW c \in Commands
  PROVE  /\ IsCommand(<<c>>) /\ <<c>> \in Seq(Words)
         /\ \A d : TextLine(d) => ~IsCommand(d) /\ d \in Seq(Words)
<1>1. c \in AT /\ c \in Words
  BY ReceiverAssumption DEF Words
<1>2. Head(<<c>>) = c
  OBVIOUS
<1>3. ASSUME NEW d, TextLine(d) PROVE ~IsCommand(d) /\ d \in Seq(Words)
  <2>1. d \in Seq(Words) /\ d # <<>> /\ d[1] \in Values \cup {"+"}
    BY <1>3 DEF TextLine
  <2>2. Head(d) = d[1]
    BY <2>1
  <2>3. d[1] \notin AT
    BY <2>1, ReceiverAssumption DEF NoATTexts
  <2> QED BY <2>1, <2>2, <2>3 DEF IsCommand
<1> QED BY <1>1, <1>2, <1>3 DEF IsCommand

\* The lines below OK as they are popped: the texts, the last one first, and
\* the command.
LEMMA PopOrder ==
  ASSUME NEW c \in Commands, NEW p \in Payloads(c),
         NEW s \in Seq(Seq(Words)), Len(s) = Len(ReplyFields(c, p)) - 1,
         \A i \in 1 .. Len(s) : s[i] = ReplyFields(c, p)[Len(s) + 1 - i]
  PROVE  \E q \in Seq(Seq(Words)) :
           /\ s = q \o <<<<c>>>> /\ FlattenSeq(q) = Data(c, p)
           /\ \A i \in DOMAIN q : TextLine(q[i])
<1> DEFINE L == ReplyFields(c, p)
           S == Seq(Words)
<1>1. /\ L \in Seq(S) /\ Len(L) \in 2 .. 4 /\ L[1] = <<c>>
      /\ \A i \in 2 .. Len(L) - 1 : TextLine(L[i])
      /\ \/ Len(L) = 2 /\ Data(c, p) = <<>>
         \/ Len(L) = 3 /\ Data(c, p) = L[2]
         \/ Len(L) = 4 /\ Data(c, p) = L[3] \o L[2]
  BY ReplyLines
<1>2. /\ s \in Seq(S) /\ Len(s) = Len(L) - 1
      /\ \A i \in 1 .. Len(s) : s[i] = L[Len(s) + 1 - i]
  OBVIOUS
<1> DEFINE q == SubSeq(s, 1, Len(s) - 1)
           x == <<c>>
<1> HIDE DEF L, S, x
<1>3. /\ q \in Seq(S) /\ Len(q) = Len(L) - 2
      /\ \A i \in 1 .. Len(L) - 2 : q[i] = s[i]
  BY <1>1, <1>2
<1> HIDE DEF q
<1>4. \A i \in 1 .. Len(q) : TextLine(q[i]) /\ q[i] = L[Len(L) - i]
  <2> SUFFICES ASSUME NEW i \in 1 .. Len(q) PROVE TextLine(q[i]) /\ q[i] = L[Len(L) - i]
    OBVIOUS
  <2>1. i \in 1 .. Len(s) /\ Len(s) + 1 - i = Len(L) - i /\ Len(L) - i \in 2 .. Len(L) - 1
        /\ i \in 1 .. Len(L) - 2
    <3>1. Len(L) \in 2 .. 4
      BY <1>1
    <3>2. Len(s) = Len(L) - 1
      BY <1>2
    <3>3. Len(q) = Len(L) - 2
      BY <1>3
    <3>4. i \in Nat /\ 1 <= i /\ i <= Len(L) - 2
      BY <3>1, <3>3
    <3> QED BY <3>1, <3>2, <3>4
  <2> QED BY <1>1, <1>2, <1>3, <2>1
<1>5. s = q \o <<x>>
  <2>1. x \in S
    <3>1. L[1] = x /\ 1 \in 1 .. Len(L)
      BY <1>1 DEF x
    <3> QED BY <1>1, <3>1
  <2>2. /\ q \o <<x>> \in Seq(S) /\ Len(q \o <<x>>) = Len(L) - 1
        /\ \A i \in 1 .. Len(L) - 2 : (q \o <<x>>)[i] = q[i]
        /\ (q \o <<x>>)[Len(L) - 1] = x
    BY <1>1, <1>3, <2>1
  <2>3. s[Len(L) - 1] = x
    <3>1. Len(L) - 1 \in 1 .. Len(s) /\ Len(s) + 1 - (Len(L) - 1) = 1
      BY <1>1, <1>2
    <3> QED BY <1>1, <1>2, <3>1 DEF x
  <2>4. \A i \in 1 .. Len(s) : s[i] = (q \o <<x>>)[i]
    <3> SUFFICES ASSUME NEW i \in 1 .. Len(s) PROVE s[i] = (q \o <<x>>)[i]
      OBVIOUS
    <3>1. i = Len(L) - 1 \/ i \in 1 .. Len(L) - 2
      BY <1>1, <1>2
    <3> QED BY <1>3, <2>2, <2>3, <3>1
  <2> QED BY <1>2, <2>2, <2>4, SeqEqual
<1>6. FlattenSeq(q) = Data(c, p)
  <2>1. CASE Len(L) = 2
    <3>1. q = <<>>
      BY <1>3, <2>1
    <3> QED BY <1>1, <2>1, <3>1, FlattenFew
  <2>2. CASE Len(L) = 3
    <3>1. Len(q) = 1 /\ q[1] = L[2]
      BY <1>3, <1>4, <2>2
    <3>2. q = <<q[1]>>
      BY <1>3, <3>1
    <3> QED BY <1>1, <2>2, <3>1, <3>2, FlattenFew
  <2>3. CASE Len(L) = 4
    <3>1. Len(q) = 2 /\ q[1] = L[3] /\ q[2] = L[2]
      BY <1>3, <1>4, <2>3
    <3>2. q = <<q[1], q[2]>>
      BY <1>3, <3>1
    <3>3. FlattenSeq(<<q[1], q[2]>>) = q[1] \o q[2]
      BY FlattenFew
    <3>4. Data(c, p) = L[3] \o L[2]
      BY <1>1, <2>3
    <3>5. FlattenSeq(q) = q[1] \o q[2]
      BY ONLY <3>2, <3>3
    <3> QED BY <3>1, <3>4, <3>5
  <2> QED BY <1>1, <2>1, <2>2, <2>3
<1>7. \A i \in DOMAIN q : TextLine(q[i])
  BY <1>3, <1>4
<1>8. q \in Seq(Seq(Words)) /\ s = q \o <<<<c>>>>
  BY <1>3, <1>5 DEF S, x
<1> QED BY <1>6, <1>7, <1>8

\* The AT line is the command, and the other lines in the order they are popped
\* are the data.
LEMMA Popped ==
  ASSUME NoATTexts, NEW c \in Commands, NEW p \in Payloads(c),
         NEW s \in Seq(Seq(Words)), Len(s) = Len(ReplyFields(c, p)) - 1,
         \A i \in 1 .. Len(s) : s[i] = ReplyFields(c, p)[Len(s) + 1 - i],
         NEW E, E = {line \in Range(s) : IsCommand(line)}
  PROVE  /\ Those(s, E) = <<<<c>>>>
         /\ FlattenSeq(Those(s, Range(s) \ E)) = Data(c, p)
<1>1. PICK q \in Seq(Seq(Words)) :
        /\ s = q \o <<<<c>>>> /\ FlattenSeq(q) = Data(c, p)
        /\ \A i \in DOMAIN q : TextLine(q[i])
  BY PopOrder
<1> DEFINE S == Seq(Words)
           x == <<c>>
           G == Range(s) \ E
<1>2. Range(s) = {s[i] : i \in 1 .. Len(s)}
  <2>1. s \in Seq(Seq(Words))
    OBVIOUS
  <2> QED BY ONLY <2>1, RangeEquality
<1>3. q \in Seq(S) /\ x \in S /\ s = q \o <<x>>
  BY <1>1, ATLine
<1> HIDE DEF S, x
<1>4. /\ Len(s) = Len(q) + 1 /\ Len(q) \in Nat /\ s[Len(q) + 1] = x
      /\ \A i \in 1 .. Len(q) : s[i] = q[i]
  BY <1>3
<1>5. x \in Range(s) /\ \A i \in 1 .. Len(q) : q[i] \in Range(s)
  <2>1. Len(q) + 1 \in 1 .. Len(s) /\ \A i \in 1 .. Len(q) : i \in 1 .. Len(s)
    BY <1>4
  <2> QED BY <1>2, <1>4, <2>1
<1>6. IsCommand(x) /\ \A i \in 1 .. Len(q) : ~IsCommand(q[i])
  BY <1>1, ATLine DEF x
<1>7. x \in E /\ x \notin G /\ \A i \in DOMAIN q : q[i] \in G /\ q[i] \notin E
  BY <1>3, <1>5, <1>6
<1> HIDE DEF G
<1>8. Those(q \o <<x>>, E) = <<x>> /\ Those(q \o <<x>>, G) = q
  BY ONLY <1>3, <1>7, LastOfSort
<1> QED BY <1>1, <1>3, <1>8 DEF G, x

\* What is left of a reply behind a line is one line shorter.
LEMMA TailOfRest ==
  ASSUME NEW S, NEW L \in Seq(S), NEW k \in 0 .. Len(L) - 1
  PROVE  /\ SubSeq(L, k + 1, Len(L)) # <<>> /\ SubSeq(L, k + 1, Len(L))[1] = L[k + 1]
         /\ Tail(SubSeq(L, k + 1, Len(L))) = SubSeq(L, k + 2, Len(L))
<1> DEFINE u == SubSeq(L, k + 1, Len(L))
           v == SubSeq(L, k + 2, Len(L))
<1>1. Len(L) \in Nat /\ k \in Nat
  OBVIOUS
<1>2. /\ u \in Seq(S) /\ Len(u) = Len(L) - k /\ \A i \in 1 .. Len(L) - k : u[i] = L[k + i]
      /\ v \in Seq(S) /\ Len(v) = Len(L) - k - 1
      /\ \A i \in 1 .. Len(L) - k - 1 : v[i] = L[k + 1 + i]
  OBVIOUS
<1> HIDE DEF u, v
<1>3. u # <<>> /\ u[1] = L[k + 1]
  BY <1>1, <1>2
<1>4. /\ Tail(u) \in Seq(S) /\ Len(Tail(u)) = Len(L) - k - 1
      /\ \A i \in 1 .. Len(L) - k - 1 : Tail(u)[i] = u[i + 1]
  BY <1>1, <1>2, <1>3
<1>5. ASSUME NEW i \in 1 .. Len(L) - k - 1 PROVE Tail(u)[i] = v[i]
  <2>1. i + 1 \in 1 .. Len(L) - k /\ k + (i + 1) = k + 1 + i
    BY <1>1
  <2> QED BY <1>2, <1>4, <2>1
<1>6. Tail(u) = v
  BY <1>2, <1>4, <1>5, SeqEqual
<1> QED BY <1>3, <1>6 DEF u, v

\* The OK that is scanned ends the reply: its other lines are on the stack.
LEMMA PopD ==
  ASSUME NoATTexts, RInv, KInv, DInv, PopAll
  PROVE  DInv'
<1>1. /\ uart_pc = "scan" /\ uart_pc' = "process" /\ chunk # <<>> /\ Head(chunk) = OK
      /\ stack' = <<>>
      /\ UNCHANGED <<wire, chunk, sent, handled, status>>
      /\ chunk \in Seq(Seq(Words)) /\ wire \in Seq(Words) /\ stack \in Seq(Seq(Words))
      /\ status \in {"IQS_OPEN", "IQS_WAITING"}
  BY DEF RInv, RType, DInv, PopAll, Scanning
<1> DEFINE E == {line \in Range(stack) : IsCommand(line)}
           R == RestOf(Tail(chunk), wire)
           S == Seq(Words)
<1>2. /\ Those(stack, E) # <<>> => command' = Last(Those(stack, E))
      /\ buffer_data' = FlattenSeq(Those(stack, Range(stack) \ E))
  BY DEF PopAll
<1>3. Rest = <<OK>> \o R /\ R \in Seq(S) /\ OK \in S
  <2>1. OK # SBDRING
    <3>1. OK[1] = "O" /\ SBDRING[1] = "SBDRING"
      BY DEF OK, SBDRING
    <3> QED BY <3>1
  <2>2. Tail(chunk) \in Seq(S) /\ Head(chunk) \in S
    BY <1>1
  <2> QED BY <1>1, <2>1, <2>2, RestHead, RestIs DEF Rest
<1> HIDE DEF R, S
<1>4. Rest # <<>> /\ Rest[1] = OK /\ Tail(Rest) = R
  BY <1>3
<1>5. status = "IQS_WAITING"
  BY <1>1, <1>4 DEF DInv
<1>6. PICK c \in Commands : \E p \in Payloads(c) : Answering(c, p)
  BY <1>5 DEF DInv
<1>7. PICK p \in Payloads(c) : Answering(c, p)
  BY <1>6
<1> DEFINE L == ReplyFields(c, p)
<1>8. L \in Seq(S) /\ Len(L) \in 2 .. 4 /\ \A i \in 1 .. Len(L) : L[i] = OK => i = Len(L)
  BY ReplyLines, ReplyLinesDiffer DEF S
<1>9. PICK k \in 0 .. Len(L) - 1 :
        /\ Len(stack) = k /\ \A i \in 1 .. k : stack[i] = L[k + 1 - i]
        /\ Rest = SubSeq(L, k + 1, Len(L))
  BY <1>1, <1>7 DEF Answering, Pushed
<1>10. sent[Len(sent)] = Reply(c, p)
  BY <1>7 DEF Answering
<1>11. Len(stack) = Len(L) - 1 /\ \A i \in 1 .. Len(stack) : stack[i] = L[Len(stack) + 1 - i]
  <2>1. L[k + 1] = OK
    BY <1>4, <1>8, <1>9, TailOfRest
  <2>2. k + 1 \in 1 .. Len(L)
    BY <1>8
  <2>3. k + 1 = Len(L)
    BY <1>8, <2>1, <2>2
  <2> QED BY <1>8, <1>9, <2>3
<1>12. Those(stack, E) = <<<<c>>>> /\ FlattenSeq(Those(stack, Range(stack) \ E)) = Data(c, p)
  BY <1>1, <1>11, Popped
<1>13. command' = <<c>> /\ buffer_data' = Data(c, p)
  <2>1. <<<<c>>>> # <<>> /\ Last(<<<<c>>>>) = <<c>>
    BY DEF Last
  <2> HIDE DEF E
  <2> QED BY <1>2, <1>12, <2>1
<1>14. R = <<>>
  <2>1. k + 2 = Len(L) + 1 /\ k = Len(L) - 1
    BY <1>8, <1>9, <1>11
  <2>2. R = SubSeq(L, Len(L) + 1, Len(L))
    BY <1>4, <1>8, <1>9, <2>1, TailOfRest
  <2>3. SubSeq(L, Len(L) + 1, Len(L)) = <<>>
    BY <1>8
  <2> QED BY <2>2, <2>3
<1>15. RestOf(Tail(chunk'), wire') = <<>>
  BY <1>1, <1>14 DEF R
<1>16. Answering(c, p)'
  BY <1>1, <1>10, <1>13 DEF Answering
<1>17. stack' \in Seq(Seq(Words))
  BY <1>1
<1> QED BY <1>1, <1>5, <1>15, <1>16, <1>17 DEF DInv

\* What is processed is the reply outstanding, and nothing of it is left.
LEMMA ProcessD ==
  ASSUME RInv, KInv, DInv, ProcessPlain \/ ProcessSplit \/ ProcessMessage
  PROVE  /\ DInv'
         /\ handled' = Append(handled, Told(sent[Len(sent)]))
         /\ status = "IQS_WAITING" /\ Len(handled) + 1 = Len(sent)
         /\ \E c \in Commands : \E p \in Payloads(c) :
              command = <<c>> /\ buffer_data = Data(c, p) /\ sent[Len(sent)] = Reply(c, p)
<1>1. /\ uart_pc = "process" /\ uart_pc' = "open" /\ chunk' \in {Tail(chunk), <<>>}
      /\ handled' = Append(handled, [command |-> command, data |-> buffer_data])
      /\ UNCHANGED <<wire, stack, command, buffer_data, sent, status>>
  BY DEF ProcessPlain, ProcessSplit, ProcessMessage, Done
<1>2. /\ RType /\ chunk # <<>> /\ status = "IQS_WAITING" /\ Len(handled) + 1 = Len(sent)
      /\ chunk \in Seq(Seq(Words)) /\ wire \in Seq(Words) /\ IsSeq(handled) /\ Len(handled) \in Nat
  BY <1>1 DEF RInv, RType, Nothing, Pending, Handled, Reading
<1>3. PICK c \in Commands : \E p \in Payloads(c) : Answering(c, p)
  BY <1>2 DEF DInv
<1>4. PICK p \in Payloads(c) : Answering(c, p)
  BY <1>3
<1>5. command = <<c>> /\ buffer_data = Data(c, p) /\ sent[Len(sent)] = Reply(c, p)
  BY <1>1, <1>4 DEF Answering
<1>6. Told(sent[Len(sent)]) = [command |-> command, data |-> buffer_data]
  BY <1>5 DEF Told, Reply
<1> DEFINE t == Tail(chunk)
           S == Seq(Words)
           f == Those(Fields(wire, EOL), Lines)
<1>7. Rest' = <<>>
  <2>1. t \in Seq(S)
    BY <1>2
  <2>2. /\ RestOf(t, wire) = Those(t, Lines) \o f /\ RestOf(<<>>, wire) = f
        /\ f \in Seq(S) /\ Those(t, Lines) \in Seq(S)
    BY <1>2, <2>1, RestIs
  <2>3. RestOf(t, wire) = <<>>
    BY <1>1 DEF DInv
  <2> DEFINE g == Those(t, Lines)
  <2>4. g \o f = <<>> /\ g \in Seq(S) /\ f \in Seq(S)
    BY <2>2, <2>3
  <2> HIDE DEF f, g, S
  <2>5. Len(g \o f) = Len(g) + Len(f) /\ Len(g) \in Nat /\ Len(f) \in Nat /\ Len(g \o f) = 0
    BY <2>4
  <2>6. f = <<>>
    BY <2>4, <2>5
  <2> QED BY <1>1, <2>2, <2>3, <2>6 DEF Rest
<1>8. NoRing(chunk')
  <2>1. CASE chunk' = <<>>
    <3>1. DOMAIN chunk' = {}
      BY <2>1
    <3> QED BY <3>1 DEF NoRing
  <2>2. CASE chunk' = Tail(chunk)
    <3>1. \A i \in DOMAIN Tail(chunk) : i + 1 \in DOMAIN chunk /\ Tail(chunk)[i] = chunk[i + 1]
      BY <1>2
    <3>2. chunk = <<SBDRING>> => DOMAIN Tail(chunk) = {}
      OBVIOUS
    <3> QED BY <2>2, <3>1, <3>2 DEF NoRing, DInv
  <2> QED BY <1>1, <2>1, <2>2
<1>9. handled' = Append(handled, Told(sent[Len(sent)]))
  BY <1>1, <1>6
<1>10. \A i \in 1 .. Len(handled') : handled'[i] = Told(sent'[i])
  <2>1. /\ Len(handled') = Len(handled) + 1
        /\ handled'[Len(handled')] = Told(sent[Len(sent)])
        /\ \A i \in 1 .. Len(handled) : handled'[i] = handled[i]
    BY <1>2, <1>9, AppendIsSeq, AppendAt
  <2>2. \A i \in 1 .. Len(handled') : i \in 1 .. Len(handled) \/ i = Len(sent)
    BY <1>2, <2>1
  <2> QED BY <1>1, <1>2, <2>1, <2>2 DEF DInv
<1>11. Answering(c, p)'
  BY <1>1, <1>5 DEF Answering
<1>12. DInv'
  BY <1>1, <1>2, <1>7, <1>8, <1>10, <1>11 DEF DInv
<1> QED BY <1>2, <1>5, <1>9, <1>12

\* A reply that is processed leaves nothing behind when the channel opens.
LEMMA OpenD ==
  ASSUME RInv, KInv, DInv, ProcessAbort \/ UpdateIqsOpen
  PROVE  DInv'
<1>1. CASE ProcessAbort
  <2>1. /\ uart_pc' = "abort" /\ uart_pc = "process"
        /\ UNCHANGED <<wire, chunk, stack, sent, handled, status, command, buffer_data>>
    BY <1>1 DEF ProcessAbort
  <2>2. status = "IQS_WAITING"
    BY <2>1 DEF RInv, Nothing, Reading
  <2>3. \A c \in Commands : \A p \in Payloads(c) : Answering(c, p) => Answering(c, p)'
    BY <2>1 DEF Answering
  <2> QED BY <2>1, <2>2, <2>3 DEF DInv
<1>2. CASE UpdateIqsOpen
  <2>1. /\ uart_pc = "open" /\ uart_pc' = "scan" /\ status' = "IQS_OPEN"
        /\ UNCHANGED <<wire, chunk, stack, sent, handled, command, buffer_data>>
    BY <1>2 DEF UpdateIqsOpen
  <2>2. stack = <<>> /\ Rest = <<>>
    BY <2>1 DEF DInv
  <2>3. Rest' = Rest
    BY <2>1 DEF Rest
  <2> QED BY <2>1, <2>2, <2>3 DEF DInv
<1> QED BY <1>1, <1>2

\* The other tasks leave the reply alone.
LEMMA OtherD ==
  ASSUME DInv, message_satcom_task \/ RingTaskEnds \/ UNCHANGED vars
  PROVE  DInv' /\ UNCHANGED <<wire, chunk, stack, uart_pc, sent, handled, status>>
<1>1. UNCHANGED <<wire, chunk, stack, uart_pc, sent, handled, status, command, buffer_data>>
  BY DEF message_satcom_task, RingTaskEnds, vars, scan
<1>2. Rest' = Rest
  BY <1>1 DEF Rest
<1>3. \A c \in Commands : \A p \in Payloads(c) : Answering(c, p) => Answering(c, p)'
  BY <1>1, <1>2 DEF Answering, Pushed
<1> QED BY <1>1, <1>2, <1>3 DEF DInv

\* A reply outstanding is on the stack and in the lines not yet scanned.
LEMMA DInvariant ==
  ASSUME Orderly, NoATTexts
  PROVE  Spec => [](RInv /\ KInv /\ DInv)
<1>1. ASSUME RInv, KInv, DInv, [Next]_vars PROVE DInv'
  <2>1. CASE \E c \in Commands : \E p \in Payloads(c) : SendCommand(c, p)
    BY <1>1, <2>1, SendD
  <2>2. CASE ModemRing
    BY <1>1, <2>2, RingD
  <2>3. CASE UartData
    BY <1>1, <2>3, ReadD
  <2>4. CASE EndOfChunk \/ PushLine \/ StartRingTask \/ SpinOnError
    BY <1>1, <2>4, ScanD
  <2>5. CASE PopAll
    BY <1>1, <2>5, PopD
  <2>6. CASE ProcessPlain \/ ProcessSplit \/ ProcessMessage
    BY <1>1, <2>6, ProcessD
  <2>7. CASE ProcessAbort \/ UpdateIqsOpen
    BY <1>1, <2>7, OpenD
  <2>8. CASE message_satcom_task \/ RingTaskEnds \/ UNCHANGED vars
    BY <1>1, <2>8, OtherD
  <2>9. ~UartOverflow /\ OneSends
    BY <1>1, OneWriter DEF Orderly, UartOverflow
  <2> QED BY <2>1, <2>2, <2>3, <2>4, <2>5, <2>6, <2>7, <2>8, <2>9
          DEF OneSends, uart_satcom_task
<1>2. Writers = {}
  BY DEF Orderly
<1> QED BY <1>1, <1>2, DInit, RInvariant, KInvariant, PTL DEF Spec

\* What the abstract channel sees of the replies sent.
Bar == [i \in DOMAIN sent |-> [command |-> sent[i].command, data |-> sent[i].data]]
LEMMA BarIs ==
  ASSUME IsSeq(sent)
  PROVE  /\ IsSeq(Bar) /\ Len(Bar) = Len(sent) /\ Len(sent) \in Nat
         /\ \A i \in 1 .. Len(sent) : Bar[i] = Told(sent[i])
<1>1. PICK S : sent \in Seq(S)
  BY DEF IsSeq
<1>2. DOMAIN sent = 1 .. Len(sent) /\ Len(sent) \in Nat
  BY <1>1
<1>3. \A i \in 1 .. Len(sent) : Bar[i] = Told(sent[i])
  BY <1>2 DEF Bar, Told
<1>4. Bar = [i \in 1 .. Len(sent) |-> Told(sent[i])]
  BY <1>2 DEF Bar, Told
<1>5. Bar \in Seq({Told(sent[i]) : i \in 1 .. Len(sent)})
  BY <1>2, <1>4
<1>6. Len(Bar) = Len(sent)
  BY <1>2, <1>4
<1> QED BY <1>2, <1>3, <1>5, <1>6 DEF IsSeq

BarSound == IsSeq(sent) => IsSeq(Bar) /\ Len(Bar) = Len(sent)
                           /\ \A i \in 1 .. Len(sent) : Bar[i] = Told(sent[i])
LEMMA BarAlways == BarSound
  BY BarIs DEF BarSound
LEMMA BarNext ==
  ASSUME IsSeq(sent')
  PROVE  /\ IsSeq(Bar') /\ Len(Bar') = Len(sent')
         /\ \A i \in 1 .. Len(sent') : Bar'[i] = Told(sent'[i])
<1>1. BarSound'
  BY BarAlways, PTL
<1> QED BY <1>1 DEF BarSound

\* Two sequences are the same when they agree everywhere.
LEMMA SameSeq ==
  ASSUME NEW a, NEW b, IsSeq(a), IsSeq(b), Len(a) = Len(b),
         \A i \in 1 .. Len(a) : a[i] = b[i]
  PROVE  a = b
<1>1. PICK A : a \in Seq(A)
  BY DEF IsSeq
<1>2. PICK B : b \in Seq(B)
  BY DEF IsSeq
<1>3. Len(a) \in Nat /\ a = [i \in 1 .. Len(a) |-> a[i]] /\ b = [i \in 1 .. Len(a) |-> b[i]]
  BY <1>1, <1>2
<1>4. [i \in 1 .. Len(a) |-> a[i]] = [i \in 1 .. Len(a) |-> b[i]]
  OBVIOUS
<1> QED BY <1>3, <1>4

\* All replies sent are handled: both lists are the same.
LEMMA AllHandled ==
  ASSUME RInv, DInv, Len(handled) = Len(sent)
  PROVE  handled = Bar
<1>1. IsSeq(sent) /\ IsSeq(handled)
  BY DEF RInv, RType
<1>2. \A i \in 1 .. Len(handled) : handled[i] = Bar[i]
  BY <1>1, BarIs DEF DInv
<1> QED BY <1>1, <1>2, BarIs, SameSeq

\* A command is sent when every reply is handled.
LEMMA SendRefined ==
  ASSUME RInv, DInv, NEW c \in Commands, NEW p \in Payloads(c), SendCommand(c, p)
  PROVE  Channel!Send
<1>1. /\ status = "IQS_OPEN" /\ status' = "IQS_WAITING"
      /\ sent' = Append(sent, Reply(c, p)) /\ UNCHANGED handled
  BY DEF SendCommand, Transmit
<1>2. IsSeq(sent) /\ Len(handled) = Len(sent)
  BY <1>1 DEF RInv, RType, Nothing
<1>3. IsSeq(sent')
  BY <1>1, <1>2, AppendIsSeq
<1>4. IsSeq(Bar') /\ Len(Bar') = Len(sent') /\ \A i \in 1 .. Len(sent') : Bar'[i] = Told(sent'[i])
  BY <1>3, BarNext
<1>5. handled = Bar /\ IsSeq(Bar) /\ Len(Bar) = Len(sent) /\ Len(sent) \in Nat
  BY <1>2, AllHandled, BarIs
<1>6. Len(sent') = Len(sent) + 1 /\ \A i \in 1 .. Len(sent) : sent'[i] = sent[i]
  BY <1>1, <1>2, AppendAt, AppendIsSeq
<1>7. SubSeq(Bar', 1, Len(Bar)) = Bar
  <2>1. PICK S : Bar' \in Seq(S)
    BY <1>4 DEF IsSeq
  <2>2. /\ SubSeq(Bar', 1, Len(Bar)) \in Seq(S) /\ Len(SubSeq(Bar', 1, Len(Bar))) = Len(Bar)
        /\ \A i \in 1 .. Len(Bar) : SubSeq(Bar', 1, Len(Bar))[i] = Bar'[i]
    BY <1>4, <1>5, <1>6, <2>1
  <2>3. \A i \in 1 .. Len(Bar) : Bar'[i] = Bar[i]
    BY <1>2, <1>4, <1>5, <1>6, BarIs
  <2>4. IsSeq(SubSeq(Bar', 1, Len(Bar)))
    BY <2>2 DEF IsSeq
  <2> QED BY <1>5, <2>2, <2>3, <2>4, SameSeq
<1> QED BY <1>1, <1>4, <1>5, <1>6, <1>7 DEF Channel!Send, Bar

\* A reply is processed under its own command, with its own data.
LEMMA ProcessRefined ==
  ASSUME RInv, KInv, DInv, ProcessPlain \/ ProcessSplit \/ ProcessMessage
  PROVE  Channel!Handle
<1>1. /\ handled' = Append(handled, Told(sent[Len(sent)]))
      /\ status = "IQS_WAITING" /\ Len(handled) + 1 = Len(sent)
  BY ProcessD
<1>2. UNCHANGED <<sent, status>> /\ IsSeq(sent) /\ Len(handled) \in Nat
  BY DEF RInv, RType, ProcessPlain, ProcessSplit, ProcessMessage, Done
<1>3. Len(Bar) = Len(sent) /\ Bar[Len(handled) + 1] = Told(sent[Len(sent)])
  BY <1>1, <1>2, BarIs
<1>4. Len(handled) < Len(Bar) /\ handled' = Append(handled, Bar[Len(handled) + 1])
  BY <1>1, <1>2, <1>3
<1> QED BY <1>1, <1>2, <1>4 DEF Channel!Handle, Bar

\* The channel opens when the reply is handled.
LEMMA OpenRefined ==
  ASSUME RInv, DInv, UpdateIqsOpen
  PROVE  Channel!Reopen
<1>1. /\ uart_pc = "open" /\ status' = "IQS_OPEN" /\ UNCHANGED <<sent, handled>>
  BY DEF UpdateIqsOpen
<1>2. status = "IQS_WAITING" /\ Len(handled) = Len(sent)
  BY <1>1 DEF RInv, Nothing, Pending, Handled, Reading
<1>3. handled = Bar
  BY <1>2, AllHandled
<1> QED BY <1>1, <1>2, <1>3 DEF Channel!Reopen, Bar

\* Each reply is processed whole, once, in order and under its own command,
\* and the channel opens again after it (uart_satcom_task, iridium.c:479-577):
\* where events end where lines end, and hold a SBDRING or other lines; without
\* ERROR and overflow; and no data of the modem look like a command.
THEOREM ChannelImplemented ==
  ASSUME Orderly, NoATTexts
  PROVE  Spec => ImplementsChannel
<1>1. Init => Channel!Init
  <2> SUFFICES ASSUME Init PROVE Channel!Init
    OBVIOUS
  <2>1. sent = <<>> /\ handled = <<>> /\ status = "IQS_OPEN"
    BY DEF Init
  <2>2. Bar = <<>>
    BY <2>1 DEF Bar
  <2> QED BY <2>1, <2>2 DEF Channel!Init, Bar
<1>2. ASSUME RInv, KInv, DInv, [Next]_vars PROVE [Channel!Next]_(Channel!vars)
  <2>1. CASE \E c \in Commands : \E p \in Payloads(c) : SendCommand(c, p)
    BY <1>2, <2>1, SendRefined DEF Channel!Next
  <2>2. CASE ProcessPlain \/ ProcessSplit \/ ProcessMessage
    BY <1>2, <2>2, ProcessRefined DEF Channel!Next
  <2>3. CASE UpdateIqsOpen
    BY <1>2, <2>3, OpenRefined DEF Channel!Next
  <2>4. CASE UNCHANGED <<sent, handled, status>>
    BY <2>4 DEF Channel!vars
  <2>5. \/ \E c \in Commands : \E p \in Payloads(c) : SendCommand(c, p)
        \/ ProcessPlain \/ ProcessSplit \/ ProcessMessage \/ UpdateIqsOpen
        \/ UNCHANGED <<sent, handled, status>>
    BY <1>2, OneWriter
       DEF Orderly, OneSends, uart_satcom_task, ModemRing, UartData, UartOverflow, EndOfChunk, PushLine,
                StartRingTask, SpinOnError, PopAll, ProcessAbort, message_satcom_task,
                RingTaskEnds, vars
  <2> QED BY <2>1, <2>2, <2>3, <2>4, <2>5
<1> QED BY <1>1, <1>2, DInvariant, PTL DEF Spec, ImplementsChannel, Channel!Spec

-----------------------------------------------------------------------------
\* Texts without the characters the code splits at. A message may be empty.
PlainTexts ==
  /\ Values \cap {"+", ":", ","} = {}
  /\ Messages \subseteq Seq(Values)

\* The words of a payload.
LEMMA PayloadWords ==
  ASSUME PlainTexts, NEW c \in Commands, NEW p \in Payloads(c)
  PROVE  /\ p \in Seq(Words) /\ (p # <<>> \/ c = "AT+SBDRT")
         /\ \A i \in DOMAIN p : p[i] \in Values /\ p[i] \notin {"+", ":", ","}
<1>1. p \in Seq(Values) /\ (p # <<>> \/ c = "AT+SBDRT")
  <2>1. CASE c = "AT+SBDRT"
    BY <2>1 DEF Payloads, PlainTexts
  <2>2. CASE c # "AT+SBDRT"
    <3>1. PICK v \in Values : p = <<v>>
      BY <2>2 DEF Payloads
    <3> QED BY <3>1
  <2> QED BY <2>1, <2>2
<1>2. Values \in SUBSET Words
  BY DEF Words
<1>3. p \in Seq(Words)
  BY <1>1, <1>2, SeqOfMore
<1>4. \A i \in DOMAIN p : p[i] \in Values
  BY <1>1
<1> QED BY <1>1, <1>3, <1>4 DEF PlainTexts

\* What is behind the colon.
LEMMA BehindColon ==
  ASSUME NEW w \in Words, w # ":", NEW b \in Seq(Words), b # <<>>, \A i \in DOMAIN b : b[i] # ":"
  PROVE  Behind(<<"+", w, ":">> \o b) = {b}
<1> DEFINE C == ":"
           h == <<"+", w>>
           a == Append(h, C)
<1>1. C \in Words /\ "+" \in Words /\ "+" # C
  BY DEF Words
<1>2. h \in Seq(Words) /\ h # <<>> /\ \A i \in DOMAIN h : h[i] # C
  BY <1>1
<1>3. <<"+", w, ":">> = a /\ a \in Seq(Words) /\ a # <<>> /\ a[Len(a)] = C
  BY <1>1, <1>2
<1> HIDE DEF C, h, a
<1>4. Regular(h, C) /\ h[Len(h)] # C /\ Fields(a, C) = <<h>>
  BY <1>1, <1>2, RegularOne, FieldsOne DEF a
<1>5. Regular(a, C)
  BY <1>1, <1>2, <1>4, RegularEnd DEF a
<1>6. \A i \in DOMAIN b : b[i] # C
  BY DEF C
<1>7. Regular(a \o b, C)
  BY <1>1, <1>3, <1>5, <1>6, RegularJoin
<1>8. Fields(a \o b, C) = <<h, b>>
  <2>1. Fields(b, C) = <<b>>
    BY <1>6, FieldsOne
  <2>2. Fields(a \o b, C) = Fields(a, C) \o Fields(b, C)
    BY <1>3, FieldsConcat
  <2> QED BY <1>4, <2>1, <2>2, PairOf
<1>9. Len(<<h, b>>) = 2 /\ <<h, b>>[2] = b
  OBVIOUS
<1>10. Splits(a \o b, C, 2) /\ After(a \o b, C) = b
  BY <1>7, <1>8, <1>9 DEF Splits, After
<1> QED BY <1>3, <1>10 DEF Behind, C

\* What iridium_satcom_process_result finds in the data of a reply.
LEMMA DataSplit ==
  ASSUME PlainTexts, NEW c \in Commands, NEW p \in Payloads(c), p # <<>>
  PROVE  /\ c = "AT+CGMI" => Data(c, p) = p
         /\ c = "AT+CSQ" => Behind(Data(c, p)) = {p}
         /\ c \in Mailbox => Mailboxes(Data(c, p)) = {[i \in 1 .. 6 |-> p]}
         /\ c = "AT+CRIS" => Numbers(Data(c, p)) # {}
         /\ c = "AT+SBDRT" => Splits(Data(c, p), "+", 1) /\ Fields(Data(c, p), "+")[1] = p
<1> DEFINE two == Two(p, ",")
           six == Six(p, ",")
<1>1. /\ p \in Seq(Words) /\ p # <<>> /\ \A i \in DOMAIN p : p[i] \notin {"+", ":", ","}
  BY PayloadWords
<1>2. /\ two \in Seq(Words) /\ Regular(two, ",") /\ Fields(two, ",") = <<p, p>>
      /\ six \in Seq(Words) /\ Regular(six, ",") /\ Fields(six, ",") = [i \in 1 .. 6 |-> p]
  <2> DEFINE D == ","
  <2>1. D \in Words /\ \A i \in DOMAIN p : p[i] # D
    BY <1>1 DEF Words
  <2> HIDE DEF D
  <2>2. p \in Seq(Words) /\ p # <<>>
    BY <1>1
  <2>3. /\ Two(p, D) \in Seq(Words) /\ Regular(Two(p, D), D) /\ Fields(Two(p, D), D) = <<p, p>>
        /\ Six(p, D) \in Seq(Words) /\ Regular(Six(p, D), D)
        /\ Fields(Six(p, D), D) = [i \in 1 .. 6 |-> p]
    BY ONLY <2>1, <2>2, RegularRow
  <2> QED BY <2>3 DEF D
<1>3. two # <<>> /\ six # <<>>
  BY <1>2 DEF Regular
<1> HIDE DEF two, six
<1>4. ASSUME c = "AT+CGMI" PROVE Data(c, p) = p
  <2>1. Data(c, p) = <<>> \o p
    BY <1>4 DEF Data, Header, Body, Mailbox
  <2> QED BY <1>1, <2>1, ConcatEmptySeq
<1>5. /\ "CSQ" \in Words /\ "CSQ" # ":" /\ "SBD" \in Words /\ "SBD" # ":"
      /\ "CRIS" \in Words /\ "CRIS" # ":"
  BY DEF Words
<1>6. \A i \in DOMAIN Body(c, p) : Body(c, p)[i] # ":"
  <2>1. Body(c, p) \in Seq(Values \cup {"+", ","}) /\ ":" \notin Values \cup {"+", ","}
    BY DataWords DEF PlainTexts
  <2> DEFINE b == Body(c, p)
             X == Values \cup {"+", ","}
  <2>2. b \in Seq(X) /\ ":" \notin X
    BY <2>1
  <2> HIDE DEF b, X
  <2>3. \A i \in DOMAIN b : b[i] \in X
    BY <2>2
  <2>4. \A i \in DOMAIN b : b[i] # ":"
    BY <2>2, <2>3
  <2> QED BY <2>4 DEF b
<1>7. ASSUME c = "AT+CSQ" PROVE Behind(Data(c, p)) = {p}
  <2>1. Data(c, p) = <<"+", "CSQ", ":">> \o p /\ Body(c, p) = p
    BY <1>7 DEF Data, Header, Body, Mailbox
  <2> QED BY <1>1, <1>5, <1>6, <2>1, BehindColon
<1>8. ASSUME c \in Mailbox PROVE Mailboxes(Data(c, p)) = {[i \in 1 .. 6 |-> p]}
  <2>1. Data(c, p) = <<"+", "SBD", ":">> \o six /\ Body(c, p) = six
    BY <1>8 DEF Data, Header, Body, Mailbox, six, Six
  <2>2. Behind(Data(c, p)) = {six}
    BY <1>2, <1>3, <1>5, <1>6, <2>1, BehindColon
  <2>3. Numbers(Data(c, p)) = {[i \in 1 .. 6 |-> p]}
    BY <1>2, <2>2 DEF Numbers
  <2>4. Len([i \in 1 .. 6 |-> p]) = 6
    OBVIOUS
  <2> QED BY <2>3, <2>4 DEF Mailboxes
<1>9. ASSUME c = "AT+CRIS" PROVE Numbers(Data(c, p)) # {}
  <2>1. Data(c, p) = <<"+", "CRIS", ":">> \o two /\ Body(c, p) = two
    BY <1>9 DEF Data, Header, Body, Mailbox, two, Two
  <2>2. Behind(Data(c, p)) = {two}
    BY <1>2, <1>3, <1>5, <1>6, <2>1, BehindColon
  <2> QED BY <1>2, <2>2 DEF Numbers
<1>10. ASSUME c = "AT+SBDRT"
       PROVE  Splits(Data(c, p), "+", 1) /\ Fields(Data(c, p), "+")[1] = p
  <2> DEFINE D == "+"
             a == Append(p, D)
             r == <<"SBDRT", ":">>
  <2>1. /\ D \in Words /\ r \in Seq(Words) /\ r # <<>> /\ \A i \in DOMAIN r : r[i] # D
    BY DEF Words
  <2>2. \A i \in DOMAIN p : p[i] # D
    BY <1>1
  <2>3. Data(c, p) = a \o r
    <3>1. Data(c, p) = p \o <<"+", "SBDRT", ":">>
      BY <1>10 DEF Data, Header, Body, Mailbox
    <3>2. <<D>> \in Seq(Words) /\ <<"+", "SBDRT", ":">> = <<D>> \o r
      BY <2>1
    <3>3. a = p \o <<D>>
      BY <1>1, <2>1, AppendIsConcat
    <3> DEFINE e == <<D>>
               x == <<"+", "SBDRT", ":">>
    <3>4. /\ Data(c, p) = p \o x /\ x = e \o r /\ a = p \o e
          /\ p \in Seq(Words) /\ e \in Seq(Words) /\ r \in Seq(Words)
      BY <1>1, <2>1, <3>1, <3>2, <3>3
    <3> HIDE DEF D, r, a, e, x
    <3>5. (p \o e) \o r = p \o (e \o r)
      BY ONLY <3>4, ConcatAssociative, SMTT(15)
    <3> QED BY ONLY <3>4, <3>5
  <2> HIDE DEF D, r
  <2>8. p \in Seq(Words) /\ p # <<>>
    BY <1>1
  <2>4. /\ Regular(a, D) /\ Fields(a, D) = <<p>> /\ a \in Seq(Words) /\ a # <<>> /\ a[Len(a)] = D
    <3>1. Regular(p, D) /\ p[Len(p)] # D
      BY <1>1, <2>2, RegularOne
    <3>2. Regular(a, D)
      BY <2>1, <2>8, <3>1, RegularEnd
    <3>3. Fields(a, D) = <<p>>
      BY <2>1, <2>2, <2>8, FieldsOne
    <3> QED BY <2>1, <2>8, <3>2, <3>3
  <2> HIDE DEF a
  <2>5. Regular(a \o r, D)
    BY <2>1, <2>4, RegularJoin
  <2>6. Fields(a \o r, D) = <<p, r>>
    <3>1. Fields(r, D) = <<r>>
      BY <2>1, FieldsOne
    <3>2. \A x, y \in Seq(Words) : x[Len(x)] = D => Fields(x \o y, D) = Fields(x, D) \o Fields(y, D)
      BY FieldsConcat
    <3>3. Fields(a \o r, D) = Fields(a, D) \o Fields(r, D)
      BY <2>1, <2>4, <3>2
    <3> QED BY <2>4, <3>1, <3>3, PairOf
  <2>7. Len(<<p, r>>) = 2 /\ <<p, r>>[1] = p
    OBVIOUS
  <2> QED BY <2>3, <2>5, <2>6, <2>7 DEF Splits, D
<1> QED BY <1>4, <1>7, <1>8, <1>9, <1>10

\* A message without text is the one payload that is empty, and str_split finds
\* no field in front of the "+" of its header (140).
LEMMA NoText ==
  ASSUME PlainTexts, NEW c \in Commands, NEW p \in Payloads(c), p = <<>>
  PROVE  c = "AT+SBDRT" /\ ~Splits(Data(c, p), "+", 1)
<1>1. c = "AT+SBDRT"
  BY PayloadWords
<1>2. Data(c, p) = <<>> \o <<"+", "SBDRT", ":">>
  BY <1>1 DEF Data, Header, Body, Mailbox
<1>3. Data(c, p)[1] = "+"
  <2>1. <<>> \o <<"+", "SBDRT", ":">> = <<"+", "SBDRT", ":">>
    OBVIOUS
  <2> QED BY <1>2, <2>1
<1> QED BY <1>1, <1>3 DEF Splits, Regular

\* Only a message without text cannot be split as iridium_satcom_process_result
\* expects.
LEMMA AbortStep ==
  ASSUME PlainTexts, RInv, DInv, ProcessAbort
  PROVE  Len(handled) + 1 = Len(sent) /\ Empty(sent[Len(sent)])
<1>1. uart_pc = "process" /\ status = "IQS_WAITING" /\ Len(handled) + 1 = Len(sent)
  BY DEF ProcessAbort, RInv, Nothing, Pending, Handled, Reading
<1>2. PICK c \in Commands : \E p \in Payloads(c) : Answering(c, p)
  BY <1>1 DEF DInv
<1>3. PICK p \in Payloads(c) : Answering(c, p)
  BY <1>2
<1>4. command = <<c>> /\ buffer_data = Data(c, p) /\ sent[Len(sent)] = Reply(c, p)
  BY <1>1, <1>3 DEF Answering
<1>5. /\ CASE command = <<"AT+CSQ">> -> Behind(buffer_data) = {}
          [] Head(command) \in Mailbox -> Mailboxes(buffer_data) = {}
          [] command = <<"AT+CRIS">> -> Numbers(buffer_data) = {}
          [] command = <<"AT+SBDRT">> -> ~Splits(buffer_data, "+", 1)
          [] OTHER -> FALSE
  BY DEF ProcessAbort
<1>6. Head(command) = c /\ \A w : command = <<w>> <=> c = w
  BY <1>4
<1>7. p = <<>>
  <2> SUFFICES ASSUME p # <<>> PROVE FALSE
    OBVIOUS
  <2>1. /\ c = "AT+CSQ" => Behind(Data(c, p)) = {p}
        /\ c \in Mailbox => Mailboxes(Data(c, p)) = {[i \in 1 .. 6 |-> p]}
        /\ c = "AT+CRIS" => Numbers(Data(c, p)) # {}
        /\ c = "AT+SBDRT" => Splits(Data(c, p), "+", 1)
    BY DataSplit
  <2>2. \A x : {x} # {}
    OBVIOUS
  <2>3. /\ c = "AT+CSQ" => Behind(Data(c, p)) # {}
        /\ c \in Mailbox => Mailboxes(Data(c, p)) # {}
    BY <2>1, <2>2
  <2>4. /\ ~("AT+CSQ" \in Mailbox) /\ ~("AT+CRIS" \in Mailbox) /\ ~("AT+SBDRT" \in Mailbox)
    BY DEF Mailbox
  <2>5. c = "AT+CSQ" \/ c \in Mailbox \/ c = "AT+CRIS" \/ c = "AT+SBDRT"
    BY <1>5, <1>6
  <2>6. CASE c = "AT+CSQ"
    BY <1>4, <1>5, <1>6, <2>3, <2>4, <2>6
  <2>7. CASE c \in Mailbox
    BY <1>4, <1>5, <1>6, <2>3, <2>4, <2>7
  <2>8. CASE c = "AT+CRIS"
    BY <1>4, <1>5, <1>6, <2>1, <2>4, <2>8
  <2>9. CASE c = "AT+SBDRT"
    BY <1>4, <1>5, <1>6, <2>1, <2>4, <2>9
  <2> QED BY <2>5, <2>6, <2>7, <2>8, <2>9
<1>8. c = "AT+SBDRT"
  BY <1>7, NoText
<1> QED BY <1>1, <1>4, <1>7, <1>8 DEF Empty, Texted, Reply

\* A reply that is processed has its text.
LEMMA ProcessHasText ==
  ASSUME PlainTexts, RInv, KInv, DInv, ProcessPlain \/ ProcessSplit \/ ProcessMessage
  PROVE  ~Empty(sent[Len(sent)])
<1>1. PICK c \in Commands : \E p \in Payloads(c) :
        command = <<c>> /\ buffer_data = Data(c, p) /\ sent[Len(sent)] = Reply(c, p)
  BY ProcessD
<1>2. PICK p \in Payloads(c) :
        command = <<c>> /\ buffer_data = Data(c, p) /\ sent[Len(sent)] = Reply(c, p)
  BY <1>1
<1>3. sent[Len(sent)].command = <<c>> /\ sent[Len(sent)].payload = p
  BY <1>2 DEF Reply
<1> SUFFICES ASSUME c = "AT+SBDRT", p = <<>> PROVE FALSE
  BY <1>3 DEF Empty, Texted
<1>4. ~Splits(buffer_data, "+", 1)
  BY <1>2, NoText
<1>5. command = <<"AT+SBDRT">> /\ "AT+SBDRT" \notin Mailbox
  BY <1>2 DEF Mailbox
<1> QED BY <1>4, <1>5 DEF ProcessPlain, ProcessSplit, ProcessMessage, Mailbox

\* The one reply that stops the device is that to an AT+SBDRT without text, and
\* it always does: no assertion of str_split fails else, and no field it found is
\* a null pointer, where the channel keeps replies apart and the texts hold
\* nothing the code splits at (iridium_satcom_process_result).
THEOREM OnlyEmptyTextAborts ==
  ASSUME Orderly, NoATTexts, PlainTexts
  PROVE  Spec => []AbortsOnEmptyText
<1>1. Init => AbortsOnEmptyText
  BY DEF Init, AbortsOnEmptyText
<1>2. ASSUME RInv, KInv, DInv, AbortsOnEmptyText, [Next]_vars PROVE AbortsOnEmptyText'
  <2>1. CASE \E c \in Commands : \E p \in Payloads(c) : SendCommand(c, p)
    <3>1. /\ \E r : sent' = Append(sent, r)
          /\ uart_pc' # "abort" /\ UNCHANGED handled
          /\ IsSeq(sent) /\ Len(handled) = Len(sent)
      BY <1>2, <2>1 DEF SendCommand, Transmit, RInv, RType, Nothing, Reading, scan
    <3>2. \A i \in 1 .. Len(sent) : sent'[i] = sent[i]
      BY <3>1, AppendAt
    <3> QED BY <1>2, <3>1, <3>2 DEF AbortsOnEmptyText
  <2>2. CASE ProcessPlain \/ ProcessSplit \/ ProcessMessage
    <3>1. ~Empty(sent[Len(sent)]) /\ uart_pc' # "abort" /\ UNCHANGED sent
      BY <1>2, <2>2, ProcessHasText DEF ProcessPlain, ProcessSplit, ProcessMessage, Done
    <3>2. Len(handled') = Len(handled) + 1 /\ Len(handled) + 1 = Len(sent) /\ Len(handled) \in Nat
      BY <1>2, <2>2, ProcessD, AppendIsSeq DEF RInv, RType
    <3>3. \A i \in 1 .. Len(handled') : i \in 1 .. Len(handled) \/ i = Len(sent)
      BY <3>2
    <3> QED BY <1>2, <3>1, <3>3 DEF AbortsOnEmptyText
  <2>3. CASE ProcessAbort
    BY <1>2, <2>3, AbortStep DEF ProcessAbort, AbortsOnEmptyText
  <2>4. CASE UNCHANGED <<sent, handled>> /\ uart_pc' \in {uart_pc, "receive", "scan", "process", "spin"}
    BY <1>2, <2>4 DEF AbortsOnEmptyText
  <2>5. \/ \E c \in Commands : \E p \in Payloads(c) : SendCommand(c, p)
        \/ ProcessPlain \/ ProcessSplit \/ ProcessMessage \/ ProcessAbort
        \/ UNCHANGED <<sent, handled>> /\ uart_pc' \in {uart_pc, "receive", "scan", "process", "spin"}
    BY <1>2, OneWriter
       DEF Orderly, OneSends, uart_satcom_task, ModemRing, UartData, UartOverflow, EndOfChunk,
           PushLine, StartRingTask, SpinOnError, PopAll, UpdateIqsOpen, message_satcom_task,
           RingTaskEnds, vars, scan
  <2> QED BY <2>1, <2>2, <2>3, <2>4, <2>5
<1> QED BY <1>1, <1>2, DInvariant, PTL DEF Spec

-----------------------------------------------------------------------------
FieldNames == {"identification", "signal_strength", "mailbox"}
\* The field and the texts are those of before, and what is handled is more by
\* the reply that was outstanding.
LatestOf(f, i) ==
  /\ Head(sent[i].command) \in Stores(f)
  /\ \A j \in i + 1 .. Len(handled) : Head(sent[j].command) \notin Stores(f)
FInv ==
  /\ fields = [f \in FieldNames |-> fields[f]]
  /\ \A f \in FieldNames : \A i \in 1 .. Len(handled) :
       LatestOf(f, i) => fields[f] = Held(f, sent[i].payload)

\* What a reply changes in iridium_t, by its command.
LEMMA ProcessStores ==
  ASSUME PlainTexts, fields = [f \in FieldNames |-> fields[f]],
         NEW c \in Commands, NEW p \in Payloads(c), command = <<c>>, buffer_data = Data(c, p),
         ProcessPlain \/ ProcessSplit \/ ProcessMessage
  PROVE  /\ fields' = [f \in FieldNames |-> fields'[f]]
         /\ \A f \in FieldNames :
              fields'[f] = IF c \in Stores(f) THEN Held(f, p) ELSE fields[f]
<1>1. Head(command) = c /\ \A w : command = <<w>> <=> c = w
  OBVIOUS
<1>2. /\ Stores("identification") = {"AT+CGMI"} /\ Stores("signal_strength") = {"AT+CSQ"}
      /\ Stores("mailbox") = {"AT+SBDSX", "AT+SBDIX", "AT+SBDIXA"}
      /\ Mailbox = {"AT+SBDSX", "AT+SBDIX", "AT+SBDIXA"}
  BY DEF Stores, Mailbox
<1>3. /\ Held("identification", p) = p /\ Held("signal_strength", p) = p
      /\ Held("mailbox", p) = [i \in 1 .. 6 |-> p]
  BY DEF Held
<1>4. /\ c = "AT+CGMI" => Data(c, p) = p
      /\ c = "AT+CSQ" => Behind(Data(c, p)) = {p}
      /\ c \in Mailbox => Mailboxes(Data(c, p)) = {[i \in 1 .. 6 |-> p]}
  <2>1. CASE p # <<>>
    BY <2>1, DataSplit
  <2>2. CASE p = <<>>
    BY <2>2, PayloadWords DEF Mailbox
  <2> QED BY <2>1, <2>2
<1>5. \/ c = "AT+CGMI" /\ fields' = [fields EXCEPT !["identification"] = p]
      \/ c = "AT+CSQ" /\ fields' = [fields EXCEPT !["signal_strength"] = p]
      \/ c \in Mailbox /\ fields' = [fields EXCEPT !["mailbox"] = [i \in 1 .. 6 |-> p]]
      \/ c \notin {"AT+CGMI", "AT+CSQ"} \cup Mailbox /\ fields' = fields
  <2>1. CASE ProcessPlain
    BY <1>1, <1>4, <2>1 DEF ProcessPlain
  <2>2. CASE ProcessSplit
    BY <1>1, <1>2, <1>4, <2>2 DEF ProcessSplit
  <2>3. CASE ProcessMessage
    BY <1>1, <1>2, <2>3 DEF ProcessMessage
  <2> QED BY <2>1, <2>2, <2>3
<1>6. ASSUME NEW g \in FieldNames, NEW v, fields' = [fields EXCEPT ![g] = v]
      PROVE  /\ fields' = [f \in FieldNames |-> fields'[f]]
             /\ \A f \in FieldNames : fields'[f] = IF f = g THEN v ELSE fields[f]
  BY <1>6
<1>7. {"identification", "signal_strength", "mailbox"} = FieldNames
  BY DEF FieldNames
<1>8. CASE c = "AT+CGMI" /\ fields' = [fields EXCEPT !["identification"] = p]
  <2>1. \A f \in FieldNames : c \in Stores(f) <=> f = "identification"
    BY <1>2, <1>7, <1>8
  <2> QED BY <1>3, <1>6, <1>7, <1>8, <2>1
<1>9. CASE c = "AT+CSQ" /\ fields' = [fields EXCEPT !["signal_strength"] = p]
  <2>1. \A f \in FieldNames : c \in Stores(f) <=> f = "signal_strength"
    BY <1>2, <1>7, <1>9
  <2> QED BY <1>3, <1>6, <1>7, <1>9, <2>1
<1>10. CASE c \in Mailbox /\ fields' = [fields EXCEPT !["mailbox"] = [i \in 1 .. 6 |-> p]]
  <2>1. \A f \in FieldNames : c \in Stores(f) <=> f = "mailbox"
    BY <1>2, <1>7, <1>10
  <2> QED BY <1>3, <1>6, <1>7, <1>10, <2>1
<1>11. CASE c \notin {"AT+CGMI", "AT+CSQ"} \cup Mailbox /\ fields' = fields
  <2>1. \A f \in FieldNames : c \notin Stores(f)
    BY <1>2, <1>7, <1>11
  <2> QED BY <1>11, <2>1
<1> QED BY <1>5, <1>8, <1>9, <1>10, <1>11

\* What is sent later does not count as handled.
LEMMA SendKeepsFields ==
  ASSUME RInv, FInv, NEW c \in Commands, NEW p \in Payloads(c), SendCommand(c, p)
  PROVE  FInv'
<1>1. /\ sent' = Append(sent, Reply(c, p)) /\ UNCHANGED <<fields, handled>>
      /\ IsSeq(sent) /\ Len(handled) = Len(sent)
  BY DEF SendCommand, Transmit, RInv, RType, Nothing
<1>2. Len(sent) \in Nat /\ \A i \in 1 .. Len(sent) : sent'[i] = sent[i]
  BY <1>1, AppendAt
<1>3. \A i \in 1 .. Len(handled) : \A j \in i + 1 .. Len(handled) : j \in 1 .. Len(sent)
  BY <1>1, <1>2
<1>4. \A f : \A i \in 1 .. Len(handled) : LatestOf(f, i)' => LatestOf(f, i)
  BY <1>1, <1>2, <1>3 DEF LatestOf
<1>5. \A i \in 1 .. Len(handled) : sent'[i].payload = sent[i].payload
  BY <1>1, <1>2
<1> QED BY <1>1, <1>4, <1>5 DEF FInv

\* The last reply handled is the latest one of its command.
LEMMA ProcessKeepsFields ==
  ASSUME PlainTexts, RInv, KInv, DInv, FInv, ProcessPlain \/ ProcessSplit \/ ProcessMessage
  PROVE  FInv'
<1>1. /\ handled' = Append(handled, Told(sent[Len(sent)])) /\ Len(handled) + 1 = Len(sent)
      /\ \E c \in Commands : \E p \in Payloads(c) :
           command = <<c>> /\ buffer_data = Data(c, p) /\ sent[Len(sent)] = Reply(c, p)
  BY ProcessD
<1>2. PICK c \in Commands : \E p \in Payloads(c) :
           command = <<c>> /\ buffer_data = Data(c, p) /\ sent[Len(sent)] = Reply(c, p)
  BY <1>1
<1>3. PICK p \in Payloads(c) :
        command = <<c>> /\ buffer_data = Data(c, p) /\ sent[Len(sent)] = Reply(c, p)
  BY <1>2
<1>4. UNCHANGED sent /\ IsSeq(handled) /\ Len(handled) \in Nat
  BY DEF ProcessPlain, ProcessSplit, ProcessMessage, RInv, RType
<1> DEFINE n == Len(sent)
<1>5. Len(handled') = n /\ n \in Nat \ {0} /\ Len(handled) = n - 1
  BY <1>1, <1>4, AppendIsSeq
<1>6. Head(sent[n].command) = c /\ sent[n].payload = p
  BY <1>3 DEF Reply
<1>7. /\ fields' = [f \in FieldNames |-> fields'[f]]
      /\ \A f \in FieldNames :
           fields'[f] = IF c \in Stores(f) THEN Held(f, p) ELSE fields[f]
  BY <1>3, ProcessStores DEF FInv
<1> SUFFICES ASSUME NEW f \in FieldNames, NEW i \in 1 .. Len(handled'), LatestOf(f, i)'
             PROVE  fields'[f] = Held(f, sent'[i].payload)
  BY <1>7 DEF FInv
<1>8. Head(sent[i].command) \in Stores(f) /\ \A j \in i + 1 .. n : Head(sent[j].command) \notin Stores(f)
  BY <1>4, <1>5 DEF LatestOf
<1> HIDE DEF n
<1>9. CASE i = n
  BY <1>4, <1>6, <1>7, <1>8, <1>9
<1>10. CASE i # n
  <2>1. i \in 1 .. Len(handled) /\ n \in i + 1 .. n
        /\ \A j \in i + 1 .. Len(handled) : j \in i + 1 .. n
    BY <1>5, <1>10
  <2>2. c \notin Stores(f)
    BY <1>6, <1>8, <2>1
  <2>3. LatestOf(f, i)
    BY <1>8, <2>1 DEF LatestOf
  <2>4. fields[f] = Held(f, sent[i].payload)
    BY <2>1, <2>3 DEF FInv
  <2> QED BY <1>4, <1>7, <2>2, <2>4
<1> QED BY <1>9, <1>10

\* The fields of iridium_t hold what the last reply about them said
\* (iridium_satcom_process_result), and no other reply writes into them.
THEOREM FieldsOfLastReply ==
  ASSUME Orderly, NoATTexts, PlainTexts
  PROVE  Spec => []FieldsAreLatest
<1>1. ASSUME Init PROVE FInv
  <2>1. fields = [f \in FieldNames |-> <<>>] /\ Len(handled) = 0
    BY <1>1 DEF Init, FieldNames
  <2> QED BY <2>1 DEF FInv
<1>2. ASSUME RInv, KInv, DInv, FInv, [Next]_vars PROVE FInv'
  <2>1. CASE \E c \in Commands : \E p \in Payloads(c) : SendCommand(c, p)
    BY <1>2, <2>1, SendKeepsFields
  <2>2. CASE ProcessPlain \/ ProcessSplit \/ ProcessMessage
    BY <1>2, <2>2, ProcessKeepsFields
  <2>3. CASE UNCHANGED <<sent, handled, fields>>
    BY <1>2, <2>3 DEF FInv, LatestOf
  <2>4. \/ \E c \in Commands : \E p \in Payloads(c) : SendCommand(c, p)
        \/ ProcessPlain \/ ProcessSplit \/ ProcessMessage
        \/ UNCHANGED <<sent, handled, fields>>
    BY <1>2, OneWriter
       DEF Orderly, OneSends, uart_satcom_task, ModemRing, UartData, UartOverflow, EndOfChunk, PushLine,
                StartRingTask, SpinOnError, PopAll, ProcessAbort, UpdateIqsOpen,
                message_satcom_task, RingTaskEnds, vars
  <2> QED BY <2>1, <2>2, <2>3, <2>4
<1>3. RInv /\ FInv => FieldsAreLatest
  <2> SUFFICES ASSUME RInv, FInv, NEW f \in DOMAIN fields, NEW i \in DOMAIN handled, LatestOf(f, i)
               PROVE  fields[f] = Held(f, sent[i].payload)
    BY DEF FieldsAreLatest, LatestOf
  <2>1. f \in FieldNames
    BY DEF FInv
  <2>2. DOMAIN handled = 1 .. Len(handled)
    <3>1. PICK S : handled \in Seq(S)
      BY DEF RInv, RType, IsSeq
    <3> QED BY <3>1
  <2> QED BY <2>1, <2>2 DEF FInv
<1> QED BY <1>1, <1>2, <1>3, DInvariant, PTL DEF Spec

Lists == Seq(Seq(Words))
TInv ==
  /\ stack \in Lists
  /\ uart_pc \in {"receive", "scan", "process", "open", "spin", "abort"}
  /\ command \in Seq(Words) \cup {Junk} /\ buffer_data \in Seq(Words)
  /\ message_queue \in Lists /\ Len(message_queue) <= MessageQueueSize
  /\ delivered \in Lists /\ dropped \in BOOLEAN
  /\ rings \in 0 .. MaxRings /\ Len(sent) <= MaxCommands

\* The bounds are numbers.
LEMMA Bounds == MessageQueueSize \in Nat \ {0} /\ MaxCommands \in Nat /\ MaxRings \in Nat
  BY ReceiverAssumption

\* At the start there is nothing.
LEMMA TInit == Init => TInv
<1> SUFFICES ASSUME Init PROVE TInv
  OBVIOUS
<1>1. <<>> \in Lists /\ <<>> \in Seq(Words) /\ Len(<<>>) = 0
  BY DEF Lists
<1>2. /\ MessageQueueSize \in Nat /\ MaxCommands \in Nat /\ MaxRings \in Nat
  BY Bounds
<1>3. dropped \in BOOLEAN
  BY DEF Init
<1> QED BY <1>1, <1>2, <1>3 DEF Init, TInv

\* What is popped are lines of the stack.
LEMMA PopTypes ==
  ASSUME TInv, PopAll
  PROVE  TInv'
<1> DEFINE E == {line \in Range(stack) : IsCommand(line)}
           C == Those(stack, E)
           D == Those(stack, Range(stack) \ E)
           S == Seq(Words)
<1>1. /\ uart_pc' = "process" /\ stack' = <<>>
      /\ UNCHANGED <<message_queue, delivered, dropped, rings, sent>>
      /\ command' \in IF C = <<>> THEN {command, Junk} ELSE {Last(C)}
      /\ buffer_data' = FlattenSeq(D)
  BY DEF PopAll, inbox
<1>2. stack \in Seq(S)
  BY DEF TInv, Lists
<1>3. C \in Seq(S) /\ D \in Seq(S)
  BY <1>2, ThoseType
<1> HIDE DEF C, D
<1>4. buffer_data' \in S
  BY <1>1, <1>3, FlattenType
<1>5. command' \in S \cup {Junk}
  <2>1. CASE C = <<>>
    BY <1>1, <2>1 DEF TInv
  <2>2. CASE C # <<>>
    <3>1. C[Len(C)] \in S
      BY <1>3, <2>2
    <3> QED BY <1>1, <2>2, <3>1 DEF Last
  <2> QED BY <2>1, <2>2
<1>6. stack' \in Lists
  BY <1>1 DEF Lists
<1> QED BY <1>1, <1>4, <1>5, <1>6 DEF TInv

\* What goes to message_queue is a field of the data.
LEMMA MessageTypes ==
  ASSUME TInv, ProcessMessage
  PROVE  TInv'
<1> DEFINE m == Fields(buffer_data, "+")[1]
           S == Seq(Words)
<1>1. /\ uart_pc' = "open" /\ UNCHANGED <<stack, command, buffer_data, delivered, rings, sent>>
      /\ Splits(buffer_data, "+", 1)
      /\ \/ Len(message_queue) < MessageQueueSize /\ message_queue' = Append(message_queue, m)
         \/ UNCHANGED message_queue
      /\ dropped' \in BOOLEAN
  BY DEF ProcessMessage, Done, TInv
<1>2. m \in S
  <2>1. Fields(buffer_data, "+") \in Seq(Seq(Words))
    BY FieldsType DEF TInv
  <2>2. Len(Fields(buffer_data, "+")) >= 1
    BY <1>1 DEF Splits
  <2> DEFINE F == Fields(buffer_data, "+")
  <2> HIDE DEF S
  <2>3. F \in Seq(S) /\ Len(F) >= 1
    BY <2>1, <2>2 DEF S
  <2> HIDE DEF F
  <2>4. F[1] \in S
    BY <2>3
  <2> QED BY <2>4 DEF F
<1>3. message_queue \in Seq(S) /\ Len(message_queue) \in Nat /\ MessageQueueSize \in Nat
  BY Bounds DEF TInv, Lists
<1> HIDE DEF m, S
<1>4. Append(message_queue, m) \in Seq(S) /\ Len(Append(message_queue, m)) = Len(message_queue) + 1
  BY <1>2, <1>3
<1>5. message_queue' \in Lists /\ Len(message_queue') <= MessageQueueSize
  <2>1. CASE Len(message_queue) < MessageQueueSize /\ message_queue' = Append(message_queue, m)
    BY <1>3, <1>4, <2>1 DEF Lists, S
  <2>2. CASE UNCHANGED message_queue
    BY <2>2 DEF TInv
  <2> QED BY <1>1, <2>1, <2>2
<1> QED BY <1>1, <1>5 DEF TInv

\* The callback gets what was first in message_queue.
LEMMA DeliveryTypes ==
  ASSUME TInv, message_satcom_task
  PROVE  TInv'
<1> DEFINE S == Seq(Words)
<1>1. /\ message_queue # <<>> /\ delivered' = Append(delivered, Head(message_queue))
      /\ message_queue' = Tail(message_queue)
      /\ UNCHANGED <<stack, uart_pc, command, buffer_data, dropped, rings, sent>>
  BY DEF message_satcom_task, scan
<1>2. message_queue \in Seq(S) /\ delivered \in Seq(S) /\ Len(message_queue) <= MessageQueueSize
      /\ MessageQueueSize \in Nat
  BY Bounds DEF TInv, Lists
<1> HIDE DEF S
<1>3. /\ Head(message_queue) \in S /\ Tail(message_queue) \in Seq(S)
      /\ Len(Tail(message_queue)) <= MessageQueueSize
      /\ Append(delivered, Head(message_queue)) \in Seq(S)
  BY <1>1, <1>2
<1> QED BY <1>1, <1>3 DEF TInv, Lists, S

\* The other steps.
LEMMA StepTypes ==
  ASSUME RType, TInv, [Next]_vars, ~PopAll, ~ProcessMessage, ~message_satcom_task
  PROVE  TInv'
<1>1. CASE \E c \in Commands : \E p \in Payloads(c) :
             SendCommand(c, p) \/ \E w \in Writers : WriteBytes(w, c, p)
  <2>1. /\ Len(sent) < MaxCommands /\ \E r : sent' = Append(sent, r)
        /\ UNCHANGED <<stack, uart_pc, command, buffer_data, message_queue, delivered, dropped,
                       rings>>
    BY <1>1 DEF SendCommand, WriteBytes, Transmit, scan, inbox
  <2>2. Len(sent') = Len(sent) + 1 /\ Len(sent) \in Nat
    BY <2>1, AppendIsSeq DEF RType
  <2>3. Len(sent') <= MaxCommands
    BY <2>1, <2>2, Bounds
  <2> QED BY <2>1, <2>3 DEF TInv
<1>2. CASE ModemRing
  <2>1. /\ rings' \in 0 .. MaxRings
        /\ UNCHANGED <<stack, uart_pc, command, buffer_data, message_queue, delivered, dropped,
                       sent>>
    BY <1>2, Bounds DEF ModemRing, scan, inbox, TInv
  <2> QED BY <2>1 DEF TInv
<1>3. CASE PushLine
  <2> DEFINE S == Seq(Words)
  <2>1. /\ chunk # <<>> /\ stack' = <<Head(chunk)>> \o stack
        /\ UNCHANGED <<uart_pc, command, buffer_data, message_queue, delivered, dropped, rings,
                       sent>>
    BY <1>3 DEF PushLine, Scanning, inbox
  <2>2. chunk \in Seq(S) /\ stack \in Seq(S)
    BY DEF RType, TInv, Lists
  <2> HIDE DEF S
  <2>3. stack' \in Seq(S)
    BY <2>1, <2>2
  <2> QED BY <2>1, <2>3 DEF TInv, Lists, S
<1>4. CASE \/ UartData \/ UartOverflow \/ EndOfChunk \/ StartRingTask \/ SpinOnError
           \/ ProcessPlain \/ ProcessSplit \/ ProcessAbort \/ UpdateIqsOpen
           \/ RingTaskEnds \/ UNCHANGED vars
           \/ \E w \in Writers : CheckStatus(w) \/ UpdateIqsWaiting(w)
  <2>1. /\ UNCHANGED <<stack, command, buffer_data, message_queue, delivered, dropped, rings,
                       sent>>
        /\ uart_pc' \in {"receive", "scan", "process", "open", "spin", "abort"}
    BY <1>4 DEF TInv, UartData, UartOverflow, EndOfChunk, StartRingTask, SpinOnError, ProcessPlain,
                ProcessSplit, Done, ProcessAbort, UpdateIqsOpen, RingTaskEnds, CheckStatus,
                UpdateIqsWaiting, vars, scan, inbox
  <2> QED BY <2>1 DEF TInv
<1> QED BY <1>1, <1>2, <1>3, <1>4 DEF Next, uart_satcom_task

LEMMA TInvariant == Spec => [](WInv /\ TInv)
<1>1. ASSUME WInv, TInv, [Next]_vars PROVE TInv'
  BY <1>1, PopTypes, MessageTypes, DeliveryTypes, StepTypes DEF WInv
<1> QED BY <1>1, TInit, WInvariant, PTL DEF Spec

\* Every variable has its type and message_queue stays within its capacity,
\* whatever the modem sends, wherever the events cut it, and however many tasks
\* write at once.
THEOREM ReceiverTypeCorrect == Spec => []TypeOK
<1>1. WInv /\ TInv /\ RingInv => TypeOK
  <2> SUFFICES ASSUME WInv, TInv, RingInv PROVE TypeOK
    OBVIOUS
  <2> DEFINE W == AT \cup Values \cup {"+", ":", ",", "CSQ", "SBD", "SBDRT", "CRIS", "O", "K",
                                       "SBDRING", "ERROR", "junk", EOL}
  <2>1. Texts = Seq(W) /\ Words \in SUBSET W /\ "junk" \in W
    BY DEF Texts, Words
  <2> HIDE DEF W
  <2>2. Seq(Words) \in SUBSET Texts /\ Junk \in Texts
    <3>1. \A s \in Seq(Words) : s \in Seq(W)
      BY <2>1, SeqOfMore
    <3> QED BY <2>1, <3>1 DEF Junk
  <2>3. Lists \in SUBSET Seq(Texts)
    <3>1. \A s \in Seq(Seq(Words)) : s \in Seq(Texts)
      BY <2>2, SeqOfMore
    <3> QED BY <3>1 DEF Lists
  <2>4. wire \in Seq(Words) /\ chunk \in Lists /\ status \in {"IQS_OPEN", "IQS_WAITING"}
        /\ writers \in [Writers -> {"idle", "write", "set_waiting"}] /\ raced \in BOOLEAN
    BY DEF WInv, RType, Lists
  <2> QED BY <2>2, <2>3, <2>4 DEF TypeOK, TInv, RingInv
<1> QED BY <1>1, TInvariant, RingInvariant, PTL

-----------------------------------------------------------------------------
\* The texts of the SBDRT replies of q, as MessagesInOrder lists them.
Got(q) ==
  LET received == Those(q, {r \in Range(q) : Texted(r)})
  IN  [i \in DOMAIN received |-> received[i].payload]

LEMMA GotGrows ==
  ASSUME NEW W, NEW q \in Seq(W), NEW r \in W
  PROVE  Got(Append(q, r)) = IF Texted(r) THEN Append(Got(q), r.payload) ELSE Got(q)
<1> DEFINE T == {x \in W : Texted(x)}
           X == Those(q, T)
           Of(s) == [i \in DOMAIN s |-> s[i].payload]
<1>1. ASSUME NEW s \in Seq(W) PROVE Got(s) = Of(Those(s, T))
  <2> DEFINE R == {x \in Range(s) : Texted(x)}
  <2>1. \A i \in DOMAIN s : s[i] \in W /\ s[i] \in Range(s)
    BY DEF Range
  <2>2. \A i \in DOMAIN s : s[i] \in R <=> s[i] \in T
    BY <2>1
  <2> HIDE DEF R, T
  <2>3. Those(s, R) = Those(s, T)
    BY <2>2, ThoseSame
  <2> QED BY <2>3 DEF Got, R
<1>2. X \in Seq(W)
  BY ThoseType
<1>3. Append(q, r) \in Seq(W) /\ Append(q, r) = q \o <<r>> /\ <<r>> \in Seq(W)
  BY AppendIsConcat
<1> DEFINE e == <<r>>
           Y == Those(e, T)
<1>4. Y = IF r \in T THEN e ELSE <<>>
  BY ThoseOne
<1>5. Those(Append(q, r), T) = X \o Y
  <2> HIDE DEF T
  <2>1. \A a, b \in Seq(W) : Those(a \o b, T) = Those(a, T) \o Those(b, T)
    BY ThoseConcat
  <2> QED BY <1>3, <2>1
<1>6. r \in T <=> Texted(r)
  OBVIOUS
<1>8. Got(Append(q, r)) = Of(X \o Y) /\ Got(q) = Of(X)
  BY <1>1, <1>3, <1>5
<1> HIDE DEF X, Y, T
<1>7. Of(Append(X, r)) = Append(Of(X), r.payload)
  BY <1>2
<1>9. X \o e = Append(X, r) /\ X \o <<>> = X
  BY <1>2, AppendIsConcat, ConcatEmptySeq
<1> HIDE DEF e
<1>10. CASE Texted(r)
  BY <1>4, <1>6, <1>7, <1>8, <1>9, <1>10
<1>11. CASE ~Texted(r)
  BY <1>4, <1>6, <1>8, <1>9, <1>11
<1> QED BY <1>10, <1>11

\* The replies that are processed.
Answered == SubSeq(sent, 1, Len(handled))
MInv == ~dropped => delivered \o message_queue = Got(Answered)

\* What is sent later is not among them.
LEMMA SendKeepsMessages ==
  ASSUME RInv, MInv, NEW c \in Commands, NEW p \in Payloads(c), SendCommand(c, p)
  PROVE  MInv'
<1>1. /\ sent' = Append(sent, Reply(c, p)) /\ UNCHANGED <<message_queue, delivered, dropped, handled>>
      /\ IsSeq(sent) /\ Len(handled) = Len(sent)
  BY DEF SendCommand, Transmit, RInv, RType, Nothing, inbox
<1>2. PICK S : sent \in Seq(S)
  BY <1>1 DEF IsSeq
<1>3. SubSeq(sent', 1, Len(sent)) = SubSeq(sent, 1, Len(sent))
  BY <1>1, <1>2
<1>4. Answered' = Answered
  BY <1>1, <1>3 DEF Answered
<1> QED BY <1>1, <1>4 DEF MInv

\* A reply that is processed is the next one, and the text of a SBDRT reply goes
\* to the end of message_queue.
LEMMA ProcessKeepsMessages ==
  ASSUME PlainTexts, RInv, KInv, DInv, TInv, MInv,
         ProcessPlain \/ ProcessSplit \/ ProcessMessage
  PROVE  MInv'
<1>1. /\ handled' = Append(handled, Told(sent[Len(sent)])) /\ Len(handled) + 1 = Len(sent)
      /\ \E c \in Commands : \E p \in Payloads(c) :
           command = <<c>> /\ buffer_data = Data(c, p) /\ sent[Len(sent)] = Reply(c, p)
  BY ProcessD
<1>2. PICK c \in Commands : \E p \in Payloads(c) :
           command = <<c>> /\ buffer_data = Data(c, p) /\ sent[Len(sent)] = Reply(c, p)
  BY <1>1
<1>3. PICK p \in Payloads(c) :
        command = <<c>> /\ buffer_data = Data(c, p) /\ sent[Len(sent)] = Reply(c, p)
  BY <1>2
<1> DEFINE n == Len(sent)
<1>4. /\ UNCHANGED <<sent, delivered>> /\ IsSeq(handled) /\ IsSeq(sent) /\ Len(handled) \in Nat
      /\ n \in Nat
  BY DEF ProcessPlain, ProcessSplit, ProcessMessage, RInv, RType, inbox
<1>5. Len(handled') = n /\ Len(handled) = n - 1 /\ n \in Nat \ {0}
  BY <1>1, <1>4, AppendIsSeq
<1>6. Texted(sent[n]) <=> c = "AT+SBDRT"
  BY <1>3 DEF Texted, Reply
<1>7. sent[n].payload = p
  BY <1>3 DEF Reply
<1>8. PICK S : sent \in Seq(S)
  BY <1>4 DEF IsSeq
<1>9. /\ Answered \in Seq(S) /\ sent[n] \in S /\ Answered' = Append(Answered, sent[n])
  <2>1. SubSeq(sent, 1, n - 1) \in Seq(S) /\ sent[n] \in S
        /\ SubSeq(sent, 1, n) = Append(SubSeq(sent, 1, n - 1), sent[n])
    BY <1>5, <1>8
  <2> QED BY <1>4, <1>5, <2>1 DEF Answered
<1>10. Got(Answered') = IF c = "AT+SBDRT" THEN Append(Got(Answered), p) ELSE Got(Answered)
  BY <1>6, <1>7, <1>9, GotGrows
<1> HIDE DEF n
<1>11. c = "AT+SBDRT" <=> ProcessMessage
  BY <1>3 DEF ProcessPlain, ProcessSplit, ProcessMessage, Mailbox
<1>12. CASE ProcessMessage
  <2>1. dropped' \/ (message_queue' = Append(message_queue, p) /\ UNCHANGED dropped)
    <3>1. p # <<>>
      BY <1>3, <1>12, NoText DEF ProcessMessage
    <3>2. Fields(buffer_data, "+")[1] = p
      BY <1>3, <1>11, <1>12, <3>1, DataSplit
    <3> QED BY <1>12, <3>2 DEF ProcessMessage
  <2>2. delivered \o Append(message_queue, p) = Append(delivered \o message_queue, p)
    <3> DEFINE L == Seq(Words)
    <3>1. delivered \in Seq(L) /\ message_queue \in Seq(L) /\ p \in L
      BY PayloadWords DEF TInv, Lists
    <3> HIDE DEF L
    <3> QED BY <3>1
  <2> QED BY <1>4, <1>10, <1>11, <1>12, <2>1, <2>2 DEF MInv
<1>13. CASE ~ProcessMessage
  <2>1. UNCHANGED <<message_queue, dropped>>
    BY <1>13 DEF ProcessPlain, ProcessSplit, inbox
  <2> QED BY <1>4, <1>10, <1>11, <1>13, <2>1 DEF MInv
<1> QED BY <1>12, <1>13

\* The callback takes the first text and leaves the order as it is.
LEMMA DeliveryKeepsMessages ==
  ASSUME TInv, MInv, message_satcom_task
  PROVE  MInv'
<1> DEFINE L == Seq(Words)
<1>1. /\ message_queue # <<>> /\ delivered' = Append(delivered, Head(message_queue))
      /\ message_queue' = Tail(message_queue) /\ UNCHANGED <<sent, handled, dropped>>
  BY DEF message_satcom_task
<1>2. delivered \in Seq(L) /\ message_queue \in Seq(L)
  BY DEF TInv, Lists
<1> HIDE DEF L
<1>3. Append(delivered, Head(message_queue)) \o Tail(message_queue) = delivered \o message_queue
  BY <1>1, <1>2
<1>4. Answered' = Answered
  BY <1>1 DEF Answered
<1> QED BY <1>1, <1>3, <1>4 DEF MInv

LEMMA MessagesKept ==
  ASSUME Writers = {}, PlainTexts, RInv, KInv, DInv, TInv, MInv, [Next]_vars
  PROVE  MInv'
<1>1. CASE \E c \in Commands : \E p \in Payloads(c) : SendCommand(c, p)
  BY <1>1, SendKeepsMessages
<1>2. CASE ProcessPlain \/ ProcessSplit \/ ProcessMessage
  BY <1>2, ProcessKeepsMessages
<1>3. CASE message_satcom_task
  BY <1>3, DeliveryKeepsMessages
<1>4. CASE UNCHANGED <<sent, handled, delivered, message_queue, dropped>>
  BY <1>4 DEF MInv, Answered
<1>5. \/ \E c \in Commands : \E p \in Payloads(c) : SendCommand(c, p)
      \/ ProcessPlain \/ ProcessSplit \/ ProcessMessage \/ message_satcom_task
      \/ UNCHANGED <<sent, handled, delivered, message_queue, dropped>>
  BY OneWriter
     DEF OneSends, uart_satcom_task, ModemRing, UartData, UartOverflow, EndOfChunk, PushLine,
         StartRingTask, SpinOnError, PopAll, ProcessAbort, UpdateIqsOpen, RingTaskEnds,
         vars, inbox
<1> QED BY <1>1, <1>2, <1>3, <1>4, <1>5

LEMMA MessagesStart == Init => MInv
<1> SUFFICES ASSUME Init PROVE MInv
  OBVIOUS
<1>1. delivered = <<>> /\ message_queue = <<>> /\ sent = <<>> /\ handled = <<>>
  BY DEF Init
<1>2. Answered = <<>>
  BY <1>1 DEF Answered
<1>3. Got(<<>>) = <<>>
  <2> DEFINE R == {r \in Range(<<>>) : Texted(r)}
             e == <<>>
  <2>1. e \in Seq(Nat) /\ Len(e) = 0 /\ DOMAIN e = 1 .. Len(e)
    OBVIOUS
  <2> HIDE DEF R, e
  <2>2. \A i \in DOMAIN e : e[i] \notin R
    BY <2>1
  <2>3. Those(e, R) = <<>>
    BY <2>1, <2>2, ThoseNone
  <2>4. Got(<<>>) = [i \in DOMAIN Those(e, R) |-> Those(e, R)[i].payload]
    BY DEF Got, R, e
  <2>5. \A f : [i \in DOMAIN <<>> |-> f[i].payload] = <<>>
    OBVIOUS
  <2> QED BY <2>3, <2>4, <2>5
<1> QED BY <1>1, <1>2, <1>3 DEF MInv

\* message_callback gets the text of every SBDRT reply, once and in order, until
\* one finds message_queue full (xQueueSend in iridium_satcom_process_result,
\* message_satcom_task).
THEOREM MessagesDelivered ==
  ASSUME Orderly, NoATTexts, PlainTexts
  PROVE  Spec => []MessagesInOrder
<1>1. ASSUME RInv, KInv, DInv, TInv, MInv, [Next]_vars PROVE MInv'
  BY <1>1, MessagesKept DEF Orderly
<1>2. MInv => MessagesInOrder
  BY DEF MInv, MessagesInOrder, Got, Answered
<1> QED BY <1>1, <1>2, MessagesStart, DInvariant, TInvariant, PTL DEF Spec

\* message_queue holds no more texts than replies were processed.
RoomInv == ~dropped /\ Len(message_queue) <= Len(handled)
LEMMA RoomKept ==
  ASSUME Writers = {}, MaxCommands <= MessageQueueSize, RInv, TInv, RoomInv, [Next]_vars
  PROVE  RoomInv'
<1> DEFINE L == Seq(Words)
<1>1. message_queue \in Seq(L) /\ Len(handled) \in Nat /\ IsSeq(handled)
  BY DEF TInv, Lists, RInv, RType
<1> HIDE DEF L
<1>2. Len(message_queue) \in Nat
  BY <1>1
<1>3. CASE ProcessPlain \/ ProcessSplit \/ ProcessMessage
  <2>4. ~dropped'
    <3>1. CASE ProcessMessage
      <4>1. uart_pc = "process"
        BY <3>1 DEF ProcessMessage
      <4>2. Len(handled) + 1 = Len(sent) /\ Len(sent) \in Nat
        BY <4>1 DEF RInv, RType, Nothing, Pending, Handled, Reading
      <4>3. Len(message_queue) # MessageQueueSize
        BY <1>1, <1>2, <4>2, Bounds DEF RoomInv, TInv
      <4> QED BY <3>1, <4>3 DEF ProcessMessage, RoomInv
    <3>2. CASE ~ProcessMessage
      BY <1>3, <3>2 DEF ProcessPlain, ProcessSplit, inbox, RoomInv
    <3> QED BY <3>1, <3>2
  <2>1. /\ \E r : handled' = Append(handled, r)
        /\ \/ UNCHANGED message_queue
           \/ \E m : message_queue' = Append(message_queue, m)
    BY <1>3 DEF ProcessPlain, ProcessSplit, ProcessMessage, Done, inbox
  <2>2. Len(handled') = Len(handled) + 1
    BY <1>1, <2>1, AppendIsSeq
  <2>3. Len(message_queue') \in {Len(message_queue), Len(message_queue) + 1}
    BY <1>1, <2>1, AppendIsSeq DEF IsSeq
  <2> QED BY <1>1, <1>2, <2>2, <2>3, <2>4 DEF RoomInv
<1>4. CASE message_satcom_task
  <2>1. /\ message_queue # <<>> /\ message_queue' = Tail(message_queue)
        /\ UNCHANGED <<handled, dropped>>
    BY <1>4 DEF message_satcom_task
  <2>2. Len(message_queue') = Len(message_queue) - 1
    BY <1>1, <2>1
  <2> QED BY <1>1, <1>2, <2>1, <2>2 DEF RoomInv
<1>5. CASE UNCHANGED <<message_queue, handled, dropped>>
  BY <1>5 DEF RoomInv
<1>6. \/ ProcessPlain \/ ProcessSplit \/ ProcessMessage \/ message_satcom_task
      \/ UNCHANGED <<message_queue, handled, dropped>>
  BY OneWriter
     DEF OneSends, uart_satcom_task, SendCommand, ModemRing, UartData, UartOverflow, EndOfChunk,
         PushLine, StartRingTask, SpinOnError, PopAll, ProcessAbort, UpdateIqsOpen,
         RingTaskEnds, vars, inbox
<1> QED BY <1>3, <1>4, <1>5, <1>6

\* It has room for each text when no more commands are sent than it holds: nothing
\* is dropped, however late message_satcom_task runs.
THEOREM FewMessagesDelivered ==
  ASSUME Orderly, NoATTexts, PlainTexts, MaxCommands <= MessageQueueSize
  PROVE  Spec => [](~dropped /\ MessagesInOrder)
<1>1. Init => RoomInv
  BY DEF Init, RoomInv
<1>2. Writers = {}
  BY DEF Orderly
<1>3. ASSUME RInv, TInv, RoomInv, [Next]_vars PROVE RoomInv'
  BY <1>2, <1>3, RoomKept
<1>4. Spec => []RoomInv
  BY <1>1, <1>2, <1>3, RInvariant, TInvariant, PTL DEF Spec
<1>5. RoomInv => ~dropped
  BY DEF RoomInv
<1> QED BY <1>4, <1>5, MessagesDelivered, PTL
=============================================================================

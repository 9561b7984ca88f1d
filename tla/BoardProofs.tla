---------------------------- MODULE BoardProofs ----------------------------
(***************************************************************************)
(* The board's tools, as Board runs them.  The UART: for every frame       *)
(* length, any bytes the host sends, as many and as close as it likes.     *)
(* The bring-up tool and the benchmark parser: for captures and reports of *)
(* any length, and whatever was lost or spoiled of them.                   *)
(***************************************************************************)
EXTENDS Board, FiniteSets, FiniteSetTheorems, SequenceTheorems, TLAPS

-----------------------------------------------------------------------------
(* OneUart: a step of the board with its UART is a step of Uart.           *)
LEMMA OneUart ==
  ASSUME [BoardNext]_boardVars
  PROVE  /\ part' = part
         /\ part = "uart" => [W!Next]_(W!vars)
BY DEF BoardNext, OnlyBringup, OnlyUart, OnlyBench, boardVars, uartVars, W!vars
-----------------------------------------------------------------------------
(* The UART.                                                               *)

Places == {"head", "stat", "echo=", "rx", "value", "consume", "overrun",
           "clear", "tail"}

WireType ==
  /\ tx \in [busy : 0 .. TxCycles, data : W!Prints \cup {W!None}]
  /\ rx \in [data : Bytes \cup {W!None}, valid : BOOLEAN, overrun : BOOLEAN]
  /\ prog \in [at : Places, polled : BOOLEAN, valid : BOOLEAN,
               overrun : BOOLEAN, got : Bytes \cup {W!None}]

\* The transmitter stays ready from the poll to the store.
PolledReady == prog.polled => tx.busy = 0

\* From the read of STAT to the acknowledge the receiver holds the byte that
\* the program has seen.
Holding ==
  /\ prog.at \in {"echo=", "rx", "value", "consume"} /\ prog.valid => rx.valid
  /\ prog.at \in {"rx", "consume"} => prog.valid
  /\ prog.at = "value" /\ prog.valid => prog.got = rx.data

WireInv ==
  WireType /\ PolledReady /\ W!PrintedIsSent /\ Holding /\ W!BytesAccounted

(* NextPlace: where the program goes from each place.                      *)
LEMMA NextPlace ==
  /\ prog.at = "head"    => W!Following = "stat"
  /\ prog.at = "stat"    => W!Following = "echo="
  /\ prog.at = "echo="   => W!Following = IF prog.valid THEN "rx" ELSE "value"
  /\ prog.at = "rx"      => W!Following = "value"
  /\ prog.at = "value"   => W!Following = IF prog.valid THEN "consume"
                                          ELSE IF prog.overrun THEN "overrun" ELSE "tail"
  /\ prog.at = "consume" => W!Following = IF prog.overrun THEN "overrun" ELSE "tail"
  /\ prog.at = "overrun" => W!Following = "clear"
  /\ prog.at = "clear"   => W!Following = "tail"
  /\ prog.at = "tail"    => W!Following = "head"
<1>1. prog.at = "head"    => W!Following = "stat"  BY DEF W!Following
<1>2. prog.at = "stat"    => W!Following = "echo="  BY DEF W!Following
<1>3. prog.at = "echo="   => W!Following = IF prog.valid THEN "rx" ELSE "value"
  BY DEF W!Following, W!AfterEcho
<1>4. prog.at = "rx"      => W!Following = "value"  BY DEF W!Following
<1>5. prog.at = "value"   => W!Following = IF prog.valid THEN "consume"
                               ELSE IF prog.overrun THEN "overrun" ELSE "tail"
  BY DEF W!Following, W!AfterByte
<1>6. prog.at = "consume" => W!Following = IF prog.overrun THEN "overrun" ELSE "tail"
  BY DEF W!Following, W!AfterByte
<1>7. prog.at = "overrun" => W!Following = "clear"  BY DEF W!Following
<1>8. prog.at = "clear"   => W!Following = "tail"  BY DEF W!Following
<1>9. prog.at = "tail"    => W!Following = "head"  BY DEF W!Following
<1> QED  BY <1>1, <1>2, <1>3, <1>4, <1>5, <1>6, <1>7, <1>8, <1>9

(* ProgGoes: what an access makes of the program.                          *)
LEMMA ProgGoes ==
  ASSUME WireInv, NEW access \in W!Accesses, W!ProgStep(access)
  PROVE  /\ prog'.at \in Places /\ prog'.polled \in BOOLEAN
         /\ prog'.valid \in BOOLEAN /\ prog'.overrun \in BOOLEAN
         /\ prog'.got \in Bytes \cup {W!None}
         /\ prog' = [at |-> prog'.at, polled |-> prog'.polled,
                     valid |-> prog'.valid, overrun |-> prog'.overrun,
                     got |-> prog'.got]
         /\ \/ /\ access \in {"poll", "none"} /\ prog'.at = prog.at
               /\ prog'.polled => prog.polled \/ tx.busy = 0
               /\ (prog'.valid <=> prog.valid) /\ prog'.got = prog.got
            \/ /\ access = prog.at /\ prog'.at = W!Following
               /\ ~prog'.polled
               /\ access \in W!Prints => prog.polled
               /\ access = "stat" => (prog'.valid <=> rx.valid)
               /\ access # "stat" => (prog'.valid <=> prog.valid)
               /\ access = "rx" => prog'.got = rx.data
               /\ access \notin {"rx", "tail"} => prog'.got = prog.got
<1>1. /\ prog.at \in Places /\ prog.polled \in BOOLEAN
      /\ prog.valid \in BOOLEAN /\ prog.overrun \in BOOLEAN
      /\ prog.got \in Bytes \cup {W!None}
      /\ prog = [at |-> prog.at, polled |-> prog.polled, valid |-> prog.valid,
                 overrun |-> prog.overrun, got |-> prog.got]
      /\ rx.valid \in BOOLEAN /\ rx.overrun \in BOOLEAN
      /\ rx.data \in Bytes \cup {W!None}
  BY DEF WireInv, WireType
<1>2. W!Following \in Places
  <2>1. prog.at \in Places  BY <1>1
  <2> QED  BY <2>1, NextPlace DEF Places
<1> DEFINE f == W!Following
           go == W!Goto(f)
<1> HIDE DEF f
<1>3. go = [at |-> f, polled |-> FALSE, valid |-> prog.valid,
            overrun |-> prog.overrun, got |-> prog.got]
  <2> DEFINE there == [prog EXCEPT !.at = f]
  <2>1. go = [there EXCEPT !.polled = FALSE]  BY DEF W!Goto
  <2>2. there = [at |-> f, polled |-> prog.polled, valid |-> prog.valid,
                 overrun |-> prog.overrun, got |-> prog.got]
    BY <1>1
  <2> HIDE DEF there, go
  <2> QED  BY <2>1, <2>2
<1>9. \/ access = "poll" /\ prog' = [prog EXCEPT !.polled = W!TxReady]
      \/ access = "none" /\ prog' = prog
      \/ /\ access = "stat" /\ prog.at = "stat"
         /\ prog' = [go EXCEPT !.valid = rx.valid, !.overrun = rx.overrun]
      \/ /\ access = "rx" /\ prog.at = "rx"
         /\ prog' = [go EXCEPT !.got = rx.data]
      \/ /\ access = prog.at
         /\ prog.at \in W!Writes \/ (prog.at \in W!Prints /\ prog.polled)
         /\ prog' = [go EXCEPT
                       !.got = IF access = "tail" THEN W!None ELSE @]
  BY DEF W!ProgStep, W!Idle, f, go
<1> HIDE DEF go
<1>4. CASE access = "poll" /\ prog' = [prog EXCEPT !.polled = W!TxReady]
  <2>1. prog' = [at |-> prog.at, polled |-> W!TxReady, valid |-> prog.valid,
                 overrun |-> prog.overrun, got |-> prog.got]
    BY <1>1, <1>4
  <2> QED  BY <1>1, <1>4, <2>1 DEF W!TxReady, W!Ready
<1>5. CASE access = "none" /\ prog' = prog
  BY <1>1, <1>5
<1>6. CASE /\ access = "stat" /\ prog.at = "stat"
           /\ prog' = [go EXCEPT !.valid = rx.valid, !.overrun = rx.overrun]
  <2>1. prog' = [at |-> f, polled |-> FALSE, valid |-> rx.valid,
                 overrun |-> rx.overrun, got |-> prog.got]
    <3> DEFINE seen == [go EXCEPT !.valid = rx.valid]
    <3>1. prog' = [seen EXCEPT !.overrun = rx.overrun]  BY <1>6
    <3>2. seen = [go EXCEPT !.valid = rx.valid]  OBVIOUS
    <3> HIDE DEF seen
    <3>3. seen = [at |-> f, polled |-> FALSE, valid |-> rx.valid,
                  overrun |-> prog.overrun, got |-> prog.got]
      BY <1>3, <3>2
    <3> QED  BY <3>1, <3>3
  <2>2. access \notin W!Prints  BY <1>6 DEF W!Prints
  <2>3. prog' = [at |-> prog'.at, polled |-> prog'.polled,
           valid |-> prog'.valid, overrun |-> prog'.overrun,
           got |-> prog'.got]
    BY <2>1
  <2>4. /\ prog'.at = f /\ prog'.polled = FALSE /\ prog'.valid = rx.valid
        /\ prog'.overrun = rx.overrun /\ prog'.got = prog.got
    BY <2>1
  <2> QED  BY <1>1, <1>2, <1>6, <2>2, <2>3, <2>4 DEF f
<1>7. CASE /\ access = "rx" /\ prog.at = "rx"
           /\ prog' = [go EXCEPT !.got = rx.data]
  <2>1. prog' = [at |-> f, polled |-> FALSE, valid |-> prog.valid,
                 overrun |-> prog.overrun, got |-> rx.data]
    BY <1>3, <1>7
  <2>2. access \notin W!Prints  BY <1>7 DEF W!Prints
  <2>3. prog' = [at |-> prog'.at, polled |-> prog'.polled,
           valid |-> prog'.valid, overrun |-> prog'.overrun,
           got |-> prog'.got]
    BY <2>1
  <2>4. /\ prog'.at = f /\ prog'.polled = FALSE /\ prog'.valid = prog.valid
        /\ prog'.overrun = prog.overrun /\ prog'.got = rx.data
    BY <2>1
  <2> QED  BY <1>1, <1>2, <1>7, <2>2, <2>3, <2>4 DEF f
<1>8. CASE /\ access = prog.at
           /\ prog.at \in W!Writes \/ (prog.at \in W!Prints /\ prog.polled)
           /\ prog' = [go EXCEPT
                         !.got = IF access = "tail" THEN W!None ELSE @]
  <2>1. prog' = [at |-> f, polled |-> FALSE, valid |-> prog.valid,
                 overrun |-> prog.overrun,
                 got |-> IF access = "tail" THEN W!None ELSE prog.got]
    BY <1>3, <1>8
  <2>2. access # "stat" /\ access # "rx"
    BY <1>8 DEF W!Writes, W!Prints
  <2>3. access \in W!Prints => prog.polled
    BY <1>8 DEF W!Writes, W!Prints
  <2>4. prog' = [at |-> prog'.at, polled |-> prog'.polled,
           valid |-> prog'.valid, overrun |-> prog'.overrun,
           got |-> prog'.got]
    BY <2>1
  <2>5. /\ prog'.at = f /\ prog'.polled = FALSE /\ prog'.valid = prog.valid
        /\ prog'.overrun = prog.overrun
        /\ prog'.got = IF access = "tail" THEN W!None ELSE prog.got
    BY <2>1
  <2> QED  BY <1>1, <1>2, <1>8, <2>2, <2>3, <2>4, <2>5 DEF f
<1> QED  BY <1>4, <1>5, <1>6, <1>7, <1>8, <1>9

(* ReceiverGoes: what an access and a byte make of the receiver.           *)
LEMMA ReceiverGoes ==
  ASSUME WireInv, NEW access \in W!Accesses,
         NEW byte \in Bytes \cup {W!None}, W!RxEdge(access, byte)
  PROVE  /\ rx' \in [data : Bytes \cup {W!None}, valid : BOOLEAN,
                     overrun : BOOLEAN]
         /\ rx.valid /\ access # "consume" => rx'.valid /\ rx'.data = rx.data
         /\ ~rx.valid \/ access = "consume" =>
              /\ W!Keep(access)
              /\ byte # W!None => rx'.valid /\ rx'.data = byte
              /\ byte = W!None => ~rx'.valid
         /\ W!Keep(access) <=> ~rx.valid \/ access = "consume"
         /\ rx'.overrun <=> \/ rx.overrun /\ access # "clear"
                            \/ byte # W!None /\ ~W!Keep(access)
<1>1. rx.valid \in BOOLEAN /\ rx.overrun \in BOOLEAN
      /\ rx.data \in Bytes \cup {W!None}
  BY DEF WireInv, WireType
<1> DEFINE k == W!Keep(access)
           d == IF byte # W!None /\ k THEN byte ELSE rx.data
           v == W!ValidNext(access, byte)
           o == W!OverrunNext(access, byte)
<1>2. k <=> ~rx.valid \/ access = "consume"
  BY <1>1 DEF W!Keep, W!AckOf
<1>3. v <=> (rx.valid /\ access # "consume") \/ (byte # W!None /\ k)
  BY DEF W!ValidNext, W!AckOf
<1>4. o <=> (rx.overrun /\ access # "clear") \/ (byte # W!None /\ ~k)
  BY DEF W!OverrunNext, W!ClrOf
<1>5. v \in BOOLEAN /\ o \in BOOLEAN
  BY DEF W!ValidNext, W!OverrunNext
<1>6. rx' = [data |-> d, valid |-> v, overrun |-> o]  BY DEF W!RxEdge
<1>7. d \in Bytes \cup {W!None}  BY <1>1
<1> HIDE DEF k, d, v, o
<1>8. rx'.data = d /\ rx'.valid = v /\ rx'.overrun = o  BY <1>6
<1>9. rx' \in [data : Bytes \cup {W!None}, valid : BOOLEAN, overrun : BOOLEAN]
  BY <1>5, <1>6, <1>7
<1> QED  BY <1>1, <1>2, <1>3, <1>4, <1>5, <1>8, <1>9 DEF d, k

(* LineGoes: what an access makes of the transmitter; a character that is  *)
(* stored when it is ready is the one it sends next.                       *)
LEMMA LineGoes ==
  ASSUME WireInv, TxCycles \in Nat \ {0}, NEW access \in W!Accesses,
         access \in W!Prints => tx.busy = 0, W!TxEdge(access),
         owed' = LET left == IF tx.busy = 1 THEN Tail(owed) ELSE owed
                 IN  IF W!TxValid(access) THEN Append(left, access) ELSE left
  PROVE  /\ tx' \in [busy : 0 .. TxCycles, data : W!Prints \cup {W!None}]
         /\ W!PrintedIsSent'
         /\ access \notin W!Prints /\ tx.busy = 0 => tx'.busy = 0
<1>1. /\ tx.busy \in 0 .. TxCycles /\ tx.data \in W!Prints \cup {W!None}
      /\ tx = [busy |-> tx.busy, data |-> tx.data]
      /\ owed = IF tx.busy = 0 THEN <<>> ELSE <<tx.data>>
  BY DEF WireInv, WireType, W!PrintedIsSent, W!Ready
<1>2. CASE tx.busy # 0
  <2>1. tx' = [tx EXCEPT !.busy = @ - 1]  BY <1>2 DEF W!TxEdge
  <2>2. tx' = [busy |-> tx.busy - 1, data |-> tx.data]  BY <1>1, <2>1
  <2>3. access \notin W!Prints  BY <1>2
  <2>4. owed' = IF tx.busy = 1 THEN Tail(owed) ELSE owed
    BY <2>3 DEF W!TxValid
  <2>5. owed = <<tx.data>>  BY <1>1, <1>2
  <2>6. Tail(owed) = <<>>  BY <2>5
  <2>7. owed' = IF tx'.busy = 0 THEN <<>> ELSE <<tx'.data>>
    BY <1>1, <1>2, <2>2, <2>4, <2>5, <2>6
  <2> QED  BY <1>1, <1>2, <2>2, <2>7 DEF W!PrintedIsSent, W!Ready
<1>3. CASE tx.busy = 0 /\ access \in W!Prints
  <2>1. tx' = [busy |-> TxCycles, data |-> access]
    BY <1>3 DEF W!TxEdge, W!TxValid
  <2>2. owed' = Append(owed, access)  BY <1>3 DEF W!TxValid
  <2>3. owed' = <<access>>  BY <1>1, <1>3, <2>2
  <2>4. tx'.busy = TxCycles /\ tx'.data = access  BY <2>1
  <2>5. tx' \in [busy : 0 .. TxCycles, data : W!Prints \cup {W!None}]
    BY <1>3, <2>1
  <2>6. W!PrintedIsSent'
    BY <2>3, <2>4 DEF W!PrintedIsSent, W!Ready
  <2> QED  BY <1>3, <2>5, <2>6
<1>4. CASE tx.busy = 0 /\ access \notin W!Prints
  <2>1. tx' = tx /\ owed' = owed  BY <1>4 DEF W!TxEdge, W!TxValid
  <2> QED  BY <1>1, <1>4, <2>1 DEF W!PrintedIsSent, W!Ready
<1> QED  BY <1>2, <1>3, <1>4

(* WireStep: every cycle keeps what is printed on the line and every byte  *)
(* accounted for.                                                          *)
LEMMA WireStep ==
  ASSUME WireInv, TxCycles \in Nat \ {0}, NEW access \in W!Accesses,
         NEW byte \in Bytes \cup {W!None}, W!Cycle(access, byte)
  PROVE  WireInv'
<1> DEFINE Moves == /\ access = prog.at /\ prog'.at = W!Following
                    /\ ~prog'.polled
                    /\ access \in W!Prints => prog.polled
                    /\ access = "stat" => (prog'.valid <=> rx.valid)
                    /\ access # "stat" => (prog'.valid <=> prog.valid)
                    /\ access = "rx" => prog'.got = rx.data
                    /\ access \notin {"rx", "tail"} => prog'.got = prog.got
           Stays == /\ access \in {"poll", "none"} /\ prog'.at = prog.at
                    /\ prog'.polled => prog.polled \/ tx.busy = 0
                    /\ (prog'.valid <=> prog.valid) /\ prog'.got = prog.got
<1>1. /\ W!ProgStep(access) /\ W!TxEdge(access) /\ W!RxEdge(access, byte)
      /\ W!Record(access, byte)
  BY DEF W!Cycle
<1>2. /\ prog'.at \in Places /\ prog'.polled \in BOOLEAN
      /\ prog'.valid \in BOOLEAN /\ prog'.overrun \in BOOLEAN
      /\ prog'.got \in Bytes \cup {W!None}
      /\ prog' = [at |-> prog'.at, polled |-> prog'.polled,
                  valid |-> prog'.valid, overrun |-> prog'.overrun,
                  got |-> prog'.got]
      /\ Stays \/ Moves
  BY <1>1, ProgGoes
<1>3. prog' \in [at : Places, polled : BOOLEAN, valid : BOOLEAN,
                 overrun : BOOLEAN, got : Bytes \cup {W!None}]
  BY <1>2
<1>4. PolledReady /\ Holding /\ prog.at \in Places /\ prog.valid \in BOOLEAN
      /\ rx.valid \in BOOLEAN
  BY DEF WireInv, WireType
<1>5. access \in W!Prints => tx.busy = 0
  BY <1>2, <1>4 DEF PolledReady, W!Prints
<1>6. owed' = LET left == IF tx.busy = 1 THEN Tail(owed) ELSE owed
              IN  IF W!TxValid(access) THEN Append(left, access) ELSE left
  BY <1>1 DEF W!Record
<1>7. /\ tx' \in [busy : 0 .. TxCycles, data : W!Prints \cup {W!None}]
      /\ W!PrintedIsSent'
      /\ access \notin W!Prints /\ tx.busy = 0 => tx'.busy = 0
  BY <1>1, <1>5, <1>6, LineGoes
<1>8. /\ rx' \in [data : Bytes \cup {W!None}, valid : BOOLEAN,
                  overrun : BOOLEAN]
      /\ rx.valid /\ access # "consume" => rx'.valid /\ rx'.data = rx.data
      /\ ~rx.valid \/ access = "consume" =>
           /\ W!Keep(access)
           /\ byte # W!None => rx'.valid /\ rx'.data = byte
           /\ byte = W!None => ~rx'.valid
      /\ W!Keep(access) <=> ~rx.valid \/ access = "consume"
      /\ rx'.overrun <=> \/ rx.overrun /\ access # "clear"
                         \/ byte # W!None /\ ~W!Keep(access)
  BY <1>1, ReceiverGoes
<1>9. PolledReady'
  <2>1. CASE Stays
    <3>1. access \notin W!Prints  BY <2>1 DEF W!Prints
    <3> QED  BY <1>4, <1>7, <2>1, <3>1 DEF PolledReady
  <2>2. CASE Moves  BY <2>2 DEF PolledReady
  <2> QED  BY <1>2, <2>1, <2>2
<1> HIDE DEF Stays, Moves
<1>10. Holding'
  <2>1. CASE Stays
    BY <1>4, <1>8, <2>1 DEF Stays, Holding
  <2>2. CASE Moves
    <3>1. access = prog.at /\ prog'.at = W!Following /\ prog.at \in Places
      BY <1>4, <2>2 DEF Moves
    <3>2. CASE prog.at \in {"head", "overrun", "clear", "tail", "consume"}
      <4>1. prog'.at \notin {"echo=", "rx", "value", "consume"}
        BY <3>1, <3>2, NextPlace
      <4> QED  BY <4>1 DEF Holding
    <3>3. CASE prog.at = "stat"
      <4>1. prog'.at = "echo=" /\ access = "stat" /\ (prog'.valid <=> rx.valid)
        BY <2>2, <3>1, <3>3, NextPlace DEF Moves
      <4> QED  BY <1>8, <4>1 DEF Holding
    <3>4. CASE prog.at \in {"echo=", "rx", "value"}
      <4>1. /\ prog.valid => rx.valid
            /\ prog.at = "rx" => prog.valid
            /\ prog.at = "value" /\ prog.valid => prog.got = rx.data
            /\ access \notin {"stat", "consume"}
            /\ (prog'.valid <=> prog.valid)
            /\ access = "rx" => prog'.got = rx.data
        BY <1>4, <2>2, <3>1, <3>4 DEF Holding, Moves
      <4>2. /\ prog.at = "echo=" => prog'.at = IF prog.valid THEN "rx" ELSE "value"
            /\ prog.at = "rx" => prog'.at = "value"
            /\ prog.at = "value" =>
                 prog'.at \in IF prog.valid THEN {"consume"} ELSE {"overrun", "tail"}
        BY <3>1, NextPlace
      <4> QED  BY <1>8, <3>1, <3>4, <4>1, <4>2 DEF Holding
    <3> QED  BY <3>1, <3>2, <3>3, <3>4 DEF Places
  <2> QED  BY <1>2, <2>1, <2>2 DEF Stays, Moves
<1>11. W!LossIsFlagged'
  <2>1. dropped' => \/ byte # W!None /\ ~W!Keep(access)
                    \/ dropped /\ access # "clear"
    BY <1>1 DEF W!Record
  <2>2. dropped => rx.overrun
    BY DEF WireInv, W!BytesAccounted, W!LossIsFlagged
  <2> QED  BY <1>8, <2>1, <2>2 DEF W!LossIsFlagged
<1>12. W!EchoedOnce'
  <2>1. accepted = IF rx.valid /\ ~(prog.at = "consume")
                   THEN Append(echoed, rx.data) ELSE echoed
    BY DEF WireInv, W!BytesAccounted, W!EchoedOnce
  <2>2. /\ accepted' = IF byte # W!None /\ W!Keep(access)
                       THEN Append(accepted, byte) ELSE accepted
        /\ echoed' = IF access = "value" /\ prog.valid
                     THEN Append(echoed, prog.got) ELSE echoed
    BY <1>1 DEF W!Record
  <2>3. rx'.valid \in BOOLEAN  BY <1>8
  <2>4. ASSUME access # "consume", prog.at # "consume",
               prog'.at # "consume", echoed' = echoed
        PROVE  W!EchoedOnce'
    <3>1. CASE rx.valid
      <4>1. accepted' = accepted  BY <1>8, <2>2, <2>4, <3>1
      <4>2. rx'.valid /\ rx'.data = rx.data  BY <1>8, <2>4, <3>1
      <4>3. accepted' = Append(echoed', rx'.data)
        BY <2>1, <2>4, <3>1, <4>1, <4>2
      <4> QED  BY <2>4, <4>2, <4>3 DEF W!EchoedOnce
    <3>2. CASE ~rx.valid
      <4>1. accepted = echoed  BY <2>1, <3>2
      <4>2. CASE byte # W!None
        <5>1. /\ accepted' = Append(accepted, byte)
              /\ rx'.valid /\ rx'.data = byte
          BY <1>8, <2>2, <3>2, <4>2
        <5> QED  BY <2>4, <4>1, <5>1 DEF W!EchoedOnce
      <4>3. CASE byte = W!None
        <5>1. accepted' = accepted /\ ~rx'.valid  BY <1>8, <2>2, <3>2, <4>3
        <5> QED  BY <2>4, <4>1, <5>1 DEF W!EchoedOnce
      <4> QED  BY <4>2, <4>3
    <3> QED  BY <1>4, <3>1, <3>2
  <2>5. CASE prog.at = "consume" /\ access = "consume"
    <3>1. accepted = echoed /\ echoed' = echoed  BY <2>1, <2>2, <2>5
    <3>2. CASE byte # W!None
      <4>1. /\ accepted' = Append(accepted, byte)
            /\ rx'.valid /\ rx'.data = byte
        BY <1>8, <2>2, <2>5, <3>2
      <4>2. prog'.at # "consume"
        BY <1>2, <2>5, NextPlace DEF Stays, Moves
      <4> QED  BY <3>1, <4>1, <4>2 DEF W!EchoedOnce
    <3>3. CASE byte = W!None
      <4>1. accepted' = accepted /\ ~rx'.valid  BY <1>8, <2>2, <2>5, <3>3
      <4> QED  BY <3>1, <4>1 DEF W!EchoedOnce
    <3> QED  BY <3>2, <3>3
  <2>6. CASE prog.at = "value" /\ access = "value" /\ prog.valid
    <3>1. rx.valid /\ prog.got = rx.data  BY <1>4, <2>6 DEF Holding
    <3>2. accepted' = accepted  BY <1>8, <2>2, <2>6, <3>1
    <3>3. accepted' = echoed'  BY <2>1, <2>2, <2>6, <3>1, <3>2
    <3>4. prog'.at = "consume"
      BY <1>2, <2>6, NextPlace DEF Stays, Moves
    <3> QED  BY <3>3, <3>4 DEF W!EchoedOnce
  <2>7. CASE Stays
    <3>1. echoed' = echoed /\ access # "consume" /\ prog'.at = prog.at
      BY <2>2, <2>7 DEF Stays
    <3>2. CASE prog.at # "consume"  BY <2>4, <3>1, <3>2
    <3>3. CASE prog.at = "consume"
      <4>1. rx.valid  BY <1>4, <3>3 DEF Holding
      <4>2. accepted' = accepted /\ accepted = echoed
        BY <1>8, <2>1, <2>2, <3>1, <3>3, <4>1
      <4> QED  BY <3>1, <3>3, <4>2 DEF W!EchoedOnce
    <3> QED  BY <3>2, <3>3
  <2>8. CASE Moves
    <3>1. access = prog.at /\ prog'.at = W!Following  BY <2>8 DEF Moves
    <3>2. CASE prog.at # "consume" /\ ~(prog.at = "value" /\ prog.valid)
      <4>1. echoed' = echoed  BY <2>2, <3>1, <3>2
      <4>2. prog'.at # "consume"
        BY <1>4, <3>1, <3>2, NextPlace DEF Places
      <4> QED  BY <2>4, <3>1, <3>2, <4>1, <4>2
    <3> QED  BY <2>5, <2>6, <3>1, <3>2
  <2> QED  BY <1>2, <2>7, <2>8 DEF Stays, Moves
<1> QED
  BY <1>3, <1>7, <1>8, <1>9, <1>10, <1>11, <1>12
  DEF WireInv, WireType, W!BytesAccounted

(* WireSafe: WireInv holds throughout.                                     *)
LEMMA WireSafe ==
  ASSUME TxCycles \in Nat \ {0}
  PROVE  BoardSpec => [](part = "uart" => WireInv)
<1>1. W!Init => WireInv
  BY DEF W!Init, WireInv, WireType, PolledReady, Holding, Places,
         W!PrintedIsSent, W!Ready, W!BytesAccounted, W!EchoedOnce,
         W!LossIsFlagged, W!None
<1>2. WireInv /\ [W!Next]_(W!vars) => WireInv'
  <2> SUFFICES ASSUME WireInv, [W!Next]_(W!vars) PROVE WireInv'
    OBVIOUS
  <2>1. CASE W!Next  BY <2>1, WireStep DEF W!Next
  <2>2. CASE UNCHANGED W!vars
    BY <2>2 DEF W!vars, WireInv, WireType, PolledReady, Holding,
           W!PrintedIsSent, W!Ready, W!BytesAccounted, W!EchoedOnce,
           W!LossIsFlagged
  <2> QED  BY <2>1, <2>2
<1> DEFINE Inv == part = "uart" => WireInv
<1>3. BoardInit => Inv  BY <1>1 DEF BoardInit
<1>4. Inv /\ [BoardNext]_boardVars => Inv'  BY <1>2, OneUart
<1> QED  BY <1>3, <1>4, PTL DEF BoardSpec

(* PrintedArrives: a character the program stores is on the line, in       *)
(* order, whatever the host sends and however the accesses fall (putc_ of  *)
(* hello.c polling rvntt_uart_tx).                                         *)
THEOREM PrintedArrives ==
  ASSUME TxCycles \in Nat \ {0}
  PROVE  BoardSpec => []PrintedIsSent
<1>1. (part = "uart" => WireInv) => PrintedIsSent  BY DEF WireInv, PrintedIsSent
<1> QED  BY <1>1, WireSafe, PTL

(* BytesKept: of any stream of bytes, each one the receiver takes is       *)
(* printed once and in order, and each one it drops is flagged until the   *)
(* program has said so (rvntt_uart_rx under hello.c's STAT, RX, consume).  *)
THEOREM BytesKept ==
  ASSUME TxCycles \in Nat \ {0}
  PROVE  BoardSpec => []BytesAccounted
<1>1. (part = "uart" => WireInv) => BytesAccounted  BY DEF WireInv, BytesAccounted
<1> QED  BY <1>1, WireSafe, PTL
-----------------------------------------------------------------------------
(* The bring-up.                                                           *)

Values == Nat \cup {"none", H!Byte, H!Older, "OK", "BAD"}
ReportLines == [kind : {"junk", "start", "hello", "gpio", "cnt", "echo", "img", "iter", "end"},
                val : Values]
BringupType ==
  /\ board \in [at : 1 .. 8, iter : Nat, count : 0 .. Modulus - 1,
                fault : H!Faults, hung : BOOLEAN]
  /\ held \in {"none", H!Byte, H!Older}
  /\ open \in BOOLEAN /\ programmed \in BOOLEAN
  /\ pc \in {"port", "program", "capture", "reading", "parse", "ended"}
  /\ printed \in Seq(ReportLines) /\ captured \in Seq(ReportLines)
  /\ Len(captured) = Len(printed)

\* The board has printed so many lines since it was reset; and it printed the
\* k-th line the capture spans at that count.
Clock == 8 * board.iter + board.at
ClockOf(k) == Clock - Len(printed) - 1 + k

\* What the board prints in place m of its block q.
Shows(line, q, m) ==
  /\ line.kind = H!BlockLines[m]
  /\ m = 4 => line.val \in Nat
  /\ m = 5 => line.val \in {"none", H!Byte, H!Older}
  /\ m = 5 /\ programmed => line.val # H!Older
  /\ m = 6 /\ board.fault # "image" => line.val = "OK"
  /\ m = 7 => line.val = q

\* The lines come in the order of the program, but the first may be a tail.
InOrder ==
  \A k \in DOMAIN printed :
    \/ k = 1 /\ printed[k] = H!Junk
    \/ \E q \in Nat, m \in 1 .. 8 : 8 * q + m = ClockOf(k) /\ Shows(printed[k], q, m)

OnlySpoiled ==
  \A k \in DOMAIN printed : captured[k] = printed[k] \/ captured[k] = H!Junk

\* The counter of each block is not that of the next.
CountsMove ==
  board.fault # "counters" =>
    \A k \in DOMAIN printed : \A q \in Nat :
      ClockOf(k) = 8 * q + 4 /\ printed[k].kind = "cnt" =>
        /\ k + 8 \in DOMAIN printed => printed[k + 8].val # printed[k].val
        /\ k + 8 \notin DOMAIN printed =>
             \/ board.iter = q /\ board.count = printed[k].val
             \/ board.iter = q + 1 /\ board.count # printed[k].val

NotYetOpen ==
  /\ pc \in {"port", "program"} => ~open
  /\ pc \in {"port", "program", "capture"} /\ ~open => printed = <<>>
  /\ pc = "reading" => open
Fresh == programmed => held # H!Older
Verdict ==
  pc = "ended" =>
    /\ exit = "0" => H!Check(captured)
    /\ exit = "1" /\ ~open /\ Len(captured) > 0 => ~H!Check(captured)

BringupInv ==
  /\ BringupType /\ InOrder /\ OnlySpoiled /\ CountsMove
  /\ NotYetOpen /\ Fresh /\ Verdict

(* LeastNat: a set of numbers that is not empty has a least one, which     *)
(* stands for induction where a line or a block is the first of a kind.    *)
LEMMA LeastNat ==
  ASSUME NEW T, T \subseteq Nat, T # {}
  PROVE  \E m \in T : \A n \in T : m <= n
<1> DEFINE Segments == {0 .. n : n \in T}
           R == StrictSubsetOrdering(Nat)
<1>1. \A n \in Nat : IsFiniteSet(0 .. n)  BY FS_Interval
<1>2. Segments \subseteq FiniteSubsetsOf(Nat) /\ Segments # {}
  <2>1. Segments # {}  OBVIOUS
  <2>2. ASSUME NEW y \in Segments PROVE y \in FiniteSubsetsOf(Nat)
    <3>1. PICK n \in T : y = 0 .. n  BY <2>2
    <3>2. n \in Nat  OBVIOUS
    <3>3. y \in SUBSET Nat  BY <3>1, <3>2
    <3> QED BY <1>1, <3>1, <3>2, <3>3 DEF FiniteSubsetsOf
  <2> QED BY <2>1, <2>2
<1>3. IsWellFoundedOn(R, FiniteSubsetsOf(Nat))  BY FS_StrictSubsetOrderingWellFounded
<1>4. PICK x \in Segments : \A y \in Segments : ~ (<<y, x>> \in R)
  <2> HIDE DEF Segments, R
  <2> QED BY <1>2, <1>3, WFMin
<1>5. PICK m \in T : x = 0 .. m  OBVIOUS
<1>6. ASSUME NEW n \in T PROVE m <= n
  <2>1. (0 .. n) \in Segments  OBVIOUS
  <2>2. ~ (<<0 .. n, 0 .. m>> \in R)  BY <1>4, <1>5, <2>1
  <2>3. m \in Nat /\ n \in Nat  OBVIOUS
  <2>4. ~(n < m)
    <3> SUFFICES ASSUME n < m PROVE FALSE  OBVIOUS
    <3>1. (0 .. n) \subseteq 0 .. m /\ m \in 0 .. m /\ m \notin 0 .. n
      BY <2>3
    <3>2. (0 .. n) \in SUBSET Nat /\ (0 .. m) \in SUBSET Nat  BY <2>3
    <3> QED BY <3>1, <3>2, <2>2 DEF StrictSubsetOrdering
  <2> QED BY <2>3, <2>4
<1> QED BY <1>6

(* GreatestBelow: of the numbers up to a bound there is a greatest, as the *)
(* last marker before a line.                                              *)
LEMMA GreatestBelow ==
  ASSUME NEW T, T \subseteq Int, NEW a \in T, NEW b \in Int, a <= b
  PROVE  \E m \in T : m <= b /\ \A n \in T : n <= b => n <= m
<1> DEFINE D == {b - n : n \in {x \in T : x <= b}}
<1>1. D \subseteq Nat  OBVIOUS
<1>2. D # {}  OBVIOUS
<1>3. PICK d \in D : \A e \in D : d <= e
  <2> HIDE DEF D
  <2> QED BY <1>1, <1>2, LeastNat
<1>4. PICK m \in T : m <= b /\ d = b - m  BY <1>3
<1>5. ASSUME NEW n \in T, n <= b PROVE n <= m
  <2>1. b - n \in D  BY <1>5
  <2>2. d <= b - n  BY <1>3, <2>1
  <2>3. m \in Int /\ n \in Int  OBVIOUS
  <2> HIDE DEF D
  <2> QED BY <1>4, <2>2, <2>3
<1> QED BY <1>4, <1>5

(* LeastAbove: of the numbers from a bound there is a least, as the next   *)
(* marker after a line.                                                    *)
LEMMA LeastAbove ==
  ASSUME NEW T, T \subseteq Int, NEW a \in T, NEW b \in Int, b <= a
  PROVE  \E m \in T : b <= m /\ \A n \in T : b <= n => m <= n
<1> DEFINE D == {n - b : n \in {x \in T : b <= x}}
<1>1. D \subseteq Nat  OBVIOUS
<1>2. D # {}  OBVIOUS
<1>3. PICK d \in D : \A e \in D : d <= e
  <2> HIDE DEF D
  <2> QED BY <1>1, <1>2, LeastNat
<1>4. PICK m \in T : b <= m /\ d = m - b  BY <1>3
<1>5. ASSUME NEW n \in T, b <= n PROVE m <= n
  <2>1. n - b \in D  BY <1>5
  <2>2. d <= n - b  BY <1>3, <2>1
  <2>3. m \in Int /\ n \in Int  OBVIOUS
  <2> HIDE DEF D
  <2> QED BY <1>4, <2>2, <2>3
<1> QED BY <1>4, <1>5

(* OneBringup: a step of the board with a bring-up is a step of HwBringup.   *)
LEMMA OneBringup ==
  ASSUME [BoardNext]_boardVars
  PROVE  /\ part' = part
         /\ part = "bringup" => [H!Next]_(H!vars)
BY DEF BoardNext, OnlyBringup, OnlyUart, OnlyBench, boardVars, bringupVars, H!vars

(* KindsApart: where a line of each kind is in a block.                    *)
LEMMA KindsApart ==
  /\ Len(H!BlockLines) = 8 /\ DOMAIN H!BlockLines = 1 .. 8
  /\ H!BlockLines[1] = "start" /\ H!BlockLines[2] = "hello"
  /\ H!BlockLines[3] = "gpio"  /\ H!BlockLines[4] = "cnt"
  /\ H!BlockLines[5] = "echo"  /\ H!BlockLines[6] = "img"
  /\ H!BlockLines[7] = "iter"  /\ H!BlockLines[8] = "end"
BY DEF H!BlockLines, H!Body

(* TextShows: what the board prints next is what its place shows.          *)
LEMMA TextShows ==
  ASSUME BringupType, Fresh, BringupAssumption
  PROVE  /\ H!Text \in ReportLines
         /\ Shows(H!Text, board.iter, board.at)
         /\ board.at = 4 => H!Text.val = board.count
<1> USE DEF H!Text, H!Line, Shows, ReportLines, Values, H!Byte, H!Older
<1> DEFINE b == board.at
<1>1. b \in 1 .. 8 /\ board.iter \in Nat /\ board.count \in 0 .. Modulus - 1
      /\ held \in {"none", H!Byte, H!Older} /\ Modulus \in Nat
  BY DEF BringupType, BringupAssumption
<1>1a. board.count \in Nat  BY <1>1
<1>2. CASE b = 1  BY <1>2, <1>1, KindsApart
<1>3. CASE b = 2  BY <1>3, <1>1, KindsApart
<1>4. CASE b = 3  BY <1>4, <1>1, KindsApart
<1>5. CASE b = 4  BY <1>5, <1>1, <1>1a, KindsApart
<1>6. CASE b = 5  BY <1>6, <1>1, KindsApart DEF Fresh
<1>7. CASE b = 6  BY <1>7, <1>1, KindsApart
<1>8. CASE b = 7  BY <1>8, <1>1, KindsApart
<1>9. CASE b = 8  BY <1>9, <1>1, KindsApart
<1> QED BY <1>1, <1>2, <1>3, <1>4, <1>5, <1>6, <1>7, <1>8, <1>9

(* ClockGoes: a printed line is one of the board's clock.                  *)
LEMMA ClockGoes ==
  ASSUME BringupType, H!BoardPrints, BringupAssumption
  PROVE  /\ board' \in [at : 1 .. 8, iter : Nat, count : 0 .. Modulus - 1,
                        fault : H!Faults, hung : BOOLEAN]
         /\ board'.fault = board.fault
         /\ board.at < 8 => /\ board'.at = board.at + 1 /\ board'.iter = board.iter
                            /\ board'.count = board.count
         /\ board.at = 8 => /\ board'.at = 1 /\ board'.iter = board.iter + 1
                            /\ board.fault # "counters" => board'.count # board.count
         /\ Clock' = Clock + 1
<1>1. board \in [at : 1 .. 8, iter : Nat, count : 0 .. Modulus - 1,
                 fault : H!Faults, hung : BOOLEAN]
  BY DEF BringupType
<1>2. PICK d \in IF board.fault = "counters" THEN {0} ELSE Advances :
        LET ends == board.at = Len(H!BlockLines)
        IN  board' = [board EXCEPT !.at = IF ends THEN 1 ELSE @ + 1,
                                   !.iter = IF ends THEN @ + 1 ELSE @,
                                   !.count = IF ends THEN (@ + d) % Modulus ELSE @]
  BY DEF H!BoardPrints
<1> DEFINE a == board.at  c == board.count  i == board.iter
           e == a = 8
           na == IF e THEN 1 ELSE a + 1
           ni == IF e THEN i + 1 ELSE i
           nc == IF e THEN (c + d) % Modulus ELSE c
<1>3. board' = [at |-> na, iter |-> ni, count |-> nc, fault |-> board.fault, hung |-> board.hung]
  BY <1>1, <1>2, KindsApart
<1>4. a \in 1 .. 8 /\ i \in Nat /\ c \in 0 .. Modulus - 1 /\ board.fault \in H!Faults
      /\ board.hung \in BOOLEAN
  BY <1>1
<1>5. d \in Nat /\ Modulus \in Nat \ {0}
      /\ (board.fault # "counters" => d \in 1 .. Modulus - 1)
  BY DEF BringupAssumption
<1> HIDE DEF a, c, i
<1>6. na \in 1 .. 8 /\ ni \in Nat  BY <1>4
<1>7. nc \in 0 .. Modulus - 1
  <2>1. CASE e
    <3>1. c + d \in Int  BY <1>4, <1>5
    <3>2. (c + d) % Modulus \in 0 .. Modulus - 1  BY <3>1, <1>5
    <3> QED BY <2>1, <3>2
  <2>2. CASE ~e  BY <1>4, <2>2
  <2> QED BY <2>1, <2>2
<1>8. e /\ board.fault # "counters" => nc # c
  <2> SUFFICES ASSUME e, board.fault # "counters" PROVE (c + d) % Modulus # c
    OBVIOUS
  <2>1. d \in 1 .. Modulus - 1  BY <1>5
  <2>2. CASE c + d < Modulus
    <3>1. (c + d) % Modulus = c + d  BY <2>2, <1>4, <1>5
    <3> QED BY <3>1, <2>1, <1>4
  <2>3. CASE c + d >= Modulus
    <3>1. (c + d) - Modulus \in 0 .. Modulus - 1  BY <2>3, <2>1, <1>4, <1>5
    <3>2. (c + d) % Modulus = (c + d) - Modulus
      BY <3>1, <1>4, <1>5
    <3> QED BY <3>2, <2>1, <1>4, <1>5
  <2> QED BY <2>2, <2>3, <1>4, <1>5
<1>9. 8 * ni + na = 8 * i + a + 1  BY <1>4
<1>10. board'.at = na /\ board'.iter = ni /\ board'.count = nc
       /\ board'.fault = board.fault /\ board'.hung = board.hung
  BY <1>3
<1>11. Clock' = Clock + 1  BY <1>9, <1>10 DEF Clock, a, i
<1>12. board' \in [at : 1 .. 8, iter : Nat, count : 0 .. Modulus - 1,
                        fault : H!Faults, hung : BOOLEAN]
  <2> HIDE DEF na, ni, nc
  <2> QED BY <1>3, <1>4, <1>6, <1>7
<1> QED BY <1>4, <1>8, <1>10, <1>11, <1>12 DEF a, c, i

(* CountAhead: where the board is, seen from a counter line it printed.    *)
LEMMA CountAhead ==
  ASSUME NEW n \in Nat, NEW k \in 1 .. n + 1, NEW q \in Nat, NEW i \in Nat, NEW a \in 1 .. 8,
         (8 * i + a) - (n + 1 - k) = 8 * q + 4
  PROVE  /\ k = n + 1 => a = 4 /\ i = q
         /\ k + 8 = n + 1 => a = 4 /\ i = q + 1
         /\ k + 8 > n + 1 /\ i = q + 1 => a < 8
<1>1. 8 * i + a = 8 * q + 4 + (n + 1 - k)  OBVIOUS
<1>2. CASE k = n + 1  BY <1>1, <1>2
<1>3. CASE k + 8 = n + 1  BY <1>1, <1>3
<1>4. CASE k + 8 > n + 1  BY <1>1, <1>4
<1> QED BY <1>2, <1>3, <1>4

(* PrintStep: the board prints.                                            *)
LEMMA PrintStep ==
  ASSUME BringupInv, H!BoardPrints, BringupAssumption
  PROVE  BringupInv'
<1> DEFINE n == Len(printed)
<1>0. /\ BringupType /\ InOrder /\ OnlySpoiled /\ CountsMove
      /\ NotYetOpen /\ Fresh /\ Verdict
  BY DEF BringupInv
<1>1. /\ open' = open /\ programmed' = programmed /\ pc' = pc /\ exit' = exit /\ pc \notin {"parse", "ended"}
      /\ held' \in {"none", held}
  BY DEF H!BoardPrints
<1>2. /\ board' \in [at : 1 .. 8, iter : Nat, count : 0 .. Modulus - 1,
                      fault : H!Faults, hung : BOOLEAN]
      /\ board'.fault = board.fault
      /\ board.at < 8 => /\ board'.at = board.at + 1 /\ board'.iter = board.iter
                         /\ board'.count = board.count
      /\ board.at = 8 => /\ board'.at = 1 /\ board'.iter = board.iter + 1
                         /\ board.fault # "counters" => board'.count # board.count
      /\ Clock' = Clock + 1
  BY <1>0, ClockGoes
<1>3. /\ H!Text \in ReportLines
      /\ Shows(H!Text, board.iter, board.at)
      /\ board.at = 4 => H!Text.val = board.count
  BY <1>0, TextShows
<1>4. /\ printed \in Seq(ReportLines) /\ captured \in Seq(ReportLines) /\ Len(captured) = Len(printed)
      /\ board.at \in 1 .. 8 /\ board.iter \in Nat /\ Clock \in Int /\ n \in Nat
      /\ board.count \in 0 .. Modulus - 1 /\ Clock = 8 * board.iter + board.at
  BY <1>0 DEF BringupType, Clock
<1>2a. Clock' = Clock + 1 /\ board'.fault = board.fault  BY <1>2
<1>4a. /\ H!Faults' = H!Faults /\ ReportLines' = ReportLines
       /\ H!Byte' = H!Byte /\ H!Older' = H!Older /\ H!BlockLines' = H!BlockLines
  BY DEF H!Faults, ReportLines, Values, H!Byte, H!Older, H!BlockLines, H!Body
<1>4b. board.at < 8 \/ board.at = 8  BY <1>4
<1>5. NotYetOpen' /\ Fresh' /\ Verdict'
  BY <1>0, <1>1 DEF NotYetOpen, Fresh, Verdict, BringupType, H!BoardPrints, H!Older
<1>6. CASE ~open
  <2>1. printed = <<>>  BY <1>0, <1>1, <1>6 DEF NotYetOpen, BringupType
  <2>2. printed' = printed /\ captured' = captured  BY <1>6 DEF H!BoardPrints
  <2>3. DOMAIN printed = {} /\ DOMAIN printed' = {}  BY <2>1, <2>2
  <2>4. BringupType'  BY <1>0, <1>1, <1>2, <1>4a, <2>2 DEF BringupType
  <2>5. InOrder' /\ OnlySpoiled' /\ CountsMove'
    BY <2>3 DEF InOrder, OnlySpoiled, CountsMove
  <2> QED BY <1>5, <2>4, <2>5 DEF BringupInv
<1>7. CASE open
  <2>1. PICK l \in {H!Text, H!Junk} :
          printed' = Append(printed, H!Text) /\ captured' = Append(captured, l)
    BY <1>7 DEF H!BoardPrints
  <2>2. H!Junk \in ReportLines
    BY DEF H!Junk, H!Line, ReportLines, Values
  <2>3. /\ printed' \in Seq(ReportLines) /\ Len(printed') = n + 1
        /\ DOMAIN printed' = 1 .. n + 1 /\ DOMAIN printed = 1 .. n
        /\ \A k \in 1 .. n : printed'[k] = printed[k]
        /\ printed'[n + 1] = H!Text
    BY <1>3, <1>4, <2>1
  <2>4. /\ captured' \in Seq(ReportLines) /\ Len(captured') = n + 1
        /\ \A k \in 1 .. n : captured'[k] = captured[k]
        /\ captured'[n + 1] = l
    BY <1>3, <1>4, <2>1, <2>2
  <2>5. ASSUME NEW k \in Int PROVE ClockOf(k)' = ClockOf(k)
    <3>1. ClockOf(k) = Clock - n - 1 + k  BY DEF ClockOf
    <3>2. ClockOf(k)' = (Clock + 1) - (n + 1) - 1 + k  BY <1>2a, <2>3 DEF ClockOf
    <3> HIDE DEF n
    <3> QED BY <3>1, <3>2, <1>4
  <2>5a. \A k \in DOMAIN printed' : ClockOf(k)' = ClockOf(k)
    BY <1>4, <2>3, <2>5
  <2>6. ClockOf(n + 1) = Clock /\ \A k \in Int : ClockOf(k) = Clock - (n + 1 - k)
    BY <1>4 DEF ClockOf
  <2>7. ASSUME NEW line, NEW q, NEW m, Shows(line, q, m)
        PROVE  Shows(line, q, m)'
    BY <1>1, <1>2a, <1>4a, <2>7 DEF Shows
  <2>8. BringupType'  BY <1>0, <1>1, <1>2, <1>4a, <2>3, <2>4 DEF BringupType
  <2>9. InOrder'
    <3> SUFFICES ASSUME NEW k \in 1 .. n + 1
                 PROVE  (\/ k = 1 /\ printed[k] = H!Junk
                         \/ \E q \in Nat, m \in 1 .. 8 :
                              8 * q + m = ClockOf(k) /\ Shows(printed[k], q, m))'
      BY <2>3 DEF InOrder
    <3>1. CASE k = n + 1
      <4>1. 8 * board.iter + board.at = ClockOf(k)'  BY <1>4, <2>5, <2>6, <3>1
      <4>2. PICK line, q, m : line = H!Text /\ q = board.iter /\ m = board.at
        OBVIOUS
      <4>3. Shows(line, q, m)'  BY <1>3, <2>7, <4>2
      <4>4. line = printed'[k]  BY <2>3, <3>1, <4>2
      <4> QED BY <1>4, <4>1, <4>2, <4>3, <4>4
    <3>2. CASE k \in 1 .. n
      <4>1. printed'[k] = printed[k] /\ ClockOf(k)' = ClockOf(k)  BY <2>3, <2>5, <3>2
      <4>2. \/ k = 1 /\ printed[k] = H!Junk
            \/ \E q \in Nat, m \in 1 .. 8 :
                 8 * q + m = ClockOf(k) /\ Shows(printed[k], q, m)
        BY <1>0, <2>3, <3>2 DEF InOrder
      <4>3. CASE k = 1 /\ printed[k] = H!Junk  BY <4>1, <4>3 DEF H!Junk, H!Line
      <4>4. ASSUME NEW q \in Nat, NEW m \in 1 .. 8,
                   8 * q + m = ClockOf(k), Shows(printed[k], q, m)
            PROVE  \E qq \in Nat, mm \in 1 .. 8 :
                              8 * qq + mm = ClockOf(k)' /\ Shows(printed[k], qq, mm)'
        <5>1. PICK line : line = printed[k]  OBVIOUS
        <5>2. Shows(line, q, m)'  BY <2>7, <4>4, <5>1
        <5>3. line = printed'[k]  BY <4>1, <5>1
        <5> QED BY <4>1, <4>4, <5>2, <5>3
      <4> QED BY <4>2, <4>3, <4>4
    <3> QED BY <3>1, <3>2, <1>4
  <2>10. OnlySpoiled'
    <3> SUFFICES ASSUME NEW k \in 1 .. n + 1
                 PROVE  captured'[k] = printed'[k] \/ captured'[k] = H!Junk
      BY <2>3 DEF OnlySpoiled
    <3>1. CASE k = n + 1  BY <2>1, <2>3, <2>4, <3>1
    <3>2. CASE k \in 1 .. n  BY <1>0, <2>3, <2>4, <3>2 DEF OnlySpoiled
    <3> QED BY <3>1, <3>2, <1>4
  <2>11. CountsMove'
    <3> SUFFICES ASSUME board.fault # "counters", NEW k \in 1 .. n + 1, NEW q \in Nat,
                        ClockOf(k) = 8 * q + 4, printed'[k].kind = "cnt"
                 PROVE  /\ k + 8 \in 1 .. n + 1 => printed'[k + 8].val # printed'[k].val
                        /\ k + 8 \notin 1 .. n + 1 =>
                             \/ board'.iter = q /\ board'.count = printed'[k].val
                             \/ board'.iter = q + 1 /\ board'.count # printed'[k].val
      BY ZenonT(60), <1>2a, <2>3, <2>5a DEF CountsMove
    <3>a. ClockOf(k) = Clock - (n + 1 - k)  BY <2>6
    <3>b. (8 * board.iter + board.at) - (n + 1 - k) = 8 * q + 4  BY <3>a, <1>4
    <3> HIDE DEF n
    <3>c. /\ k = n + 1 => board.at = 4 /\ board.iter = q
          /\ k + 8 = n + 1 => board.at = 4 /\ board.iter = q + 1
          /\ k + 8 > n + 1 /\ board.iter = q + 1 => board.at < 8
      BY ZenonT(60), <1>4, <3>b, CountAhead
    <3>1. CASE k = n + 1
      <4>2. board.at = 4 /\ board.iter = q  BY <3>c, <3>1
      <4>3. printed'[k].val = board.count  BY <1>3, <2>3, <3>1, <4>2
      <4> QED BY <1>2, <1>4, <3>1, <4>2, <4>3
    <3>2. CASE k \in 1 .. n
      <4>1. /\ k + 8 \in 1 .. n => printed[k + 8].val # printed[k].val
            /\ k + 8 \notin 1 .. n =>
                             \/ board.iter = q /\ board.count = printed[k].val
                             \/ board.iter = q + 1 /\ board.count # printed[k].val
        BY <1>0, <2>3, <3>2 DEF CountsMove
      <4>2. printed'[k] = printed[k]  BY <2>3, <3>2
      <4>4. CASE k + 8 \in 1 .. n  BY <4>1, <4>2, <4>4, <2>3, <1>4
      <4>5. CASE k + 8 = n + 1
        <5>1. board.at = 4 /\ board.iter = q + 1  BY <3>c, <4>5
        <5>2. board.count # printed[k].val  BY <4>1, <4>5, <5>1, <1>4
        <5>3. printed'[n + 1].val = board.count  BY <1>3, <2>3, <5>1
        <5> QED BY <4>2, <4>5, <5>2, <5>3, <1>4
      <4>6. CASE k + 8 > n + 1
        <5>0. k + 8 \notin 1 .. n /\ k + 8 \notin 1 .. n + 1  BY <4>6, <1>4, <3>2
        <5>1. CASE board.iter = q /\ board.count = printed[k].val
          <6>1. board.at < 8 \/ board.at = 8  BY <1>4b
          <6>2. \/ board'.iter = q /\ board'.count = printed'[k].val
                \/ board'.iter = q + 1 /\ board'.count # printed'[k].val
            BY <1>2, <4>2, <5>1, <6>1
          <6> QED BY <5>0, <6>2
        <5>2. CASE board.iter = q + 1 /\ board.count # printed[k].val
          <6>1. board.at < 8  BY <3>c, <4>6, <5>2
          <6> QED BY <1>2, <4>2, <5>0, <5>2, <6>1
        <5> QED BY <4>1, <5>0, <5>1, <5>2
      <4> QED BY SMTT(60), <4>4, <4>5, <4>6, <1>4, <3>2
    <3> QED BY <3>1, <3>2, <1>4
  <2> QED BY <1>5, <2>8, <2>9, <2>10, <2>11 DEF BringupInv
<1> QED BY <1>0, <1>6, <1>7 DEF BringupType

(* BringupConstants: the lines and bytes of the program do not change.     *)
LEMMA BringupConstants ==
  /\ H!Faults' = H!Faults /\ ReportLines' = ReportLines
  /\ H!Byte' = H!Byte /\ H!Older' = H!Older /\ H!BlockLines' = H!BlockLines
  /\ H!Junk' = H!Junk /\ H!Byte # H!Older /\ H!Older # "none"
  /\ H!HeldAtReset = "none"
BY DEF H!Faults, ReportLines, Values, H!Byte, H!Older, H!BlockLines, H!Body, H!Junk, H!Line, H!HeldAtReset

(* LinesKept: a step that prints nothing and leaves the clock.             *)
LEMMA LinesKept ==
  ASSUME BringupInv, board'.at = board.at, board'.iter = board.iter,
         board'.count = board.count, board'.fault = board.fault,
         printed' = printed, captured' = captured, programmed' = programmed
  PROVE  InOrder' /\ OnlySpoiled' /\ CountsMove'
<1>1. ASSUME NEW k \in DOMAIN printed PROVE ClockOf(k)' = ClockOf(k)
  BY DEF ClockOf, Clock
<1>2. ASSUME NEW line, NEW q, NEW m, Shows(line, q, m)
      PROVE  Shows(line, q, m)'
  BY <1>2, BringupConstants DEF Shows
<1>3. InOrder'
  <2> SUFFICES ASSUME NEW k \in DOMAIN printed
               PROVE  (\/ k = 1 /\ printed[k] = H!Junk
                       \/ \E q \in Nat, m \in 1 .. 8 :
                              8 * q + m = ClockOf(k) /\ Shows(printed[k], q, m))'
    BY DEF InOrder
  <2>1. \/ k = 1 /\ printed[k] = H!Junk
        \/ \E q \in Nat, m \in 1 .. 8 :
             8 * q + m = ClockOf(k) /\ Shows(printed[k], q, m)
    BY DEF BringupInv, InOrder
  <2>2. ASSUME NEW q \in Nat, NEW m \in 1 .. 8,
                   8 * q + m = ClockOf(k), Shows(printed[k], q, m)
            PROVE  \E qq \in Nat, mm \in 1 .. 8 :
                              8 * qq + mm = ClockOf(k)' /\ Shows(printed[k], qq, mm)'
    <3>1. PICK line : line = printed[k]  OBVIOUS
    <3>2. Shows(line, q, m)'  BY <1>2, <2>2, <3>1
    <3>3. line = printed'[k]  BY <3>1
    <3> QED BY <1>1, <2>2, <3>2, <3>3
  <2> QED BY <2>1, <2>2, BringupConstants
<1>4. OnlySpoiled'  BY BringupConstants DEF OnlySpoiled, BringupInv
<1>5. CountsMove'  BY ZenonT(60), <1>1 DEF CountsMove, BringupInv
<1> QED BY <1>3, <1>4, <1>5

(* ToolStep: hw_bringup.py goes on.                                        *)
LEMMA ToolStep ==
  ASSUME BringupInv, H!Tool \/ H!BoardHangs, BringupAssumption
  PROVE  BringupInv'
<1>0. /\ BringupType /\ InOrder /\ OnlySpoiled /\ CountsMove
      /\ NotYetOpen /\ Fresh /\ Verdict
  BY DEF BringupInv
<1> USE BringupConstants
<1> DEFINE Quiet == UNCHANGED <<board, held, open, printed, captured, programmed>>
<1>1. ASSUME Quiet, pc \notin {"parse", "ended"}, pc' \in {"program", "capture", "ended"},
             pc \in {"port", "program"} \/ (pc = "capture" /\ pc' = "ended"),
             pc' = "ended" => exit' \in {"skip", "1"}
      PROVE  BringupInv'
  <2>1. InOrder' /\ OnlySpoiled' /\ CountsMove'  BY <1>1, LinesKept
  <2>2. BringupType' /\ Fresh'  BY <1>0, <1>1 DEF BringupType, Fresh
  <2>3. NotYetOpen'  BY <1>0, <1>1 DEF NotYetOpen
  <2>4. Verdict'
    <3>1. ~open' => Len(captured') = 0
      BY <1>0, <1>1 DEF NotYetOpen, BringupType
    <3> QED BY <1>1, <3>1 DEF Verdict
  <2> QED BY <2>1, <2>2, <2>3, <2>4 DEF BringupInv
<1>2. CASE H!Skip \/ H!Found \/ H!ProgramFails \/ H!CaptureFails
  <2>1. Quiet /\ pc \notin {"parse", "ended"} /\ pc' \in {"program", "capture", "ended"}
        /\ (pc \in {"port", "program"} \/ (pc = "capture" /\ pc' = "ended"))
        /\ (pc' = "ended" => exit' \in {"skip", "1"})
    BY <1>2 DEF H!Skip, H!Found, H!ProgramFails, H!CaptureFails, H!Ends, H!Idle
  <2> HIDE DEF Quiet
  <2> QED BY <1>1, <2>1
<1>3. CASE H!Program
  <2>1. pc = "program" /\ pc' = "capture" /\ programmed' = TRUE /\ held' = "none"
        /\ open' = open /\ printed' = printed /\ captured' = captured
        /\ board' = [board EXCEPT !.at = 1, !.iter = 0, !.count = 0, !.hung = FALSE]
    BY <1>3 DEF H!Program
  <2>2. ~open /\ printed = <<>>  BY <1>0, <2>1 DEF NotYetOpen
  <2>3. DOMAIN printed = {} /\ DOMAIN printed' = {}  BY <2>1, <2>2
  <2>4. board' \in [at : 1 .. 8, iter : Nat, count : 0 .. Modulus - 1,
                    fault : H!Faults, hung : BOOLEAN]
    <3>1. board \in [at : 1 .. 8, iter : Nat, count : 0 .. Modulus - 1,
                     fault : H!Faults, hung : BOOLEAN]
      BY <1>0 DEF BringupType
    <3>2. board' = [at |-> 1, iter |-> 0, count |-> 0, fault |-> board.fault, hung |-> FALSE]
      BY <2>1, <3>1
    <3>3. 0 \in 0 .. Modulus - 1  BY DEF BringupAssumption
    <3> QED BY <3>1, <3>2, <3>3
  <2>5. BringupType'  BY <1>0, <2>1, <2>4 DEF BringupType
  <2>6. InOrder' /\ OnlySpoiled' /\ CountsMove'
    BY <2>3 DEF InOrder, OnlySpoiled, CountsMove
  <2>7. NotYetOpen' /\ Fresh' /\ Verdict'
    BY <2>1, <2>2 DEF NotYetOpen, Fresh, Verdict
  <2> QED BY <2>5, <2>6, <2>7 DEF BringupInv
<1>4. CASE H!OpenPort
  <2>1. pc = "capture" /\ pc' = pc /\ ~open /\ open' = TRUE /\ board' = board /\ held' = held
        /\ programmed' = programmed
        /\ \/ printed' = printed /\ captured' = captured
           \/ printed' = <<H!Junk>> /\ captured' = <<H!Junk>>
    BY <1>4 DEF H!OpenPort
  <2>2. printed = <<>>  BY <1>0, <2>1 DEF NotYetOpen
  <2>3. NotYetOpen' /\ Fresh' /\ Verdict'
    BY <1>0, <2>1 DEF NotYetOpen, Fresh, Verdict
  <2>4. CASE printed' = printed /\ captured' = captured
    <3>1. InOrder' /\ OnlySpoiled' /\ CountsMove'  BY <2>1, <2>4, LinesKept
    <3>2. BringupType'  BY <1>0, <2>1, <2>4 DEF BringupType
    <3> QED BY <2>3, <3>1, <3>2 DEF BringupInv
  <2>5. CASE printed' = <<H!Junk>> /\ captured' = <<H!Junk>>
    <3>1. H!Junk \in ReportLines /\ H!Junk.kind = "junk"
      BY DEF H!Junk, H!Line, ReportLines, Values
    <3>2. /\ printed' \in Seq(ReportLines) /\ captured' \in Seq(ReportLines)
          /\ Len(printed') = 1 /\ Len(captured') = 1 /\ DOMAIN printed' = {1}
          /\ printed'[1] = H!Junk /\ captured'[1] = H!Junk
      BY <2>5, <3>1
    <3>3. BringupType'  BY <1>0, <2>1, <3>2 DEF BringupType
    <3>4. InOrder'  BY <3>2 DEF InOrder
    <3>5. OnlySpoiled'  BY <3>2 DEF OnlySpoiled
    <3>6. CountsMove'  BY <3>1, <3>2 DEF CountsMove
    <3> QED BY <2>3, <3>3, <3>4, <3>5, <3>6 DEF BringupInv
  <2> QED BY <2>1, <2>4, <2>5
<1>5. CASE H!SendByte
  <2>1. pc = "capture" /\ pc' = "reading" /\ open /\ open' = open /\ board' = board
        /\ printed' = printed /\ captured' = captured /\ programmed' = programmed
        /\ held' = IF held = "none" THEN H!Byte ELSE held
    BY <1>5 DEF H!SendByte
  <2>2. InOrder' /\ OnlySpoiled' /\ CountsMove'  BY <2>1, LinesKept
  <2>3. BringupType' /\ Fresh'  BY <1>0, <2>1 DEF BringupType, Fresh
  <2>4. NotYetOpen' /\ Verdict'  BY <1>0, <2>1 DEF NotYetOpen, Verdict
  <2> QED BY <2>2, <2>3, <2>4 DEF BringupInv
<1>6. CASE H!ClosePort
  <2>1. pc = "reading" /\ pc' = "parse" /\ open' = FALSE /\ board' = board
        /\ printed' = printed /\ captured' = captured /\ programmed' = programmed
        /\ held' = held
    BY <1>6 DEF H!ClosePort
  <2>2. InOrder' /\ OnlySpoiled' /\ CountsMove'  BY <2>1, LinesKept
  <2>3. BringupType' /\ Fresh'  BY <1>0, <2>1 DEF BringupType, Fresh
  <2>4. NotYetOpen' /\ Verdict'  BY <1>0, <2>1 DEF NotYetOpen, Verdict
  <2> QED BY <2>2, <2>3, <2>4 DEF BringupInv
<1>7. CASE H!Parse
  <2>1. pc = "parse" /\ pc' = "ended" /\ Quiet
        /\ exit' = IF H!Check(captured) THEN "0" ELSE "1"
    BY <1>7 DEF H!Parse, H!Ends, H!Idle
  <2>2. InOrder' /\ OnlySpoiled' /\ CountsMove'  BY <2>1, LinesKept
  <2>3. BringupType' /\ Fresh'  BY <1>0, <2>1 DEF BringupType, Fresh
  <2>4. NotYetOpen'  BY <1>0, <2>1 DEF NotYetOpen
  <2>5. H!Check(captured)' <=> H!Check(captured)
    BY <2>1 DEF H!Check, H!ParseBlocks, H!Malformed, H!Closed, H!WellFormed, H!Starts,
         H!Consecutive, H!Moves, H!Block
  <2>6. Verdict'  BY <2>1, <2>5 DEF Verdict
  <2> QED BY <2>2, <2>3, <2>4, <2>6 DEF BringupInv
<1>8. CASE H!BoardHangs
  <2>1. pc \notin {"parse", "ended"} /\ board' = [board EXCEPT !.hung = TRUE]
        /\ held' = held /\ open' = open /\ printed' = printed /\ captured' = captured
        /\ programmed' = programmed /\ pc' = pc /\ exit' = exit
    BY <1>8 DEF H!BoardHangs
  <2>2. board \in [at : 1 .. 8, iter : Nat, count : 0 .. Modulus - 1,
                     fault : H!Faults, hung : BOOLEAN]
    BY <1>0 DEF BringupType
  <2>3. board' = [at |-> board.at, iter |-> board.iter, count |-> board.count,
                  fault |-> board.fault, hung |-> TRUE]
    BY <2>1, <2>2
  <2>4. InOrder' /\ OnlySpoiled' /\ CountsMove'  BY <2>1, <2>3, LinesKept
  <2>5. board' \in [at : 1 .. 8, iter : Nat, count : 0 .. Modulus - 1,
                     fault : H!Faults, hung : BOOLEAN]
    BY <2>2, <2>3
  <2>6. BringupType' /\ Fresh'  BY <1>0, <2>1, <2>5 DEF BringupType, Fresh
  <2>7. NotYetOpen' /\ Verdict'  BY <1>0, <2>1 DEF NotYetOpen, Verdict
  <2> QED BY <2>4, <2>6, <2>7 DEF BringupInv
<1> QED BY <1>2, <1>3, <1>4, <1>5, <1>6, <1>7, <1>8 DEF H!Tool

(* BringupSafe: the invariant of the bring-up tool and its board.          *)
LEMMA BringupSafe == BoardSpec => [](part = "bringup" => BringupInv)
<1> DEFINE Inv == part = "bringup" => BringupInv
<1>0. BringupAssumption  BY BringupAssumption
<1>1. BoardInit => Inv
  <2> SUFFICES ASSUME H!Init PROVE BringupInv  BY DEF BoardInit
  <2>1. board \in [at : 1 .. 8, iter : Nat, count : 0 .. Modulus - 1,
                     fault : H!Faults, hung : BOOLEAN]
    <3>1. board \in [at : FirstLines, iter : {0}, count : FirstCounts,
                     fault : H!Faults, hung : {FALSE}]
      BY DEF H!Init
    <3>2. FirstLines \subseteq 1 .. 8 /\ FirstCounts \subseteq 0 .. Modulus - 1
      BY <1>0 DEF BringupAssumption
    <3>3. PICK a \in FirstLines, c \in FirstCounts, f \in H!Faults :
            board = [at |-> a, iter |-> 0, count |-> c, fault |-> f, hung |-> FALSE]
      BY <3>1
    <3>4. a \in 1 .. 8 /\ c \in 0 .. Modulus - 1  BY <3>2
    <3> QED BY <3>3, <3>4
  <2>2. BringupType
    <3>1. printed = <<>> /\ captured = <<>>  BY DEF H!Init
    <3>2. printed \in Seq(ReportLines) /\ captured \in Seq(ReportLines)
          /\ Len(captured) = Len(printed)
      BY <3>1
    <3> QED BY <2>1, <3>2 DEF H!Init, BringupType
  <2>3. NotYetOpen /\ Fresh /\ Verdict  BY DEF H!Init, NotYetOpen, Fresh, Verdict
  <2>4. DOMAIN printed = {}  BY DEF H!Init
  <2>5. InOrder /\ OnlySpoiled /\ CountsMove  BY <2>4 DEF InOrder, OnlySpoiled, CountsMove
  <2> QED BY <2>2, <2>3, <2>5 DEF BringupInv
<1>2. Inv /\ [BoardNext]_boardVars => Inv'
  <2> SUFFICES ASSUME BringupInv, [H!Next]_(H!vars) PROVE BringupInv'  BY OneBringup
  <2>1. CASE H!BoardPrints  BY <1>0, <2>1, PrintStep
  <2>2. CASE H!Tool \/ H!BoardHangs  BY <1>0, <2>2, ToolStep
  <2>3. CASE UNCHANGED H!vars
    <3>1. InOrder' /\ OnlySpoiled' /\ CountsMove'  BY <2>3, LinesKept DEF H!vars
    <3>2. BringupType' /\ Fresh' /\ NotYetOpen'
      BY <2>3, BringupConstants DEF BringupInv, BringupType, Fresh, NotYetOpen, H!vars
    <3>3. H!Check(captured)' <=> H!Check(captured)
      BY <2>3 DEF H!vars, H!Check, H!ParseBlocks, H!Malformed, H!Closed, H!WellFormed, H!Starts,
         H!Consecutive, H!Moves, H!Block
    <3>4. Verdict'  BY <2>3, <3>3 DEF BringupInv, Verdict, H!vars
    <3> QED BY <3>1, <3>2, <3>4 DEF BringupInv
  <2> QED BY <2>1, <2>2, <2>3 DEF H!Next
<1> QED BY <1>1, <1>2, PTL DEF BoardSpec

(* OnePlace: a kind of line has one place in a block.                      *)
LEMMA OnePlace ==
  ASSUME NEW m \in 1 .. 8, NEW k \in 1 .. 8, H!BlockLines[m] = H!BlockLines[k]
  PROVE  m = k
<1>1. \/ m = 1 \/ m = 2 \/ m = 3 \/ m = 4 \/ m = 5 \/ m = 6 \/ m = 7 \/ m = 8  OBVIOUS
<1>2. \/ k = 1 \/ k = 2 \/ k = 3 \/ k = 4 \/ k = 5 \/ k = 6 \/ k = 7 \/ k = 8  OBVIOUS
<1> QED BY <1>1, <1>2, KindsApart

(* SameBlock: a count of lines is in one block, at one place.              *)
LEMMA SameBlock ==
  ASSUME NEW i \in Nat, NEW q \in Nat, NEW a \in 1 .. 8, NEW m \in 1 .. 8,
         8 * i + a = 8 * q + m
  PROVE  i = q /\ a = m
OBVIOUS

(* PlaceOf: a line that is not junk is where its kind says.                *)
LEMMA PlaceOf ==
  ASSUME BringupInv, NEW i \in DOMAIN printed, NEW k \in 1 .. 8,
         printed[i].kind = H!BlockLines[k]
  PROVE  \E q \in Nat : 8 * q + k = ClockOf(i) /\ Shows(printed[i], q, k)
<1>1. printed[i] # H!Junk
  <2>1. H!Junk.kind = "junk"  BY DEF H!Junk, H!Line
  <2>2. H!BlockLines[k] # "junk"
    <3>1. \/ k = 1 \/ k = 2 \/ k = 3 \/ k = 4 \/ k = 5 \/ k = 6 \/ k = 7 \/ k = 8  OBVIOUS
    <3> QED BY <3>1, KindsApart
  <2> QED BY <2>1, <2>2
<1>2. PICK q \in Nat, m \in 1 .. 8 : 8 * q + m = ClockOf(i) /\ Shows(printed[i], q, m)
  BY <1>1 DEF BringupInv, InOrder
<1>3. m = k
  <2>1. H!BlockLines[m] = H!BlockLines[k]  BY <1>2 DEF Shows
  <2> QED BY <2>1, OnePlace
<1> QED BY <1>2, <1>3

(* ClocksApart: lines that were printed so far apart are so far apart.     *)
LEMMA ClocksApart ==
  ASSUME BringupInv, NEW i \in Int, NEW j \in Int
  PROVE  ClockOf(j) = ClockOf(i) + (j - i) /\ ClockOf(i) \in Int
<1>1. board.iter \in Nat /\ board.at \in 1 .. 8 /\ Len(printed) \in Nat
  BY DEF BringupInv, BringupType
<1>2. Clock \in Int  BY <1>1 DEF Clock
<1> QED BY <1>1, <1>2 DEF ClockOf

(* KindAhead: what is printed some lines after a line, if it is.            *)
LEMMA KindAhead ==
  ASSUME BringupInv, NEW i \in DOMAIN printed, NEW q \in Nat, NEW m \in 1 .. 8,
         8 * q + m = ClockOf(i),
         NEW j \in DOMAIN printed, i < j,
         NEW qj \in Nat, NEW k \in 1 .. 8, 8 * qj + k = 8 * q + m + (j - i)
  PROVE  Shows(printed[j], qj, k)
<1>0. i \in 1 .. Len(printed) /\ j \in 1 .. Len(printed) /\ Len(printed) \in Nat
  BY DEF BringupInv, BringupType
<1>1. ClockOf(j) = 8 * qj + k  BY <1>0, ClocksApart
<1>2. j # 1  BY <1>0
<1>22. InOrder  BY DEF BringupInv
<1>23. \E qq \in Nat, mm \in 1 .. 8 : 8 * qq + mm = ClockOf(j) /\ Shows(printed[j], qq, mm)
  BY <1>2, <1>22 DEF InOrder
<1>24. PICK qq \in Nat, mm \in 1 .. 8 : 8 * qq + mm = ClockOf(j) /\ Shows(printed[j], qq, mm)
  BY <1>23
<1>3. qq = qj /\ mm = k  BY <1>1, <1>24, SameBlock
<1> QED BY <1>24, <1>3

(* WholeIs: a whole block is one block of the board.                       *)
LEMMA WholeIs ==
  ASSUME BringupInv, NEW i \in H!WholeAt
  PROVE  \E q \in Nat : /\ ClockOf(i) = 8 * q + 1
                        /\ \A k \in 1 .. 8 : Shows(printed[i + k - 1], q, k)
<1>1. /\ i \in 1 .. Len(printed) - 7 /\ Len(printed) \in Nat
      /\ DOMAIN printed = 1 .. Len(printed)
      /\ \A k \in 1 .. 8 : printed[i + k - 1].kind = H!BlockLines[k]
  BY DEF H!WholeAt, BringupInv, BringupType
<1>2. i + 1 - 1 = i /\ 1 \in 1 .. 8 /\ i \in DOMAIN printed  BY <1>1
<1>3. PICK q \in Nat : 8 * q + 1 = ClockOf(i) /\ Shows(printed[i], q, 1)
  BY <1>1, <1>2, PlaceOf
<1>4. ASSUME NEW k \in 1 .. 8 PROVE Shows(printed[i + k - 1], q, k)
  <2>1. i + k - 1 \in DOMAIN printed  BY <1>1
  <2>2. PICK p \in Nat : 8 * p + k = ClockOf(i + k - 1) /\ Shows(printed[i + k - 1], p, k)
    BY <1>1, <2>1, PlaceOf
  <2>3. ClockOf(i + k - 1) = 8 * q + 1 + (k - 1)
    <3>1. ClockOf(i + k - 1) = ClockOf(i) + ((i + k - 1) - i)
      BY <1>1, ClocksApart
    <3> QED BY <1>1, <1>3, <3>1
  <2>4. p = q  BY <2>2, <2>3, SameBlock
  <2> QED BY <2>2, <2>4
<1> QED BY <1>3, <1>4

(* ValueAt: which line of a block Block() takes a value from.              *)
LEMMA ValueAt ==
  ASSUME NEW i
  PROVE  /\ H!Value(i, "cnt") = printed[i + 4 - 1].val
         /\ H!Value(i, "echo") = printed[i + 5 - 1].val
         /\ H!Value(i, "img") = printed[i + 6 - 1].val
<1>1. (CHOOSE k \in 1 .. 8 : H!BlockLines[k] = "cnt") = 4
  <2>1. H!BlockLines[4] = "cnt" /\ 4 \in 1 .. 8  BY KindsApart
  <2>2. \A k \in 1 .. 8 : H!BlockLines[k] = "cnt" => k = 4  BY <2>1, OnePlace
  <2> QED BY <2>1, <2>2
<1>2. (CHOOSE k \in 1 .. 8 : H!BlockLines[k] = "echo") = 5
  <2>1. H!BlockLines[5] = "echo" /\ 5 \in 1 .. 8  BY KindsApart
  <2>2. \A k \in 1 .. 8 : H!BlockLines[k] = "echo" => k = 5  BY <2>1, OnePlace
  <2> QED BY <2>1, <2>2
<1>3. (CHOOSE k \in 1 .. 8 : H!BlockLines[k] = "img") = 6
  <2>1. H!BlockLines[6] = "img" /\ 6 \in 1 .. 8  BY KindsApart
  <2>2. \A k \in 1 .. 8 : H!BlockLines[k] = "img" => k = 6  BY <2>1, OnePlace
  <2> QED BY <2>1, <2>2
<1> QED BY <1>1, <1>2, <1>3 DEF H!Value

(* ParsedIsSeen: the parser finds the blocks that arrived as printed.      *)
LEMMA ParsedIsSeen ==
  ASSUME BringupInv
  PROVE  /\ H!ParseBlocks(captured) = H!Seen
         /\ \A i \in H!Seen : H!Block(captured, i) = H!Block(printed, i)
<1>1. /\ Len(printed) \in Nat /\ DOMAIN printed = 1 .. Len(printed)
      /\ DOMAIN captured = 1 .. Len(printed) /\ Len(captured) = Len(printed)
  BY DEF BringupInv, BringupType
<1>2. ASSUME NEW i \in H!ParseBlocks(captured) PROVE i \in H!Seen
  <2>1. /\ i \in 1 .. Len(printed) /\ i + 8 - 1 <= Len(printed)
        /\ \A k \in 1 .. 8 : captured[i + k - 1].kind = H!BlockLines[k]
    BY <1>1, KindsApart DEF H!ParseBlocks, H!Starts, H!WellFormed
  <2>2. ASSUME NEW k \in 1 .. 8 PROVE captured[i + k - 1] = printed[i + k - 1]
    <3>1. \/ k = 1 \/ k = 2 \/ k = 3 \/ k = 4 \/ k = 5 \/ k = 6 \/ k = 7 \/ k = 8  OBVIOUS
    <3>2. H!BlockLines[k] # "junk"  BY <3>1, KindsApart
    <3>a. H!Junk.kind = "junk"  BY DEF H!Junk, H!Line
    <3>3. captured[i + k - 1] # H!Junk  BY <2>1, <3>2, <3>a
    <3>4. i + k - 1 \in DOMAIN printed  BY SMTT(60), <1>1, <2>1
    <3> QED BY <3>3, <3>4 DEF BringupInv, OnlySpoiled
  <2>3. \A k \in 1 .. 8 : printed[i + k - 1].kind = H!BlockLines[k]  BY <2>1, <2>2
  <2>4. i \in 1 .. Len(printed) - 7  BY <1>1, <2>1
  <2>5. i \in H!WholeAt  BY <2>3, <2>4 DEF H!WholeAt
  <2>6. ASSUME NEW k \in i .. i + 7 PROVE captured[k] = printed[k]
    <3>1. PICK p \in 1 .. 8 : p = k - i + 1  BY <2>1
    <3>2. k = i + p - 1  BY <2>1, <3>1
    <3> QED BY <2>2, <3>2
  <2> QED BY <2>5, <2>6 DEF H!Seen
<1>3. ASSUME NEW i \in H!Seen
      PROVE  i \in H!ParseBlocks(captured) /\ H!Block(captured, i) = H!Block(printed, i)
  <2>1. /\ i \in 1 .. Len(printed) - 7
        /\ \A k \in 1 .. 8 : printed[i + k - 1].kind = H!BlockLines[k]
        /\ \A k \in i .. i + 7 : captured[k] = printed[k]
    BY DEF H!Seen, H!WholeAt
  <2>2. \A k \in 1 .. 8 : i + k - 1 \in i .. i + 7  BY <2>1
  <2>3. \A k \in 1 .. 8 : captured[i + k - 1].kind = H!BlockLines[k]  BY <2>1, <2>2
  <2>4. i + 1 - 1 = i /\ 1 \in 1 .. 8  BY <2>1
  <2>5. captured[i].kind = "start"  BY <2>3, <2>4, KindsApart
  <2>6. i + 8 - 1 <= Len(captured) /\ i \in DOMAIN captured  BY <1>1, <2>1
  <2>7. i \in H!ParseBlocks(captured)
    BY <2>3, <2>5, <2>6, KindsApart DEF H!ParseBlocks, H!Starts, H!WellFormed
  <2>8. i + 3 \in i .. i + 7 /\ i + 4 \in i .. i + 7 /\ i + 5 \in i .. i + 7
        /\ i + 6 \in i .. i + 7
    BY <2>1
  <2>9. H!Block(captured, i) = H!Block(printed, i)  BY <2>1, <2>8 DEF H!Block
  <2> QED BY <2>7, <2>9
<1> QED BY <1>2, <1>3

(* SameCount: the count of the parser's module is that of the library.     *)
LEMMA SameCount == \A S : H!Cardinality(S) = Cardinality(S)
BY DEF H!Cardinality, Cardinality

(* NextOneUp: above an element of a chain of blocks that has others above  *)
(* it stands the next block, 8 lines on.                                   *)
LEMMA NextOneUp ==
  ASSUME NEW S, S \subseteq Nat,
         \A i, j \in S : H!Consecutive(S, i, j) => j = i + 8,
         NEW g \in S, NEW s \in S, g < s
  PROVE  g + 8 \in S /\ g + 8 <= s
<1>1. g \in Int /\ s \in Int /\ g + 1 \in Int /\ g + 1 <= s /\ S \subseteq Int  OBVIOUS
<1>2. PICK h \in S : g + 1 <= h /\ \A n \in S : g + 1 <= n => h <= n
  BY <1>1, LeastAbove
<1>3. H!Consecutive(S, g, h)
  <2>1. h \in Int /\ g < h  BY <1>1, <1>2
  <2>2. ASSUME NEW k \in S PROVE k <= g \/ h <= k
    <3>1. k \in Int  BY <1>1
    <3> QED BY <1>1, <1>2, <3>1
  <2> QED BY <2>1, <2>2 DEF H!Consecutive
<1>4. h = g + 8 /\ h <= s  BY <1>1, <1>2, <1>3
<1> QED BY <1>4

(* ChainCovers: a chain of blocks leaves no line between them.             *)
LEMMA ChainCovers ==
  ASSUME NEW S, S \subseteq Nat,
         \A i, j \in S : H!Consecutive(S, i, j) => j = i + 8,
         NEW i \in S, NEW j \in S, NEW k \in i .. j
  PROVE  \E g \in S : k \in g .. g + 7
<1>1. S \subseteq Int /\ i \in Int /\ j \in Int /\ k \in Int /\ i <= k /\ k <= j  OBVIOUS
<1>2. PICK g \in S : g <= k /\ \A n \in S : n <= k => n <= g
  <2>1. i \in S  OBVIOUS
  <2>2. S \subseteq Int /\ k \in Int /\ i <= k  BY <1>1
  <2>3. \A T \in SUBSET Int : \A a \in T, b \in Int : a <= b =>
          \E m \in T : m <= b /\ \A n \in T : n <= b => n <= m
    BY GreatestBelow
  <2>4. \A a \in S, b \in Int : a <= b =>
          \E m \in S : m <= b /\ \A n \in S : n <= b => n <= m
    <3>1. S \in SUBSET Int  BY <2>2
    <3> QED BY <2>3, <3>1
  <2>5. \A b \in Int : i <= b => \E m \in S : m <= b /\ \A n \in S : n <= b => n <= m
    BY <2>1, <2>4
  <2> QED BY <2>2, <2>5
<1>3. g \in Int  BY <1>1
<1>4. CASE k <= g + 7  BY <1>1, <1>2, <1>3, <1>4
<1>5. CASE ~(k <= g + 7)
  <2>1. g < j  BY <1>1, <1>3, <1>5
  <2>2. g + 8 \in S  BY <2>1, NextOneUp
  <2>3. g + 8 <= k  BY <1>1, <1>3, <1>5
  <2>4. g + 8 <= g  BY <1>2, <2>2, <2>3
  <2> QED BY <2>4, <1>3
<1> QED BY <1>4, <1>5

(* ChainCounts: a chain of at least n blocks has n one after the other.    *)
LEMMA ChainCounts ==
  ASSUME NEW S, S \subseteq Nat, IsFiniteSet(S), NEW n \in Nat \ {0}, Cardinality(S) >= n,
         \A i, j \in S : H!Consecutive(S, i, j) => j = i + 8
  PROVE  \E i \in S : \A k \in 0 .. n - 1 : i + 8 * k \in S
<1>1. S # {}  BY FS_EmptySet
<1>2. PICK i \in S : \A s \in S : i <= s  BY <1>1, LeastNat
<1> DEFINE D == {k \in 0 .. n - 1 : i + 8 * k \notin S}
<1>3. D = {}
  <2> SUFFICES ASSUME D # {} PROVE FALSE  OBVIOUS
  <2>1. D \subseteq Nat  OBVIOUS
  <2>2. PICK z \in D : \A k \in D : z <= k
    <3> HIDE DEF D
    <3> QED BY <2>1, LeastNat
  <2>3. z \in 0 .. n - 1 /\ i + 8 * z \notin S /\ z # 0 /\ i \in Nat  BY <2>2
  <2>4. \A k \in 0 .. z - 1 : i + 8 * k \in S
    <3> SUFFICES ASSUME NEW k \in 0 .. z - 1, i + 8 * k \notin S PROVE FALSE  OBVIOUS
    <3>1. k \in D  BY <2>3
    <3> HIDE DEF D
    <3>2. z <= k  BY <2>2, <3>1
    <3> QED BY <2>3, <3>2
  <2> HIDE DEF D
  <2> DEFINE f == [k \in 1 .. z |-> i + 8 * (k - 1)]
             T == {f[k] : k \in 1 .. z}
  <2>5. ASSUME NEW s \in S PROVE s \in T
    <3>1. s \in Nat /\ i <= s  BY <1>2
    <3>2. PICK m \in Nat : i + 8 * m <= s /\ s <= i + 8 * m + 7
      <4>1. s - i \in Nat  BY <2>3, <3>1
      <4>2. PICK m \in Nat : 8 * m <= s - i /\ s - i <= 8 * m + 7
        <5>1. (s - i) \div 8 \in Nat /\ 8 * ((s - i) \div 8) <= s - i
              /\ s - i <= 8 * ((s - i) \div 8) + 7
          BY <4>1
        <5> QED BY <5>1
      <4> QED BY <4>2, <2>3, <3>1
    <3>3. m < z
      <4> SUFFICES ASSUME ~(m < z) PROVE FALSE  OBVIOUS
      <4>1. i + 8 * (z - 1) \in S  BY <2>3, <2>4
      <4>2. i + 8 * (z - 1) < s  BY <2>3, <3>1, <3>2
      <4>3. i + 8 * (z - 1) + 8 \in S  BY <4>1, <4>2, NextOneUp
      <4>4. i + 8 * (z - 1) + 8 = i + 8 * z  BY <2>3
      <4> QED BY <4>3, <4>4, <2>3
    <3>4. i + 8 * m \in S  BY <3>3, <2>3, <2>4
    <3>5. i + 8 * m = s
      <4> SUFFICES ASSUME i + 8 * m # s PROVE FALSE  OBVIOUS
      <4>1. i + 8 * m < s  BY <2>3, <3>1, <3>2
      <4>2. i + 8 * m + 8 <= s  BY <3>4, <4>1, NextOneUp
      <4> QED BY <4>2, <3>2, <2>3, <3>1
    <3>6. m + 1 \in 1 .. z /\ f[m + 1] = s  BY <3>3, <3>5, <2>3
    <3> QED BY <3>6
  <2>6. f \in Surjection(1 .. z, T)  BY DEF Surjection
  <2>7. IsFiniteSet(1 .. z) /\ Cardinality(1 .. z) = z
    BY <2>3, FS_Interval
  <2>8. IsFiniteSet(T) /\ Cardinality(T) <= z
    <3> HIDE DEF f, T
    <3> QED BY <2>6, <2>7, FS_Surjection
  <2>9. Cardinality(S) <= Cardinality(T) /\ Cardinality(S) \in Nat /\ Cardinality(T) \in Nat
    <3> HIDE DEF f, T
    <3>1. S \in SUBSET T  BY <2>5
    <3> QED BY <3>1, <2>8, FS_Subset, FS_CardinalityType
  <2> HIDE DEF T
  <2> QED BY <2>3, <2>8, <2>9
<1>4. \A k \in 0 .. n - 1 : i + 8 * k \in S  BY <1>3
<1> QED BY <1>4

(* SeenFinite: there are finitely many whole blocks.                       *)
LEMMA SeenFinite ==
  ASSUME BringupInv
  PROVE  /\ H!Seen \subseteq H!WholeAt /\ H!WholeAt \subseteq Nat
         /\ IsFiniteSet(H!Seen) /\ IsFiniteSet(H!WholeAt)
<1>1. Len(printed) \in Nat  BY DEF BringupInv, BringupType
<1>2. H!Seen \subseteq H!WholeAt /\ H!WholeAt \subseteq 1 .. Len(printed) - 7
  BY DEF H!Seen, H!WholeAt
<1>3. IsFiniteSet(1 .. Len(printed) - 7) /\ (1 .. Len(printed) - 7) \subseteq Nat
  <2>1. 1 \in Int /\ Len(printed) - 7 \in Int  BY <1>1
  <2>2. IsFiniteSet(1 .. Len(printed) - 7)  BY <2>1, FS_Interval
  <2> QED BY <1>1, <2>2
<1>4. IsFiniteSet(H!WholeAt)  BY <1>2, <1>3, FS_Subset
<1>5. IsFiniteSet(H!Seen)  BY <1>2, <1>4, FS_Subset
<1> QED BY <1>2, <1>3, <1>4, <1>5

(* BlockShows: what a whole block carries.                                 *)
LEMMA BlockShows ==
  ASSUME BringupInv, NEW i \in H!WholeAt
  PROVE  \E q \in Nat :
           /\ ClockOf(i) = 8 * q + 1 /\ i \in Nat
           /\ H!Block(printed, i).iter = q
           /\ H!Block(printed, i).mcycle = H!Value(i, "cnt")
           /\ H!Block(printed, i).img = H!Value(i, "img")
           /\ H!Block(printed, i).echo = H!Value(i, "echo")
           /\ H!Value(i, "cnt") \in Nat
           /\ H!Value(i, "echo") \in {"none", H!Byte, H!Older}
           /\ programmed => H!Value(i, "echo") # H!Older
           /\ board.fault # "image" => H!Value(i, "img") = "OK"
<1>1. i \in Nat
  <2>1. Len(printed) \in Nat  BY DEF BringupInv, BringupType
  <2> QED BY <2>1 DEF H!WholeAt
<1>2. PICK q \in Nat : /\ ClockOf(i) = 8 * q + 1
                       /\ \A k \in 1 .. 8 : Shows(printed[i + k - 1], q, k)
  BY WholeIs
<1>3. i + 4 - 1 = i + 3 /\ i + 5 - 1 = i + 4 /\ i + 6 - 1 = i + 5 /\ i + 7 - 1 = i + 6
  BY <1>1
<1>4. /\ Shows(printed[i + 3], q, 4) /\ Shows(printed[i + 4], q, 5)
      /\ Shows(printed[i + 5], q, 6) /\ Shows(printed[i + 6], q, 7)
  <2>1. 4 \in 1 .. 8 /\ 5 \in 1 .. 8 /\ 6 \in 1 .. 8 /\ 7 \in 1 .. 8  OBVIOUS
  <2> QED BY <1>2, <1>3, <2>1
<1>5. /\ H!Value(i, "cnt") = printed[i + 3].val
      /\ H!Value(i, "echo") = printed[i + 4].val
      /\ H!Value(i, "img") = printed[i + 5].val
  BY <1>3, ValueAt
<1>6. /\ H!Block(printed, i).iter = printed[i + 6].val
      /\ H!Block(printed, i).mcycle = printed[i + 3].val
      /\ H!Block(printed, i).img = printed[i + 5].val
      /\ H!Block(printed, i).echo = printed[i + 4].val
  BY DEF H!Block
<1>7. /\ printed[i + 6].val = q /\ printed[i + 3].val \in Nat
      /\ printed[i + 4].val \in {"none", H!Byte, H!Older}
      /\ programmed => printed[i + 4].val # H!Older
      /\ board.fault # "image" => printed[i + 5].val = "OK"
  BY <1>4 DEF Shows
<1> QED BY <1>1, <1>2, <1>5, <1>6, <1>7

(* NextBlock: two whole blocks whose count differs by one are 8 apart.     *)
LEMMA NextBlock ==
  ASSUME BringupInv, NEW i \in H!WholeAt, NEW j \in H!WholeAt
  PROVE  H!Block(printed, j).iter = H!Block(printed, i).iter + 1 <=> j = i + 8
<1>1. PICK p \in Nat : ClockOf(i) = 8 * p + 1 /\ i \in Nat /\ H!Block(printed, i).iter = p
  BY BlockShows
<1>2. PICK q \in Nat : ClockOf(j) = 8 * q + 1 /\ j \in Nat /\ H!Block(printed, j).iter = q
  BY BlockShows
<1>i. i \in Int /\ j \in Int  BY <1>1, <1>2
<1>3. ClockOf(j) = ClockOf(i) + (j - i)  BY <1>i, ClocksApart
<1> QED BY <1>1, <1>2, <1>3

(* AliveWhenAccepted: what the parser checked of the blocks that arrived   *)
(* holds of blocks the board printed one after the other.                  *)
LEMMA AliveWhenAccepted ==
  ASSUME BringupInv, H!Check(captured), BringupAssumption
  PROVE  /\ \E i \in H!WholeAt : \A k \in 0 .. MinBlocks - 1 :
              /\ i + 8 * k \in H!WholeAt /\ H!Value(i + 8 * k, "img") = "OK"
              /\ k > 0 => H!Value(i + 8 * k, "cnt") > H!Value(i + 8 * (k - 1), "cnt")
         /\ \E i \in H!WholeAt : /\ H!Value(i, "echo") \in {H!Byte, H!Older}
                                 /\ programmed => H!Value(i, "echo") = H!Byte
         /\ \A i, j \in H!Seen : \A k \in i .. j : captured[k] = printed[k]
<1>1. /\ H!Seen \subseteq H!WholeAt /\ H!WholeAt \subseteq Nat /\ IsFiniteSet(H!Seen)
      /\ H!Seen \subseteq Nat
  BY SeenFinite
<1>2. /\ Cardinality(H!Seen) >= MinBlocks
      /\ \A i, j \in H!Seen :
           H!Consecutive(H!Seen, i, j) => H!Moves(H!Block(printed, i), H!Block(printed, j))
      /\ \A i \in H!Seen : H!Block(printed, i).img = "OK"
      /\ \E i \in H!Seen : H!Block(printed, i).echo \in {H!Byte, H!Older}
  <2>1. /\ H!Cardinality(H!ParseBlocks(captured)) >= MinBlocks
        /\ \A i, j \in H!ParseBlocks(captured) :
             H!Consecutive(H!ParseBlocks(captured), i, j) =>
               H!Moves(H!Block(captured, i), H!Block(captured, j))
        /\ \A i \in H!ParseBlocks(captured) : H!Block(captured, i).img = "OK"
        /\ \E i \in H!ParseBlocks(captured) : H!Block(captured, i).echo \in {H!Byte, H!Older}
    BY DEF H!Check
  <2>2. /\ H!ParseBlocks(captured) = H!Seen
        /\ \A i \in H!Seen : H!Block(captured, i) = H!Block(printed, i)
    BY ParsedIsSeen
  <2>3. /\ Cardinality(H!Seen) >= MinBlocks
        /\ \A i, j \in H!Seen :
             H!Consecutive(H!Seen, i, j) => H!Moves(H!Block(captured, i), H!Block(captured, j))
        /\ \A i \in H!Seen : H!Block(captured, i).img = "OK"
        /\ \E i \in H!Seen : H!Block(captured, i).echo \in {H!Byte, H!Older}
    BY <2>1, <2>2, SameCount
  <2>4. ASSUME NEW i \in H!Seen, NEW j \in H!Seen, H!Consecutive(H!Seen, i, j)
        PROVE  H!Moves(H!Block(printed, i), H!Block(printed, j))
    <3>1. H!Moves(H!Block(captured, i), H!Block(captured, j))  BY <2>3, <2>4
    <3>2. H!Block(captured, i) = H!Block(printed, i) /\ H!Block(captured, j) = H!Block(printed, j)
      BY <2>2
    <3> QED BY <3>1, <3>2
  <2> QED BY <2>2, <2>3, <2>4
<1>3. \A i, j \in H!Seen : H!Consecutive(H!Seen, i, j) => j = i + 8
  <2> SUFFICES ASSUME NEW i \in H!Seen, NEW j \in H!Seen, H!Consecutive(H!Seen, i, j)
               PROVE  j = i + 8
    OBVIOUS
  <2>1. H!Block(printed, j).iter = H!Block(printed, i).iter + 1  BY <1>2 DEF H!Moves
  <2>2. i \in H!WholeAt /\ j \in H!WholeAt  BY <1>1
  <2> QED BY <2>1, <2>2, NextBlock
<1>4. \E i \in H!Seen : \A k \in 0 .. MinBlocks - 1 : i + 8 * k \in H!Seen
  <2>1. MinBlocks \in Nat \ {0}  BY DEF BringupAssumption
  <2> QED BY <1>1, <1>2, <1>3, <2>1, ChainCounts
<1>5. PICK i \in H!Seen : \A k \in 0 .. MinBlocks - 1 : i + 8 * k \in H!Seen
  BY <1>4
<1>6. i \in Nat /\ MinBlocks \in Nat  BY <1>1 DEF BringupAssumption
<1>7. ASSUME NEW k \in 0 .. MinBlocks - 1
      PROVE  /\ i + 8 * k \in H!WholeAt /\ H!Value(i + 8 * k, "img") = "OK"
             /\ k > 0 => H!Value(i + 8 * k, "cnt") > H!Value(i + 8 * (k - 1), "cnt")
  <2>1. i + 8 * k \in H!Seen /\ i + 8 * k \in H!WholeAt  BY <1>1, <1>5
  <2>2. H!Value(i + 8 * k, "img") = "OK"
    <3>1. H!Block(printed, i + 8 * k).img = H!Value(i + 8 * k, "img")  BY <2>1, BlockShows
    <3> QED BY <2>1, <3>1, <1>2
  <2>3. ASSUME k > 0
        PROVE  H!Value(i + 8 * k, "cnt") > H!Value(i + 8 * (k - 1), "cnt")
    <3> DEFINE g == i + 8 * (k - 1)
               h == i + 8 * k
    <3>1. g \in H!Seen /\ h \in H!Seen /\ g < h /\ h = g + 8 /\ g \in Nat
      <4>1. k - 1 \in 0 .. MinBlocks - 1  BY <2>3, <1>6
      <4>2. g \in H!Seen  BY <4>1, <1>5
      <4>3. g < h /\ h = g + 8 /\ g \in Nat  BY <1>6, <2>3
      <4> QED BY <2>1, <4>2, <4>3
    <3> HIDE DEF g, h
    <3>2. H!Consecutive(H!Seen, g, h)
      <4>1. ASSUME NEW s \in H!Seen PROVE s <= g \/ h <= s
        <5>1. s \in Nat  BY <1>1
        <5>2. CASE g < s
          <6>1. g + 8 <= s  BY <3>1, <5>2, <1>1, <1>3, NextOneUp
          <6> QED BY <6>1, <3>1
        <5> QED BY <5>1, <5>2, <3>1
      <4> QED BY <3>1, <4>1 DEF H!Consecutive
    <3>3. H!Block(printed, h).mcycle > H!Block(printed, g).mcycle
      BY <3>1, <3>2, <1>2 DEF H!Moves
    <3>4. /\ H!Block(printed, h).mcycle = H!Value(h, "cnt")
          /\ H!Block(printed, g).mcycle = H!Value(g, "cnt")
      <4>1. g \in H!WholeAt /\ h \in H!WholeAt  BY <3>1, <1>1
      <4> QED BY <4>1, BlockShows
    <3>5. H!Value(h, "cnt") > H!Value(g, "cnt")  BY <3>3, <3>4
    <3> QED BY <3>5 DEF g, h
  <2> QED BY <2>1, <2>2, <2>3
<1>8. \E e \in H!WholeAt : /\ H!Value(e, "echo") \in {H!Byte, H!Older}
                           /\ programmed => H!Value(e, "echo") = H!Byte
  <2>1. PICK e \in H!Seen : H!Block(printed, e).echo \in {H!Byte, H!Older}  BY <1>2
  <2>2. e \in H!WholeAt  BY <1>1
  <2>3. /\ H!Block(printed, e).echo = H!Value(e, "echo")
        /\ programmed => H!Value(e, "echo") # H!Older
    BY <2>2, BlockShows
  <2> QED BY <2>1, <2>2, <2>3
<1>9. ASSUME NEW a \in H!Seen, NEW b \in H!Seen, NEW k \in a .. b
      PROVE  captured[k] = printed[k]
  <2>1. PICK g \in H!Seen : k \in g .. g + 7  BY <1>1, <1>3, ChainCovers
  <2> QED BY <2>1 DEF H!Seen
<1> QED BY <1>1, <1>5, <1>7, <1>8, <1>9

(* WholeAhead: from a line that starts a block, the next lines are the     *)
(* block, if they were all printed.                                        *)
LEMMA WholeAhead ==
  ASSUME BringupInv, NEW i \in DOMAIN printed, NEW q \in Nat, 8 * q + 1 = ClockOf(i),
         printed[i].kind = "start", i + 7 <= Len(printed)
  PROVE  i \in H!WholeAt
<1>1. Len(printed) \in Nat /\ DOMAIN printed = 1 .. Len(printed)
  BY DEF BringupInv, BringupType
<1>2. ASSUME NEW k \in 1 .. 8 PROVE printed[i + k - 1].kind = H!BlockLines[k]
  <2>1. CASE k = 1
    <3>1. i + k - 1 = i  BY <1>1, <2>1
    <3> QED BY <3>1, <2>1, KindsApart
  <2>2. CASE k # 1
    <3> DEFINE j == i + k - 1
    <3>1. j \in DOMAIN printed /\ i < j /\ j - i = k - 1  BY <1>1, <2>2
    <3>2. 8 * q + k = 8 * q + 1 + (j - i)  BY <3>1
    <3> HIDE DEF j
    <3>3. 1 \in 1 .. 8  OBVIOUS
    <3>4. Shows(printed[j], q, k)  BY <3>1, <3>2, <3>3, KindAhead
    <3> QED BY <3>4 DEF Shows, j
  <2> QED BY <2>1, <2>2
<1>3. i \in 1 .. Len(printed) - 7  BY <1>1
<1> QED BY <1>2, <1>3 DEF H!WholeAt

(* AcceptedWhenClean: what the parser can object to in a clean capture of  *)
(* a healthy board.                                                        *)
LEMMA AcceptedWhenClean ==
  ASSUME BringupInv, captured = printed, board.fault = "none",
         Cardinality(H!WholeAt) >= MinBlocks,
         NEW e \in H!WholeAt, H!Value(e, "echo") # "none",
         \A i, j \in H!WholeAt : i < j => ~(H!Value(j, "cnt") < H!Value(i, "cnt"))
  PROVE  H!Check(captured)
<1>1. /\ Len(printed) \in Nat /\ DOMAIN printed = 1 .. Len(printed)
      /\ Len(captured) = Len(printed)
  BY DEF BringupInv, BringupType
<1>2. H!Seen = H!WholeAt /\ H!ParseBlocks(captured) = H!WholeAt
  <2>1. H!Seen = H!WholeAt  BY DEF H!Seen
  <2> QED BY <2>1, ParsedIsSeen
<1>3. H!Malformed(captured) = {}
  <2> SUFFICES ASSUME NEW i \in H!Starts(printed), H!Closed(printed, i)
               PROVE  H!WellFormed(printed, i)
    BY DEF H!Malformed
  <2>1. i \in 1 .. Len(printed) /\ printed[i].kind = "start"  BY <1>1 DEF H!Starts
  <2>2. PICK j \in i + 1 .. Len(printed) : printed[j].kind = "end"  BY DEF H!Closed
  <2>3. PICK q \in Nat : 8 * q + 1 = ClockOf(i)
    <3>1. printed[i].kind = H!BlockLines[1] /\ 1 \in 1 .. 8  BY <2>1, KindsApart
    <3> QED BY <3>1, <2>1, <1>1, PlaceOf
  <2>4. PICK p \in Nat : 8 * p + 8 = ClockOf(j)
    <3>1. printed[j].kind = H!BlockLines[8] /\ 8 \in 1 .. 8  BY <2>2, KindsApart
    <3>2. j \in DOMAIN printed  BY <2>1, <2>2, <1>1
    <3> QED BY <3>1, <3>2, PlaceOf
  <2>5. ClockOf(j) = ClockOf(i) + (j - i)
    <3>1. i \in Int /\ j \in Int  BY <2>1, <2>2, <1>1
    <3> QED BY <3>1, ClocksApart
  <2>6. i + 7 <= j  BY <2>1, <2>2, <2>3, <2>4, <2>5, <1>1
  <2>7. i + 7 <= Len(printed)  BY <2>1, <2>2, <2>6, <1>1
  <2>8. i \in H!WholeAt  BY <1>1, <2>1, <2>3, <2>7, WholeAhead
  <2>9. /\ i + 8 - 1 <= Len(printed)
        /\ \A k \in 1 .. 8 : printed[i + k - 1].kind = H!BlockLines[k]
    BY <1>1, <2>1, <2>7, <2>8 DEF H!WholeAt
  <2> QED BY <2>9, KindsApart DEF H!WellFormed
<1>4. ASSUME NEW i \in H!WholeAt, NEW j \in H!WholeAt, H!Consecutive(H!WholeAt, i, j)
      PROVE  H!Moves(H!Block(printed, i), H!Block(printed, j))
  <2>1. PICK q \in Nat : /\ ClockOf(i) = 8 * q + 1 /\ i \in Nat
                         /\ H!Block(printed, i).iter = q
                         /\ H!Block(printed, i).mcycle = H!Value(i, "cnt")
                         /\ H!Value(i, "cnt") \in Nat
    BY BlockShows
  <2>2. PICK p \in Nat : /\ ClockOf(j) = 8 * p + 1 /\ j \in Nat
                         /\ H!Block(printed, j).iter = p
                         /\ H!Block(printed, j).mcycle = H!Value(j, "cnt")
                         /\ H!Value(j, "cnt") \in Nat
    BY BlockShows
  <2>3. i < j /\ \A k \in H!WholeAt : k <= i \/ j <= k  BY <1>4 DEF H!Consecutive
  <2>4. ClockOf(j) = ClockOf(i) + (j - i) /\ ClockOf(i + 8) = ClockOf(i) + (i + 8 - i)
    <3>1. i \in Int /\ j \in Int /\ i + 8 \in Int  BY <2>1, <2>2
    <3> QED BY <3>1, ClocksApart
  <2>5. i + 8 <= j  BY <2>1, <2>2, <2>3, <2>4
  <2>6. j \in 1 .. Len(printed) - 7 /\ i \in 1 .. Len(printed) - 7  BY DEF H!WholeAt
  <2>7. i + 8 \in DOMAIN printed /\ i + 8 + 7 <= Len(printed) /\ i \in DOMAIN printed
        /\ i + 3 \in DOMAIN printed /\ i + 11 \in DOMAIN printed
    <3>1. i \in Nat /\ j \in Nat /\ 1 <= i /\ i + 8 <= j /\ j <= Len(printed) - 7
          /\ Len(printed) \in Nat /\ DOMAIN printed = 1 .. Len(printed)
      BY <1>1, <2>1, <2>2, <2>5, <2>6
    <3> QED BY <3>1
  <2>8. i + 8 \in H!WholeAt
    <3>1. 8 * (q + 1) + 1 = ClockOf(i + 8) /\ q + 1 \in Nat  BY <2>1, <2>4
    <3>2. printed[i + 8].kind = "start"
      <4>1. /\ 1 \in 1 .. 8 /\ i < i + 8 /\ 8 * q + 1 = ClockOf(i)
            /\ 8 * (q + 1) + 1 = 8 * q + 1 + ((i + 8) - i)
        BY <2>1
      <4>2. Shows(printed[i + 8], q + 1, 1)  BY <4>1, <3>1, <2>7, KindAhead
      <4> QED BY <4>2, KindsApart DEF Shows
    <3> QED BY <3>1, <3>2, <2>7, WholeAhead
  <2>9. j = i + 8  BY <2>1, <2>2, <2>3, <2>5, <2>8
  <2>10. H!Block(printed, j).iter = H!Block(printed, i).iter + 1  BY <2>9, NextBlock
  <2>11. H!Value(j, "cnt") # H!Value(i, "cnt")
    <3>1. CountsMove  BY DEF BringupInv
    <3>2. ClockOf(i + 3) = 8 * q + 4
      <4>1. i \in Int /\ i + 3 \in Int  BY <2>1
      <4>2. ClockOf(i + 3) = ClockOf(i) + ((i + 3) - i)  BY <4>1, ClocksApart
      <4> QED BY <4>2, <2>1
    <3>3. printed[i + 3].kind = "cnt"
      <4>1. 4 \in 1 .. 8 /\ i + 4 - 1 = i + 3  BY <2>1
      <4>2. printed[i + 4 - 1].kind = H!BlockLines[4]  BY <4>1 DEF H!WholeAt
      <4> QED BY <4>1, <4>2, KindsApart
    <3>4. (i + 3) + 8 = i + 11 /\ (i + 3) + 8 = j + 3  BY <2>1, <2>9
    <3>5. (i + 3) + 8 \in DOMAIN printed  BY <3>4, <2>7
    <3>6. printed[(i + 3) + 8].val # printed[i + 3].val
      BY <3>1, <3>2, <3>3, <3>5, <2>7 DEF CountsMove
    <3>7. i + 4 - 1 = i + 3 /\ j + 4 - 1 = j + 3  BY <2>1, <2>2
    <3> QED BY <3>4, <3>6, <3>7, ValueAt
  <2>12. ~(H!Value(j, "cnt") < H!Value(i, "cnt"))  BY <2>3
  <2>13. H!Value(j, "cnt") > H!Value(i, "cnt")  BY <2>11, <2>12, <2>1, <2>2
  <2> QED BY <2>1, <2>2, <2>10, <2>13 DEF H!Moves
<1>5. ASSUME NEW i \in H!WholeAt PROVE H!Block(printed, i).img = "OK"
  BY BlockShows
<1>6. H!Block(printed, e).echo \in {H!Byte, H!Older}  BY BlockShows
<1>7. H!Cardinality(H!ParseBlocks(captured)) >= MinBlocks  BY <1>2, SameCount
<1>8. \A i, j \in H!ParseBlocks(captured) :
        H!Consecutive(H!ParseBlocks(captured), i, j) =>
          H!Moves(H!Block(captured, i), H!Block(captured, j))
  BY <1>2, <1>4
<1>9. /\ \A i \in H!ParseBlocks(captured) : H!Block(captured, i).img = "OK"
      /\ \E i \in H!ParseBlocks(captured) : H!Block(captured, i).echo \in {H!Byte, H!Older}
  BY <1>2, <1>5, <1>6
<1> QED BY <1>3, <1>7, <1>8, <1>9 DEF H!Check

(* BringupAccepted: for every number of blocks asked for, whatever the     *)
(* board, its fault and the line: SOC_UART_OK means a board that is alive, *)
(* and, if the run programmed it, the echo of the byte that was sent.      *)
THEOREM BringupAccepted == BoardSpec => []BringupAcceptedIsAlive
<1>1. (part = "bringup" => BringupInv) => BringupAcceptedIsAlive
  <2> SUFFICES ASSUME BringupInv, H!Judged, exit = "0"
               PROVE  H!AcceptedIsAlive /\ H!EchoIsOurs
    BY DEF BringupAcceptedIsAlive, H!AcceptedIsAlive, H!EchoIsOurs
  <2>1. H!Check(captured)  BY DEF H!Judged, BringupInv, Verdict
  <2>2. BringupAssumption  BY BringupAssumption
  <2> QED BY <2>1, <2>2, AliveWhenAccepted DEF H!AcceptedIsAlive, H!EchoIsOurs
<1> QED BY <1>1, BringupSafe, PTL

(* BringupRejected: a healthy board with a clean line is refused for cause.*)
THEOREM BringupRejected == BoardSpec => []BringupRejectedForCause
<1>1. (part = "bringup" => BringupInv) => BringupRejectedForCause
  <2> SUFFICES ASSUME BringupInv, H!Judged, exit = "1", captured = printed,
                      board.fault = "none", ~(H!Cardinality(H!WholeAt) < MinBlocks),
                      ~ \A i \in H!WholeAt : H!Value(i, "echo") = "none",
                      ~ \E i, j \in H!WholeAt : i < j /\ H!Value(j, "cnt") < H!Value(i, "cnt")
               PROVE  FALSE
    BY DEF BringupRejectedForCause, H!RejectedForCause
  <2>a. PICK e \in H!WholeAt : H!Value(e, "echo") # "none"  OBVIOUS
  <2>1. ~H!Check(captured)  BY DEF H!Judged, BringupInv, Verdict
  <2>2. Cardinality(H!WholeAt) >= MinBlocks
    <3>1. Cardinality(H!WholeAt) \in Nat  BY SeenFinite, FS_CardinalityType
    <3>2. MinBlocks \in Nat  BY BringupAssumption DEF BringupAssumption
    <3> QED BY <3>1, <3>2, SameCount
  <2>3. \A i, j \in H!WholeAt : i < j => ~(H!Value(j, "cnt") < H!Value(i, "cnt"))
    OBVIOUS
  <2> QED BY <2>a, <2>1, <2>2, <2>3, AcceptedWhenClean
<1> QED BY <1>1, BringupSafe, PTL
-----------------------------------------------------------------------------
(* The capture.                                                            *)

Slot == [begin |-> 1, host |-> 2, flags |-> 3, cycles |-> 4, window |-> 5,
         instret |-> 6, check |-> 7, error |-> 8, seed |-> 9, crc |-> 10,
         hpm1 |-> 11, hpm2 |-> 12, end |-> 13]
Figures == Int \cup {"right", "wrong"}
CaptureLines == [from : Nat \ {0}, kind : DOMAIN Slot, val : Figures]
BenchType ==
  /\ fault \in B!Faults /\ hit \in SUBSET (1 .. Blocks)
  /\ window \in B!Lines \X B!Lines /\ window[1] <= window[2]
  /\ opt \in [mode : {"score", "functional"}, minBlocks : Nat, warmup : Nat,
              tolerance : 0 .. 4, allowShort : BOOLEAN]
  /\ lost \in SUBSET B!Lines /\ at \in Nat /\ inside \in BOOLEAN
  /\ cur \in Seq(CaptureLines) /\ blocks \in Seq(Seq(CaptureLines))
  /\ parsed \in Seq([B!Needed -> CaptureLines])
  /\ verdict \in {"none", "ok", "fail"}

Spanned ==
  /\ window[1] <= at /\ at <= window[2] + 1
  /\ \A p \in lost : p < at
  /\ IsFiniteSet(lost) /\ Cardinality(lost) <= MaxLost
  /\ fault = "host" => lost = {}
  /\ fault \in {"none", "host", "brim"} => hit = 1 .. Blocks

\* Where a line was printed.
Pos(line) == 13 * (line.from - 1) + Slot[line.kind]
Marker(p) == B!KindAt(p) \in {"begin", "end"}
Rising(block) == \A i, j \in DOMAIN block : i < j => Pos(block[i]) < Pos(block[j])
\* A block is what arrived between two positions, the first of a begin, with no
\* marker arriving between them.
Cut(block, b, e, gone) ==
  /\ b < e /\ window[1] <= b /\ B!KindAt(b) = "begin"
  /\ \A p \in b + 1 .. e - 1 : Marker(p) => p \in gone
  /\ \A i \in DOMAIN block : /\ Pos(block[i]) \in b + 1 .. e - 1
                             /\ block[i] = B!Line(Pos(block[i]))
                             /\ B!Prints(Pos(block[i]))
  /\ \A p \in b + 1 .. e - 1 :
       p \notin gone /\ B!Prints(p) => \E i \in DOMAIN block : block[i] = B!Line(p)
  /\ Rising(block)

Within ==
  /\ inside => \E b \in B!Lines : Cut(cur, b, at, lost)
  /\ ~inside => cur = <<>>
Separate ==
  \A n \in DOMAIN blocks :
    \E b, e \in B!Lines : Cut(blocks[n], b, e, lost) /\ B!KindAt(e) = "end" /\ e < at
Ordered ==
  /\ \A n, m \in DOMAIN blocks : n < m =>
       \A i \in DOMAIN blocks[n], j \in DOMAIN blocks[m] :
         Pos(blocks[n][i]) < Pos(blocks[m][j])
  /\ \A n \in DOMAIN blocks : \A i \in DOMAIN blocks[n], j \in DOMAIN cur :
       Pos(blocks[n][i]) < Pos(cur[j])

\* What parse_block() requires.
Passes(block) ==
  /\ B!Whole(block) /\ B!Valid(block) /\ B!RightSource(block)
  /\ \/ opt.mode = "functional"
     \/ B!Derives(B!First(block, "cycles").val, B!First(block, "window").val,
                  B!First(block, "instret").val)
InTurn ==
  /\ Len(parsed) <= Len(blocks) /\ (at <= window[2] => parsed = <<>> /\ verdict = "none")
  /\ \A n \in DOMAIN parsed :
       /\ Passes(blocks[n])
       /\ \A kind \in B!Needed : parsed[n][kind] = B!First(blocks[n], kind)
  /\ verdict = "ok" =>
       /\ ~B!TooFew /\ Len(parsed) = Len(blocks)
       /\ opt.mode = "functional" \/ B!Reproducible

\* Nothing lost: the blocks are those in the window.
Arrived == {k \in 1 .. Blocks : window[1] <= (k - 1) * 13 + 1 /\ k * 13 < at}
Complete ==
  lost = {} =>
    /\ \A k \in Nat, m \in 1 .. 13 : at = 13 * k + m =>
         (inside <=> m > 1 /\ window[1] <= 13 * k + 1)
    /\ Len(blocks) = Cardinality(Arrived)
Healthy ==
  LET n == Cardinality({k \in 1 .. Blocks : B!InWindow(k)})
  IN  /\ fault \in B!Harmless /\ lost = {} /\ opt.mode = "score"
      /\ n >= opt.minBlocks /\ n >= 1
      /\ n >= 2 => n - opt.warmup >= 2 /\ (opt.warmup = 1 \/ ~B!InWindow(1))

BenchInv ==
  /\ BenchType /\ Spanned /\ Within /\ Separate /\ Ordered /\ InTurn
  /\ Complete /\ (verdict = "fail" => ~Healthy)

(* OneBench: a step of the board with its capture is a step of             *)
(* BenchCapture.                                                           *)
LEMMA OneBench ==
  ASSUME [BoardNext]_boardVars
  PROVE  /\ part' = part
         /\ part = "bench" => [B!Next]_(B!vars)
BY DEF BoardNext, OnlyBringup, OnlyUart, OnlyBench, boardVars, benchVars, B!vars

(* KindsAt: the lines of a report block of bench_main.c, in their order.   *)
LEMMA KindsAt ==
  /\ Len(B!Kinds) = 13 /\ DOMAIN B!Kinds = 1 .. 13
  /\ B!Kinds[1] = "begin" /\ B!Kinds[2] = "host" /\ B!Kinds[3] = "flags"
  /\ B!Kinds[4] = "cycles" /\ B!Kinds[5] = "window" /\ B!Kinds[6] = "instret"
  /\ B!Kinds[7] = "check" /\ B!Kinds[8] = "error" /\ B!Kinds[9] = "seed"
  /\ B!Kinds[10] = "crc" /\ B!Kinds[11] = "hpm1" /\ B!Kinds[12] = "hpm2"
  /\ B!Kinds[13] = "end"
BY DEF B!Kinds

(* SlotsAt: and the place of each.                                         *)
LEMMA SlotsAt ==
  /\ DOMAIN Slot = {"begin", "host", "flags", "cycles", "window", "instret", "check",
                    "error", "seed", "crc", "hpm1", "hpm2", "end"}
  /\ Slot["begin"] = 1 /\ Slot["host"] = 2 /\ Slot["flags"] = 3 /\ Slot["cycles"] = 4
  /\ Slot["window"] = 5 /\ Slot["instret"] = 6 /\ Slot["check"] = 7 /\ Slot["error"] = 8
  /\ Slot["seed"] = 9 /\ Slot["crc"] = 10 /\ Slot["hpm1"] = 11 /\ Slot["hpm2"] = 12
  /\ Slot["end"] = 13
BY DEF Slot

(* SlotOfKind: a kind of line has one place in a block.                    *)
LEMMA SlotOfKind ==
  /\ \A m \in 1 .. 13 : B!Kinds[m] \in DOMAIN Slot /\ Slot[B!Kinds[m]] = m
  /\ \A kind \in DOMAIN Slot : Slot[kind] \in 1 .. 13 /\ B!Kinds[Slot[kind]] = kind
<1>1. ASSUME NEW m \in 1 .. 13
      PROVE  B!Kinds[m] \in DOMAIN Slot /\ Slot[B!Kinds[m]] = m
  <2>1. \/ m = 1 \/ m = 2 \/ m = 3 \/ m = 4 \/ m = 5 \/ m = 6 \/ m = 7
        \/ m = 8 \/ m = 9 \/ m = 10 \/ m = 11 \/ m = 12 \/ m = 13
    OBVIOUS
  <2> QED BY <2>1, KindsAt, SlotsAt
<1>2. ASSUME NEW kind \in DOMAIN Slot
      PROVE  Slot[kind] \in 1 .. 13 /\ B!Kinds[Slot[kind]] = kind
  BY KindsAt, SlotsAt
<1> QED BY <1>1, <1>2

(* PosOf: a line of the program tells where it was printed.                *)
LEMMA PosOf ==
  ASSUME NEW p \in Nat \ {0}
  PROVE  /\ B!From(p) \in Nat \ {0} /\ B!KindAt(p) \in DOMAIN Slot
         /\ Slot[B!KindAt(p)] \in 1 .. 13
         /\ p = 13 * (B!From(p) - 1) + Slot[B!KindAt(p)]
         /\ B!Line(p).from = B!From(p) /\ B!Line(p).kind = B!KindAt(p)
         /\ B!Line(p).val = B!Value(B!From(p), B!KindAt(p))
         /\ Pos(B!Line(p)) = p
<1>1. PICK d \in Nat : d = (p - 1) \div 13  OBVIOUS
<1>2. PICK m \in 1 .. 13 : m = ((p - 1) % 13) + 1  OBVIOUS
<1>3. p = 13 * d + m  BY <1>1, <1>2
<1>4. B!From(p) = d + 1 /\ B!KindAt(p) = B!Kinds[m]
  BY <1>1, <1>2, KindsAt DEF B!From, B!KindAt
<1>5. Slot[B!KindAt(p)] = m /\ B!KindAt(p) \in DOMAIN Slot  BY <1>4, SlotOfKind
<1>6. /\ B!Line(p).from = B!From(p) /\ B!Line(p).kind = B!KindAt(p)
      /\ B!Line(p).val = B!Value(B!From(p), B!KindAt(p))
  BY DEF B!Line
<1>7. p = 13 * (B!From(p) - 1) + m  BY <1>3, <1>4
<1> QED BY <1>4, <1>5, <1>6, <1>7 DEF Pos

(* AtSlot: and so does its place in its block.                             *)
LEMMA AtSlot ==
  ASSUME NEW k \in Nat \ {0}, NEW kind \in DOMAIN Slot,
         NEW p, p = 13 * (k - 1) + Slot[kind]
  PROVE  B!From(p) = k /\ B!KindAt(p) = kind /\ p \in Nat \ {0}
<1>1. PICK m \in 1 .. 13 : m = Slot[kind]  BY SlotOfKind
<1>2. p = 13 * (k - 1) + m /\ p - 1 \in Nat /\ p \in Nat \ {0}  BY <1>1
<1>3. (p - 1) \div 13 = k - 1 /\ (p - 1) % 13 = m - 1  BY <1>2
<1>4. B!From(p) = k /\ B!KindAt(p) = B!Kinds[m]
  BY <1>3, KindsAt DEF B!From, B!KindAt
<1> QED BY <1>1, <1>2, <1>4, SlotOfKind

(* FiguresTyped: what a line of the program reports.                       *)
LEMMA FiguresTyped ==
  ASSUME BenchType, BenchAssumption, NEW k \in Nat, NEW kind
  PROVE  /\ B!Base(k) \in Int /\ B!Cycles(k) \in Int /\ B!Instret(k) \in Int
         /\ B!Value(k, kind) \in Figures
<1>1. MinCycles \in Nat /\ MaxSkew \in Nat  BY DEF BenchAssumption
<1>2. MinCycles \div 4 \in Nat  BY <1>1
<1>3. B!Base(k) \in Int  BY <1>1 DEF B!Base
<1>4. B!Cycles(k) \in Int
  <2>1. opt.tolerance \in Int  BY DEF BenchType
  <2>2. PICK x \in Int : x = CASE fault = "short"  -> -1
                               [] fault = "jitter" -> opt.tolerance
                               [] fault = "drift"  -> opt.tolerance + 1
                               [] OTHER            -> 0
    <3>1. CASE fault = "short"  BY <3>1
    <3>2. CASE fault = "jitter"  BY <3>2, <2>1
    <3>3. CASE fault = "drift"  BY <3>3, <2>1
    <3>4. CASE fault \notin {"short", "jitter", "drift"}  BY <3>4
    <3> QED BY <3>1, <3>2, <3>3, <3>4
  <2>3. B!Cycles(k) = B!Base(k) + x  BY <2>2 DEF B!Cycles
  <2> QED BY <2>3, <1>3
<1>5. B!Spans(k) \in Int
  <2>1. CASE fault = "skew"  BY <2>1, <1>1, <1>4 DEF B!Spans
  <2>2. CASE fault = "brim"  BY <2>2, <1>1, <1>4 DEF B!Spans
  <2>3. CASE fault \notin {"skew", "brim"}  BY <2>3, <1>4 DEF B!Spans
  <2> QED BY <2>1, <2>2, <2>3
<1>6. B!Instret(k) \in Int
  <2>1. CASE fault = "stuck"  BY <2>1 DEF B!Instret
  <2>2. CASE fault = "brim"  BY <2>2, <1>1 DEF B!Instret
  <2>3. CASE fault = "ipc"  BY <2>3, <1>5 DEF B!Instret
  <2>4. CASE fault = "varies"  BY <2>4, <1>2 DEF B!Instret
  <2>5. CASE fault \notin {"stuck", "brim", "ipc", "varies"}  BY <2>5, <1>2 DEF B!Instret
  <2> QED BY <2>1, <2>2, <2>3, <2>4, <2>5
<1>7. B!Value(k, kind) \in Figures
  <2>1. CASE kind = "cycles"  BY <2>1, <1>3, <1>4 DEF B!Value, Figures
  <2>2. CASE kind = "window"  BY <2>2, <1>3, <1>5 DEF B!Value, Figures
  <2>3. CASE kind = "instret"  BY <2>3, <1>2, <1>6 DEF B!Value, Figures
  <2>4. CASE kind \in {"flags", "check", "crc", "seed"}  BY <2>4 DEF B!Value, Figures
  <2>5. CASE kind \notin {"cycles", "window", "instret", "flags", "check", "crc", "seed"}
    BY <2>5 DEF B!Value, Figures
  <2> QED BY <2>1, <2>2, <2>3, <2>4, <2>5
<1> QED BY <1>3, <1>4, <1>6, <1>7

(* LineTyped: a line of the program is one the capture can hold.           *)
LEMMA LineTyped ==
  ASSUME BenchType, BenchAssumption, NEW p \in Nat \ {0}
  PROVE  B!Line(p) \in CaptureLines
<1>1. /\ B!From(p) \in Nat \ {0} /\ B!KindAt(p) \in DOMAIN Slot  BY PosOf
<1>2. B!Value(B!From(p), B!KindAt(p)) \in Figures  BY <1>1, FiguresTyped
<1> QED BY <1>1, <1>2 DEF B!Line, CaptureLines

(* LinesGiven: what the program prints does not change.                    *)
LEMMA LinesGiven ==
  ASSUME B!Given, NEW p
  PROVE  /\ (B!Line(p))' = B!Line(p) /\ (B!Prints(p))' = B!Prints(p)
         /\ (B!KindAt(p))' = B!KindAt(p) /\ (B!From(p))' = B!From(p)
         /\ (Marker(p))' = Marker(p) /\ (Pos(p))' = Pos(p)
<1>1. fault' = fault /\ hit' = hit /\ window' = window /\ opt' = opt  BY DEF B!Given
<1>2. (B!KindAt(p))' = B!KindAt(p) /\ (B!From(p))' = B!From(p)
  BY DEF B!KindAt, B!From, B!Kinds
<1>3. ASSUME NEW k, NEW kind PROVE (B!Value(k, kind))' = B!Value(k, kind)
  BY <1>1 DEF B!Value, B!Base, B!Cycles, B!Spans, B!Instret
<1>4. (B!Line(p))' = B!Line(p)
  BY <1>2, <1>3 DEF B!Line
<1>5. (B!Prints(p))' = B!Prints(p)
  BY <1>1, <1>2 DEF B!Prints
<1>6. (Marker(p))' = Marker(p)  BY <1>2 DEF Marker
<1>7. (Pos(p))' = Pos(p)  BY DEF Pos, Slot
<1> QED BY <1>2, <1>4, <1>5, <1>6, <1>7

(* SameCountB: the count of the capture's module is that of the library.   *)
LEMMA SameCountB == \A S : B!Cardinality(S) = Cardinality(S)
BY DEF B!Cardinality, Cardinality

(* CutGiven: where a block was cut from the capture stays true.            *)
LEMMA CutGiven ==
  ASSUME B!Given, NEW block, NEW b, NEW e, NEW gone, Cut(block, b, e, gone)
  PROVE  (Cut(block, b, e, gone))'
<1>1. \A p : /\ (B!Line(p))' = B!Line(p) /\ (B!Prints(p))' = B!Prints(p)
             /\ (B!KindAt(p))' = B!KindAt(p) /\ (Marker(p))' = Marker(p)
             /\ (Pos(p))' = Pos(p)
  BY LinesGiven
<1>2. window' = window  BY DEF B!Given
<1> QED BY <1>1, <1>2 DEF Cut, Rising, Pos, Slot

(* CutLoses: a line that is lost behind a block is none of it.             *)
LEMMA CutLoses ==
  ASSUME NEW block, NEW b \in Nat, NEW e \in Nat, NEW gone, NEW more,
         Cut(block, b, e, gone),
         gone \subseteq more, \A p \in more : p \in gone \/ e <= p
  PROVE  Cut(block, b, e, more)
<1>1. \A p \in b + 1 .. e - 1 : p \in more <=> p \in gone  OBVIOUS
<1> QED BY <1>1 DEF Cut

(* CutSkips: a line that does not arrive is passed over.                   *)
LEMMA CutSkips ==
  ASSUME NEW block, NEW b \in Nat, NEW e \in Nat, NEW gone,
         Cut(block, b, e, gone), e \in gone \/ ~B!Prints(e)
  PROVE  Cut(block, b, e + 1, gone)
<1>1. b < e /\ window[1] <= b /\ B!KindAt(b) = "begin"  BY DEF Cut
<1>2. ~B!Prints(e) => ~Marker(e)  BY DEF B!Prints, Marker
<1>3. \A p \in b + 1 .. (e + 1) - 1 : p = e \/ p \in b + 1 .. e - 1  OBVIOUS
<1>4. \A p \in b + 1 .. (e + 1) - 1 : Marker(p) => p \in gone
  BY <1>2, <1>3 DEF Cut
<1>5. \A p \in b + 1 .. (e + 1) - 1 :
        p \notin gone /\ B!Prints(p) => \E i \in DOMAIN block : block[i] = B!Line(p)
  BY <1>3 DEF Cut
<1>6. \A i \in DOMAIN block : /\ Pos(block[i]) \in b + 1 .. (e + 1) - 1
                              /\ block[i] = B!Line(Pos(block[i]))
                              /\ B!Prints(Pos(block[i]))
  <2>1. ASSUME NEW q \in b + 1 .. e - 1 PROVE q \in b + 1 .. (e + 1) - 1
    OBVIOUS
  <2> QED BY <2>1 DEF Cut
<1>7. Rising(block) /\ b < e + 1  BY <1>1 DEF Cut
<1> QED BY <1>1, <1>4, <1>5, <1>6, <1>7 DEF Cut

(* CutGrows: a line that arrives is the last of the block so far.          *)
LEMMA CutGrows ==
  ASSUME NEW block \in Seq(CaptureLines), NEW b \in Nat, NEW e \in Nat \ {0}, NEW gone,
         Cut(block, b, e, gone), B!Prints(e), ~Marker(e), BenchAssumption
  PROVE  Cut(Append(block, B!Line(e)), b, e + 1, gone)
<1> DEFINE more == Append(block, B!Line(e))
           n == Len(block)
<1>1. b < e /\ window[1] <= b /\ B!KindAt(b) = "begin" /\ Rising(block)  BY DEF Cut
<1>2. n \in Nat /\ DOMAIN block = 1 .. n /\ DOMAIN more = 1 .. n + 1
      /\ more[n + 1] = B!Line(e) /\ \A i \in 1 .. n : more[i] = block[i]
  OBVIOUS
<1>3. Pos(B!Line(e)) = e  BY PosOf
<1> HIDE DEF more, n
<1>4. \A p \in b + 1 .. (e + 1) - 1 : p = e \/ p \in b + 1 .. e - 1  OBVIOUS
<1>5. \A p \in b + 1 .. (e + 1) - 1 : Marker(p) => p \in gone
  BY <1>4 DEF Cut
<1>6. \A p \in b + 1 .. (e + 1) - 1 :
        p \notin gone /\ B!Prints(p) => \E i \in DOMAIN more : more[i] = B!Line(p)
  <2> SUFFICES ASSUME NEW p \in b + 1 .. (e + 1) - 1, p \notin gone, B!Prints(p)
               PROVE  \E i \in DOMAIN more : more[i] = B!Line(p)
    OBVIOUS
  <2>1. CASE p = e
    <3>1. n + 1 \in DOMAIN more  BY <1>2
    <3> QED BY <2>1, <3>1, <1>2
  <2>2. CASE p \in b + 1 .. e - 1
    <3>1. PICK i \in DOMAIN block : block[i] = B!Line(p)  BY <2>2 DEF Cut
    <3>2. i \in DOMAIN more /\ more[i] = B!Line(p)  BY <3>1, <1>2
    <3> QED BY <3>2
  <2> QED BY <2>1, <2>2, <1>4
<1>7. ASSUME NEW i \in 1 .. n
      PROVE  /\ Pos(more[i]) \in b + 1 .. e - 1 /\ more[i] = B!Line(Pos(more[i]))
             /\ B!Prints(Pos(more[i])) /\ more[i] = block[i]
  BY <1>2 DEF Cut
<1>8. \A i \in DOMAIN more : /\ Pos(more[i]) \in b + 1 .. (e + 1) - 1
                             /\ more[i] = B!Line(Pos(more[i]))
                             /\ B!Prints(Pos(more[i]))
  <2> SUFFICES ASSUME NEW i \in DOMAIN more
               PROVE  /\ Pos(more[i]) \in b + 1 .. (e + 1) - 1
                      /\ more[i] = B!Line(Pos(more[i])) /\ B!Prints(Pos(more[i]))
    OBVIOUS
  <2>1. CASE i = n + 1
    <3>1. e \in b + 1 .. (e + 1) - 1  BY <1>1
    <3> QED BY <2>1, <3>1, <1>2, <1>3
  <2>2. CASE i \in 1 .. n
    <3>1. ASSUME NEW q \in b + 1 .. e - 1 PROVE q \in b + 1 .. (e + 1) - 1
      OBVIOUS
    <3> QED BY <2>2, <3>1, <1>7
  <2> QED BY <2>1, <2>2, <1>2
<1>9. Rising(more)
  <2> SUFFICES ASSUME NEW i \in DOMAIN more, NEW j \in DOMAIN more, i < j
               PROVE  Pos(more[i]) < Pos(more[j])
    BY DEF Rising
  <2>1. i \in 1 .. n  BY <1>2
  <2>2. CASE j = n + 1
    <3>1. Pos(more[i]) \in b + 1 .. e - 1  BY <2>1, <1>7
    <3>2. Pos(more[j]) = e  BY <2>2, <1>2, <1>3
    <3> QED BY <3>1, <3>2
  <2>3. CASE j \in 1 .. n
    <3>1. Pos(block[i]) < Pos(block[j])  BY <1>1, <1>2, <2>1, <2>3 DEF Rising
    <3> QED BY <3>1, <2>1, <2>3, <1>7
  <2> QED BY <2>2, <2>3, <1>2
<1>10. b < e + 1  BY <1>1
<1>11. Cut(more, b, e + 1, gone)
  BY <1>1, <1>5, <1>6, <1>8, <1>9, <1>10 DEF Cut
<1> QED BY <1>11 DEF more

(* CutBegins: a begin starts one.                                          *)
LEMMA CutBegins ==
  ASSUME NEW b \in Nat, window[1] <= b, B!KindAt(b) = "begin", NEW gone
  PROVE  Cut(<<>>, b, b + 1, gone)
BY DEF Cut, Rising

(* CaptureMoves: what a step of the capture does, by the line it is at.    *)
LEMMA CaptureMoves ==
  ASSUME BenchInv, BenchAssumption, B!Lose \/ B!Read
  PROVE  /\ B!Given /\ at' = at + 1 /\ at \in B!Lines /\ at \in Nat \ {0}
         /\ at \in window[1] .. window[2] /\ parsed' = parsed /\ verdict' = verdict
         /\ verdict = "none" /\ parsed = <<>>
         /\ lost' \in {lost, lost \cup {at}}
         /\ lost' # lost => fault # "host" /\ Cardinality(lost) < MaxLost
         /\ \/ /\ cur' = cur /\ blocks' = blocks /\ inside' = inside
               /\ at \in lost' \/ ~B!Prints(at)
               /\ at \notin lost' => ~Marker(at)
            \/ /\ lost' = lost /\ B!Prints(at)
               /\ \/ /\ B!KindAt(at) = "begin" /\ inside' = TRUE /\ cur' = <<>>
                     /\ blocks' = blocks
                  \/ /\ B!KindAt(at) = "end" /\ inside' = FALSE /\ cur' = <<>>
                     /\ inside /\ blocks' = Append(blocks, cur)
                  \/ /\ B!KindAt(at) = "end" /\ inside' = FALSE /\ cur' = <<>>
                     /\ ~inside /\ blocks' = blocks
                  \/ /\ ~Marker(at) /\ inside' = inside /\ blocks' = blocks
                     /\ inside /\ cur' = Append(cur, B!Line(at))
                  \/ /\ ~Marker(at) /\ inside' = inside /\ blocks' = blocks
                     /\ ~inside /\ cur' = cur
<1>1. /\ inside \in BOOLEAN /\ window \in B!Lines \X B!Lines /\ at \in Nat
      /\ window[1] <= at /\ window[1] \in B!Lines /\ window[2] \in B!Lines
  BY DEF BenchInv, BenchType, Spanned
<1>2. Blocks * 13 \in Nat /\ B!Lines = 1 .. Blocks * 13
  BY KindsAt DEF BenchAssumption, B!Lines
<1>3. B!Capturing /\ B!Given /\ at' = at + 1 /\ parsed' = parsed /\ verdict' = verdict
  BY DEF B!Lose, B!Read
<1>4. /\ at \in B!Lines /\ at \in Nat \ {0} /\ at \in window[1] .. window[2]
      /\ verdict = "none"
  BY <1>1, <1>2, <1>3 DEF B!Capturing
<1>5. parsed = <<>>
  BY <1>3 DEF BenchInv, InTurn, B!Capturing
<1>6. CASE B!Lose
  <2>1. /\ lost' = lost \cup {at} /\ fault # "host" /\ B!Cardinality(lost) < MaxLost
        /\ cur' = cur /\ blocks' = blocks /\ inside' = inside
    BY <1>6 DEF B!Lose
  <2> QED BY <2>1, <1>3, <1>4, <1>5, SameCountB
<1>7. CASE B!Read /\ ~B!Prints(at)
  <2>1. lost' = lost /\ cur' = cur /\ blocks' = blocks /\ inside' = inside
    BY <1>7 DEF B!Read
  <2>2. ~Marker(at)  BY <1>7 DEF B!Prints, Marker
  <2> QED BY <2>1, <2>2, <1>3, <1>4, <1>5, <1>7
<1>8. CASE B!Read /\ B!Prints(at)
  <2>1. lost' = lost /\ B!Feed(B!Line(at))  BY <1>8 DEF B!Read
  <2>2. B!Line(at).kind = B!KindAt(at)  BY <1>4, PosOf
  <2>3. /\ inside' = (B!KindAt(at) = "begin" \/ (inside /\ B!KindAt(at) # "end"))
        /\ cur' = IF B!KindAt(at) \in {"begin", "end"} THEN <<>>
                  ELSE IF inside THEN Append(cur, B!Line(at)) ELSE cur
        /\ blocks' = IF inside /\ B!KindAt(at) = "end" THEN Append(blocks, cur) ELSE blocks
    BY <2>1, <2>2 DEF B!Feed, B!Collected
  <2>4. CASE B!KindAt(at) = "begin"
    BY <2>1, <2>3, <2>4, <1>1, <1>3, <1>4, <1>5, <1>8
  <2>5. CASE B!KindAt(at) = "end" /\ inside
    BY <2>1, <2>3, <2>5, <1>1, <1>3, <1>4, <1>5, <1>8
  <2>6. CASE B!KindAt(at) = "end" /\ ~inside
    BY <2>1, <2>3, <2>6, <1>1, <1>3, <1>4, <1>5, <1>8
  <2>7. CASE ~Marker(at) /\ inside
    BY <2>1, <2>3, <2>7, <1>1, <1>3, <1>4, <1>5, <1>8 DEF Marker
  <2>8. CASE ~Marker(at) /\ ~inside
    BY <2>1, <2>3, <2>8, <1>1, <1>3, <1>4, <1>5, <1>8 DEF Marker
  <2> QED BY <2>4, <2>5, <2>6, <2>7, <2>8 DEF Marker
<1> QED BY <1>6, <1>7, <1>8

(* CaptureTyped: its types and bounds.                                     *)
LEMMA CaptureTyped ==
  ASSUME BenchInv, BenchAssumption, B!Lose \/ B!Read
  PROVE  BenchType' /\ Spanned'
<1>1. /\ B!Given /\ at' = at + 1 /\ at \in B!Lines /\ at \in Nat \ {0}
      /\ at \in window[1] .. window[2] /\ parsed' = parsed /\ verdict' = verdict
      /\ lost' \in {lost, lost \cup {at}}
      /\ lost' # lost => fault # "host" /\ Cardinality(lost) < MaxLost
  BY CaptureMoves
<1>2. BenchType /\ Spanned  BY DEF BenchInv
<1>3. fault' = fault /\ hit' = hit /\ window' = window /\ opt' = opt
  BY <1>1 DEF B!Given
<1>4. B!Line(at) \in CaptureLines  BY <1>1, <1>2, LineTyped
<1>5. /\ cur \in Seq(CaptureLines) /\ blocks \in Seq(Seq(CaptureLines))
      /\ inside \in BOOLEAN
  BY <1>2 DEF BenchType
<1>6. /\ cur' \in {<<>>, cur, Append(cur, B!Line(at))} /\ blocks' \in {blocks, Append(blocks, cur)}
      /\ inside' \in {inside, TRUE, FALSE}
  BY CaptureMoves
<1>7. /\ cur' \in Seq(CaptureLines) /\ blocks' \in Seq(Seq(CaptureLines))
      /\ inside' \in BOOLEAN
  <2>1. <<>> \in Seq(CaptureLines) /\ Append(cur, B!Line(at)) \in Seq(CaptureLines)
    BY <1>4, <1>5
  <2>2. cur' \in Seq(CaptureLines)  BY <1>5, <1>6, <2>1
  <2>3. blocks' \in Seq(Seq(CaptureLines))
    <3> DEFINE T == Seq(CaptureLines)
    <3>1. cur \in T /\ blocks \in Seq(T)  BY <1>5
    <3> HIDE DEF T
    <3>2. Append(blocks, cur) \in Seq(T)  BY <3>1
    <3>3. blocks' \in Seq(T)  BY <3>1, <3>2, <1>6
    <3> QED BY <3>3 DEF T
  <2> QED BY <2>2, <2>3, <1>5, <1>6
<1>8. /\ B!Faults' = B!Faults /\ B!Lines' = B!Lines /\ CaptureLines' = CaptureLines
      /\ B!Needed' = B!Needed
  BY DEF B!Faults, B!Harmless, B!Lines, B!Kinds, CaptureLines, Slot, Figures, B!Needed
<1>9. lost' \in SUBSET B!Lines  BY <1>1, <1>2 DEF BenchType
<1>10. at' \in Nat  BY <1>1
<1>11. BenchType'
  BY <1>1, <1>2, <1>3, <1>7, <1>8, <1>9, <1>10 DEF BenchType
<1>12. window[1] \in Nat /\ window[2] \in Nat
  <2>1. B!Lines \subseteq Nat  BY KindsAt DEF B!Lines
  <2> QED BY <1>2, <2>1 DEF BenchType
<1>13. window'[1] <= at' /\ at' <= window'[2] + 1
  BY <1>1, <1>3, <1>12
<1>14. \A p \in lost' : p < at'
  <2>1. \A p \in lost : p \in Nat /\ p < at
    <3>1. B!Lines \subseteq Nat  BY KindsAt DEF B!Lines
    <3> QED BY <3>1, <1>2 DEF BenchType, Spanned
  <2> QED BY <2>1, <1>1
<1>15. IsFiniteSet(lost') /\ Cardinality(lost') <= MaxLost
  <2>1. IsFiniteSet(lost) /\ Cardinality(lost) <= MaxLost /\ MaxLost \in Nat
    BY <1>2 DEF Spanned, BenchAssumption
  <2>2. Cardinality(lost) \in Nat  BY <2>1, FS_CardinalityType
  <2>3. CASE lost' = lost  BY <2>1, <2>3
  <2>4. CASE lost' # lost
    <3>1. lost' = lost \cup {at} /\ Cardinality(lost) < MaxLost  BY <2>4, <1>1
    <3>2. /\ IsFiniteSet(lost \cup {at})
          /\ Cardinality(lost \cup {at}) \in {Cardinality(lost), Cardinality(lost) + 1}
      BY <2>1, FS_AddElement
    <3> QED BY <3>1, <3>2, <2>1, <2>2
  <2> QED BY <2>3, <2>4
<1>16. /\ fault' = "host" => lost' = {}
       /\ fault' \in {"none", "host", "brim"} => hit' = 1 .. Blocks
  BY <1>1, <1>2, <1>3 DEF Spanned
<1>17. Spanned'
  BY <1>13, <1>14, <1>15, <1>16 DEF Spanned, IsFiniteSet, Cardinality
<1> QED BY <1>11, <1>17

(* LinesInside: positions are numbers.                                     *)
LEMMA LinesInside ==
  /\ B!Lines \subseteq Nat
  /\ BenchAssumption => B!Lines = 1 .. Blocks * 13 /\ Blocks \in Nat /\ Blocks * 13 \in Nat
BY KindsAt DEF B!Lines, BenchAssumption

(* CaptureWithin: the block being collected.                               *)
LEMMA CaptureWithin ==
  ASSUME BenchInv, BenchAssumption, B!Lose \/ B!Read
  PROVE  Within'
<1> DEFINE c == cur'  l == lost'  a == at + 1
<1>1. /\ B!Given /\ at' = a /\ at \in B!Lines /\ at \in Nat \ {0}
      /\ at \in window[1] .. window[2] /\ lost' \in {lost, lost \cup {at}}
  BY CaptureMoves
<1>2. BenchType /\ Within /\ Spanned  BY DEF BenchInv
<1>3. /\ cur \in Seq(CaptureLines) /\ lost \in SUBSET B!Lines /\ inside \in BOOLEAN
      /\ window[1] <= at /\ window[1] \in Nat
  BY <1>2, LinesInside DEF BenchType, Spanned
<1>4. B!Lines' = B!Lines  BY DEF B!Lines, B!Kinds
<1>5. SUFFICES ASSUME inside' PROVE \E b \in B!Lines : Cut(c, b, a, l)
  <2>1. ASSUME ~inside' PROVE cur' = <<>>
    BY <2>1, <1>2, <1>3, CaptureMoves DEF Within
  <2>2. ASSUME NEW x \in Seq(CaptureLines), NEW y \in SUBSET B!Lines, NEW z \in Nat, NEW b \in B!Lines,
               x = cur', y = lost', z = at', Cut(x, b, z, y)
        PROVE  (Cut(cur, b, at, lost))'
    <3>1. (Cut(x, b, z, y))'  BY <2>2, <1>1, CutGiven
    <3> QED BY <3>1, <2>2 DEF Cut, Rising
  <2>3. cur' \in Seq(CaptureLines) /\ lost' \in SUBSET B!Lines /\ at' \in Nat
    <3>1. BenchType'  BY CaptureTyped
    <3>2. CaptureLines' = CaptureLines  BY DEF CaptureLines, Slot, Figures
    <3> QED BY <3>1, <3>2, <1>4 DEF BenchType
  <2>4. ASSUME NEW b \in B!Lines, Cut(c, b, a, l) PROVE (Cut(cur, b, at, lost))'
    BY <2>2, <2>3, <2>4, <1>1
  <2> QED BY <2>1, <2>4, <1>4 DEF Within
<1> HIDE DEF c, l
<1>6. CASE /\ cur' = cur /\ inside' = inside
           /\ at \in lost' \/ ~B!Prints(at)
  <2>1. PICK b \in B!Lines : Cut(cur, b, at, lost)  BY <1>2, <1>5, <1>6 DEF Within
  <2>2. b \in Nat /\ at \in Nat  BY <1>1, LinesInside
  <2>3. Cut(cur, b, at, l)  BY <2>1, <2>2, <1>1, CutLoses DEF l
  <2>4. Cut(cur, b, a, l)  BY <2>2, <2>3, <1>6, CutSkips DEF l
  <2> QED BY <2>4, <1>6 DEF c
<1>7. CASE /\ lost' = lost /\ ~Marker(at) /\ inside /\ cur' = Append(cur, B!Line(at))
           /\ B!Prints(at)
  <2>1. PICK b \in B!Lines : Cut(cur, b, at, lost)  BY <1>2, <1>7 DEF Within
  <2>2. b \in Nat /\ at \in Nat  BY <1>1, LinesInside
  <2>3. Cut(Append(cur, B!Line(at)), b, a, lost)
    BY <2>1, <2>2, <1>1, <1>3, <1>7, CutGrows
  <2> QED BY <2>3, <1>7 DEF c, l
<1>8. CASE B!KindAt(at) = "begin" /\ cur' = <<>>
  <2>1. Cut(<<>>, at, a, l)  BY <1>1, <1>3, <1>8, CutBegins
  <2> QED BY <2>1, <1>1, <1>8 DEF c
<1> QED BY <1>5, <1>6, <1>7, <1>8, CaptureMoves

(* CaptureSeparate: the blocks split off.                                  *)
LEMMA CaptureSeparate ==
  ASSUME BenchInv, BenchAssumption, B!Lose \/ B!Read
  PROVE  Separate'
<1>1. /\ B!Given /\ at' = at + 1 /\ at \in B!Lines /\ at \in Nat \ {0}
      /\ lost' \in {lost, lost \cup {at}}
  BY CaptureMoves
<1>2. BenchType /\ Within /\ Separate  BY DEF BenchInv
<1>3. /\ cur \in Seq(CaptureLines) /\ blocks \in Seq(Seq(CaptureLines))
  BY <1>2 DEF BenchType
<1>4. B!Lines' = B!Lines  BY DEF B!Lines, B!Kinds
<1>5. ASSUME NEW block, NEW b \in B!Lines, NEW e \in B!Lines,
             Cut(block, b, e, lost), B!KindAt(e) = "end", e <= at
      PROVE  /\ \A k : block = k => (Cut(k, b, e, lost))'
             /\ (B!KindAt(e))' = "end" /\ e < at'
  <2>1. b \in Nat /\ e \in Nat  BY LinesInside
  <2>2. PICK l : l = lost'  OBVIOUS
  <2>3. Cut(block, b, e, l)  BY <2>1, <2>2, <1>1, <1>5, CutLoses
  <2>4. (Cut(block, b, e, l))'  BY <2>3, <1>1, CutGiven
  <2>5. \A k : block = k => (Cut(k, b, e, lost))'  BY <2>2, <2>4 DEF Cut, Rising
  <2>6. (B!KindAt(e))' = "end"  BY <1>1, <1>5, LinesGiven
  <2>7. e < at'  BY <2>1, <1>1, <1>5
  <2> QED BY <2>5, <2>6, <2>7
<1>6. ASSUME NEW n \in DOMAIN blocks
      PROVE  \E b, e \in B!Lines : /\ \A k : blocks[n] = k => (Cut(k, b, e, lost))'
                                   /\ (B!KindAt(e))' = "end" /\ e < at'
  <2>1. PICK b \in B!Lines, e \in B!Lines :
          Cut(blocks[n], b, e, lost) /\ B!KindAt(e) = "end" /\ e < at
    BY <1>2 DEF Separate
  <2>2. e <= at  BY <2>1, <1>1, LinesInside
  <2>3. PICK block : block = blocks[n]  OBVIOUS
  <2>4. /\ \A k : block = k => (Cut(k, b, e, lost))'
        /\ (B!KindAt(e))' = "end" /\ e < at'
    BY <2>1, <2>2, <2>3, <1>5
  <2> QED BY <2>3, <2>4
<1>7. ASSUME NEW n \in DOMAIN blocks'
      PROVE  \E b, e \in B!Lines : /\ (Cut(blocks[n], b, e, lost))'
                                   /\ (B!KindAt(e))' = "end" /\ e < at'
  <2>1. PICK block : block = blocks'[n]  OBVIOUS
  <2>2. SUFFICES \E b, e \in B!Lines : /\ \A k : block = k => (Cut(k, b, e, lost))'
                                       /\ (B!KindAt(e))' = "end" /\ e < at'
    <3>1. PICK b \in B!Lines, e \in B!Lines :
            /\ \A k : block = k => (Cut(k, b, e, lost))'
            /\ (B!KindAt(e))' = "end" /\ e < at'
      BY <2>2
    <3>2. (Cut(block, b, e, lost))'  BY <3>1
    <3>3. (Cut(blocks[n], b, e, lost))'  BY <2>1, <3>2 DEF Cut, Rising
    <3> QED BY <3>1, <3>3
  <2>3. CASE blocks' = blocks
    <3>1. n \in DOMAIN blocks /\ block = blocks[n]  BY <2>1, <2>3
    <3> QED BY <3>1, <1>6
  <2>4. CASE blocks' = Append(blocks, cur) /\ inside /\ B!KindAt(at) = "end"
    <3>1. CASE n \in DOMAIN blocks
      <4>1. block = blocks[n]  BY <2>1, <2>4, <3>1, <1>3
      <4> QED BY <3>1, <4>1, <1>6
    <3>2. CASE n \notin DOMAIN blocks
      <4>1. block = cur
        <5>1. n = Len(blocks) + 1  BY <2>4, <3>2, <1>3
        <5> QED BY <2>1, <2>4, <5>1, <1>3
      <4>2. PICK b \in B!Lines : Cut(cur, b, at, lost)  BY <2>4, <1>2 DEF Within
      <4>3. at <= at  BY <1>1
      <4>4. Cut(block, b, at, lost)  BY <4>1, <4>2
      <4>5. PICK e \in B!Lines : e = at  BY <1>1
      <4>6. /\ \A k : block = k => (Cut(k, b, e, lost))'
            /\ (B!KindAt(e))' = "end" /\ e < at'
        BY <4>3, <4>4, <4>5, <2>4, <1>5
      <4> QED BY <4>6
    <3> QED BY <3>1, <3>2
  <2> QED BY <2>3, <2>4, CaptureMoves
<1> QED BY <1>4, <1>7 DEF Separate

(* CaptureOrdered: what is collected later was printed later.              *)
LEMMA CaptureOrdered ==
  ASSUME BenchInv, BenchAssumption, B!Lose \/ B!Read
  PROVE  Ordered'
<1>1. /\ at \in B!Lines /\ at \in Nat \ {0}  BY CaptureMoves
<1>2. BenchType /\ Separate /\ Ordered  BY DEF BenchInv
<1>3. /\ cur \in Seq(CaptureLines) /\ blocks \in Seq(Seq(CaptureLines))
  BY <1>2 DEF BenchType
<1>4. PICK c, bs : c = cur' /\ bs = blocks'  OBVIOUS
<1>5. ASSUME NEW n \in DOMAIN blocks, NEW i \in DOMAIN blocks[n]
      PROVE  Pos(blocks[n][i]) < at
  <2>1. PICK b \in B!Lines, e \in B!Lines : Cut(blocks[n], b, e, lost) /\ e < at
    BY <1>2 DEF Separate
  <2>2. Pos(blocks[n][i]) \in b + 1 .. e - 1  BY <2>1 DEF Cut
  <2>3. b \in Nat /\ e \in Nat  BY LinesInside
  <2> QED BY <2>1, <2>2, <2>3, <1>1
<1>6. SUFFICES /\ \A n, m \in DOMAIN bs : n < m =>
                    \A i \in DOMAIN bs[n], j \in DOMAIN bs[m] : Pos(bs[n][i]) < Pos(bs[m][j])
               /\ \A n \in DOMAIN bs : \A i \in DOMAIN bs[n], j \in DOMAIN c :
                    Pos(bs[n][i]) < Pos(c[j])
  BY <1>4 DEF Ordered, Pos, Slot
<1>7. CASE blocks' = blocks /\ cur' = cur  BY <1>2, <1>4, <1>7 DEF Ordered
<1>8. CASE blocks' = blocks /\ cur' = <<>>  BY <1>2, <1>4, <1>8 DEF Ordered
<1>9. CASE blocks' = blocks /\ cur' = Append(cur, B!Line(at))
  <2>1. B!Line(at) \in CaptureLines /\ Pos(B!Line(at)) = at  BY <1>1, <1>2, LineTyped, PosOf
  <2>2. ASSUME NEW n \in DOMAIN bs, NEW i \in DOMAIN bs[n], NEW j \in DOMAIN c
        PROVE  Pos(bs[n][i]) < Pos(c[j])
    <3>1. CASE j = Len(cur) + 1
      <4>1. c[j] = B!Line(at)  BY <3>1, <2>1, <1>3, <1>4, <1>9
      <4> QED BY <4>1, <2>1, <1>4, <1>5, <1>9
    <3>2. CASE j # Len(cur) + 1
      <4>1. j \in DOMAIN cur /\ c[j] = cur[j]  BY <3>2, <2>1, <1>3, <1>4, <1>9
      <4> QED BY <4>1, <1>2, <1>4, <1>9 DEF Ordered
    <3> QED BY <3>1, <3>2
  <2> QED BY <2>2, <1>2, <1>4, <1>9 DEF Ordered
<1>10. CASE blocks' = Append(blocks, cur) /\ cur' = <<>>
  <2>1. PICK z \in Nat : z = Len(blocks)  BY <1>3
  <2>2. /\ DOMAIN bs = 1 .. z + 1 /\ DOMAIN blocks = 1 .. z
        /\ bs[z + 1] = cur /\ \A n \in 1 .. z : bs[n] = blocks[n]
    <3> DEFINE T == Seq(CaptureLines)
    <3>1. cur \in T /\ blocks \in Seq(T)  BY <1>3
    <3> HIDE DEF T
    <3> QED BY <2>1, <3>1, <1>4, <1>10
  <2>3. ASSUME NEW n \in DOMAIN bs, NEW m \in DOMAIN bs, n < m,
               NEW i \in DOMAIN bs[n], NEW j \in DOMAIN bs[m]
        PROVE  Pos(bs[n][i]) < Pos(bs[m][j])
    <3>1. n \in 1 .. z  BY <2>2, <2>3
    <3>2. bs[n] = blocks[n] /\ n \in DOMAIN blocks  BY <2>2, <3>1
    <3>3. CASE m = z + 1  BY <3>2, <3>3, <2>2, <1>2 DEF Ordered
    <3>4. CASE m \in 1 .. z
      <4>1. bs[m] = blocks[m] /\ m \in DOMAIN blocks  BY <2>2, <3>4
      <4> QED BY <4>1, <3>2, <2>3, <1>2 DEF Ordered
    <3> QED BY <3>3, <3>4, <2>2
  <2> QED BY <2>3, <1>4, <1>10
<1> QED BY <1>7, <1>8, <1>9, <1>10, CaptureMoves

(* ArrivedGoes: a block is whole in the capture when its end is read.      *)
LEMMA ArrivedGoes ==
  ASSUME BenchType, BenchAssumption, at \in B!Lines, NEW c \in Nat, NEW m \in 1 .. 13,
         at = 13 * c + m, window' = window, at' = at + 1
  PROVE  /\ IsFiniteSet(Arrived)
         /\ m = 13 /\ window[1] <= 13 * c + 1 =>
              c + 1 \notin Arrived /\ Arrived' = Arrived \cup {c + 1}
         /\ ~(m = 13 /\ window[1] <= 13 * c + 1) => Arrived' = Arrived
<1>1. /\ Blocks \in Nat /\ at \in 1 .. Blocks * 13 /\ window[1] \in Nat
  BY LinesInside DEF BenchType
<1>2. IsFiniteSet(Arrived)
  <2>1. Arrived \in SUBSET (1 .. Blocks)  BY DEF Arrived
  <2>2. IsFiniteSet(1 .. Blocks)  BY <1>1, FS_Interval
  <2> QED BY <2>1, <2>2, FS_Subset
<1>3. ASSUME NEW k \in 1 .. Blocks
      PROVE  /\ k * 13 < at => k * 13 < at + 1
             /\ k * 13 < at + 1 /\ ~(k * 13 < at) => k = c + 1 /\ m = 13
             /\ (k - 1) * 13 + 1 = 13 * (k - 1) + 1
  BY <1>1
<1>4. Arrived = {k \in 1 .. Blocks : window[1] <= (k - 1) * 13 + 1 /\ k * 13 < at}
  BY DEF Arrived
<1>5. Arrived' = {k \in 1 .. Blocks : window[1] <= (k - 1) * 13 + 1 /\ k * 13 < at + 1}
  BY DEF Arrived
<1>6. c + 1 \in 1 .. Blocks /\ ((c + 1) - 1) * 13 + 1 = 13 * c + 1
      /\ (m = 13 => (c + 1) * 13 = at)
  BY <1>1
<1>7. ASSUME m = 13, window[1] <= 13 * c + 1
      PROVE  c + 1 \notin Arrived /\ Arrived' = Arrived \cup {c + 1}
  <2>1. c + 1 \notin Arrived  BY <1>1, <1>4, <1>6, <1>7
  <2>2. c + 1 \in Arrived'  BY <1>1, <1>5, <1>6, <1>7
  <2>3. Arrived \subseteq Arrived'  BY <1>3, <1>4, <1>5
  <2>4. ASSUME NEW k \in Arrived' PROVE k \in Arrived \/ k = c + 1
    BY <1>3, <1>4, <1>5
  <2> QED BY <2>1, <2>2, <2>3, <2>4
<1>8. ASSUME ~(m = 13 /\ window[1] <= 13 * c + 1) PROVE Arrived' = Arrived
  <2>1. Arrived \subseteq Arrived'  BY <1>3, <1>4, <1>5
  <2>2. ASSUME NEW k \in Arrived' PROVE k \in Arrived
    <3>1. k \in 1 .. Blocks /\ window[1] <= (k - 1) * 13 + 1 /\ k * 13 < at + 1  BY <1>5
    <3>2. CASE k * 13 < at  BY <3>1, <3>2, <1>4
    <3>3. CASE ~(k * 13 < at)
      <4>1. k = c + 1 /\ m = 13  BY <3>1, <3>3, <1>3
      <4> QED BY <4>1, <3>1, <1>6, <1>8
    <3> QED BY <3>2, <3>3
  <2> QED BY <2>1, <2>2
<1> QED BY <1>2, <1>7, <1>8

(* CaptureComplete: with no line lost the blocks are those of the window.  *)
LEMMA CaptureComplete ==
  ASSUME BenchInv, BenchAssumption, B!Lose \/ B!Read
  PROVE  Complete'
<1> SUFFICES ASSUME lost' = {} PROVE (/\ \A k \in Nat, m \in 1 .. 13 : at = 13 * k + m =>
                                          (inside <=> m > 1 /\ window[1] <= 13 * k + 1)
                                     /\ Len(blocks) = Cardinality(Arrived))'
  BY DEF Complete
<1>1. /\ B!Given /\ at' = at + 1 /\ at \in B!Lines /\ at \in Nat \ {0}
      /\ at \in window[1] .. window[2] /\ lost' \in {lost, lost \cup {at}}
  BY CaptureMoves
<1>2. lost = {} /\ at \notin lost' /\ window' = window  BY <1>1 DEF B!Given
<1>3. BenchType /\ Complete /\ Spanned  BY DEF BenchInv
<1>4. PICK c \in Nat, m \in 1 .. 13 : at = 13 * c + m /\ B!KindAt(at) = B!Kinds[m]
  <2>1. /\ B!From(at) \in Nat \ {0} /\ B!KindAt(at) \in DOMAIN Slot
        /\ Slot[B!KindAt(at)] \in 1 .. 13
        /\ at = 13 * (B!From(at) - 1) + Slot[B!KindAt(at)]
    BY <1>1, PosOf
  <2>2. B!KindAt(at) = B!Kinds[Slot[B!KindAt(at)]]  BY <2>1, SlotOfKind
  <2>3. B!From(at) - 1 \in Nat  BY <2>1
  <2> QED BY <2>1, <2>2, <2>3
<1>5. (m = 1 <=> B!KindAt(at) = "begin") /\ (m = 13 <=> B!KindAt(at) = "end")
  <2>1. \/ m = 1 \/ m = 2 \/ m = 3 \/ m = 4 \/ m = 5 \/ m = 6 \/ m = 7
        \/ m = 8 \/ m = 9 \/ m = 10 \/ m = 11 \/ m = 12 \/ m = 13
    OBVIOUS
  <2> QED BY <2>1, <1>4, KindsAt
<1>6. window[1] \in Nat /\ at \in Nat  BY <1>1, <1>3, LinesInside DEF BenchType
<1>7. inside <=> m > 1 /\ window[1] <= 13 * c + 1  BY <1>2, <1>3, <1>4 DEF Complete
<1>8. /\ IsFiniteSet(Arrived)
      /\ m = 13 /\ window[1] <= 13 * c + 1 =>
           c + 1 \notin Arrived /\ Arrived' = Arrived \cup {c + 1}
      /\ ~(m = 13 /\ window[1] <= 13 * c + 1) => Arrived' = Arrived
  BY <1>1, <1>2, <1>3, <1>4, ArrivedGoes
<1>9. blocks \in Seq(Seq(CaptureLines)) /\ inside \in BOOLEAN  BY <1>3 DEF BenchType
<1>10. inside' <=> m < 13 /\ window[1] <= 13 * c + 1
  <2>1. CASE m = 1
    <3>1. inside'  BY <2>1, <1>2, <1>5, CaptureMoves DEF Marker, B!Prints
    <3>2. window[1] <= 13 * c + 1  BY <2>1, <1>1, <1>4, <1>6
    <3> QED BY <2>1, <3>1, <3>2
  <2>2. CASE m = 13
    <3>1. inside' = FALSE  BY <2>2, <1>2, <1>5, CaptureMoves DEF Marker, B!Prints
    <3> QED BY <2>2, <3>1
  <2>3. CASE m \in 2 .. 12
    <3>1. ~Marker(at)  BY <2>3, <1>5 DEF Marker
    <3>2. inside' = inside  BY <3>1, CaptureMoves DEF Marker
    <3> QED BY <2>3, <3>2, <1>7
  <2> QED BY <2>1, <2>2, <2>3
<1>11. Len(blocks') = Cardinality(Arrived')
  <2>0. Len(blocks) = Cardinality(Arrived) /\ Len(blocks) \in Nat  BY <1>2, <1>3, <1>9 DEF Complete
  <2>1. CASE m = 13 /\ inside
    <3>1. blocks' = Append(blocks, cur)
      BY <2>1, <1>2, <1>5, CaptureMoves DEF Marker, B!Prints
    <3>2. Len(blocks') = Len(blocks) + 1
      <4> DEFINE T == Seq(CaptureLines)
      <4>1. cur \in T /\ blocks \in Seq(T)  BY <1>3 DEF BenchType
      <4> HIDE DEF T
      <4> QED BY <3>1, <4>1
    <3>3. c + 1 \notin Arrived /\ Arrived' = Arrived \cup {c + 1}  BY <2>1, <1>7, <1>8
    <3>4. Cardinality(Arrived \cup {c + 1}) = Cardinality(Arrived) + 1
      BY <3>3, <1>8, FS_AddElement
    <3> QED BY <2>0, <3>2, <3>3, <3>4
  <2>2. CASE ~(m = 13 /\ inside)
    <3>1. blocks' = blocks
      <4>1. CASE m = 13
        BY <4>1, <2>2, <1>2, <1>5, CaptureMoves DEF Marker, B!Prints
      <4>2. CASE m # 13
        BY <4>2, <1>5, CaptureMoves
      <4> QED BY <4>1, <4>2
    <3>2. Arrived' = Arrived  BY <2>2, <1>7, <1>8
    <3> QED BY <2>0, <3>1, <3>2
  <2> QED BY <2>1, <2>2
<1>12. ASSUME NEW k \in Nat, NEW x \in 1 .. 13, at' = 13 * k + x
       PROVE  inside' <=> x > 1 /\ window'[1] <= 13 * k + 1
  <2>1. 13 * c + m + 1 = 13 * k + x  BY <1>1, <1>4, <1>12
  <2>2. CASE m < 13
    <3>1. k = c /\ x = m + 1  BY <2>1, <2>2
    <3> QED BY <2>2, <3>1, <1>2, <1>10
  <2>3. CASE m = 13
    <3>1. x = 1  BY <2>1, <2>3
    <3> QED BY <2>3, <3>1, <1>10
  <2> QED BY <2>2, <2>3
<1> QED BY <1>11, <1>12 DEF Cardinality

(* FirstIs: the first line of a kind in a block.                           *)
LEMMA FirstIs ==
  ASSUME NEW block \in Seq(CaptureLines), NEW kind, B!Has(block, kind)
  PROVE  \E i \in DOMAIN block :
           /\ B!First(block, kind) = block[i] /\ block[i].kind = kind
           /\ \A j \in DOMAIN block : block[j].kind = kind => i <= j
<1> DEFINE S == {i \in DOMAIN block : block[i].kind = kind}
<1>1. S # {} /\ S \subseteq Nat  BY DEF B!Has
<1>2. B!First(block, kind) = block[B!Min(S)]  BY DEF B!First
<1>3. B!Min(S) \in S /\ \A j \in S : B!Min(S) <= j
  <2> HIDE DEF S
  <2>1. \E m \in S : \A n \in S : m <= n  BY <1>1, LeastNat
  <2>2. B!Min(S) = CHOOSE x \in S : \A y \in S : x <= y  BY DEF B!Min
  <2> QED BY <2>1, <2>2
<1> QED BY <1>2, <1>3

(* TwoAtMost: no third line is lost.                                       *)
LEMMA TwoAtMost ==
  ASSUME Spanned, BenchAssumption, NEW x \in lost, NEW y \in lost, NEW z \in lost,
         x # y, y # z, x # z
  PROVE  FALSE
<1>1. \A S, s : IsFiniteSet(S) /\ s \notin S =>
        IsFiniteSet(S \cup {s}) /\ Cardinality(S \cup {s}) = Cardinality(S) + 1
  BY FS_AddElement
<1>2. IsFiniteSet({x}) /\ Cardinality({x}) = 1  BY FS_Singleton
<1>3. PICK A : A = {x} \cup {y}  OBVIOUS
<1>4. IsFiniteSet(A) /\ Cardinality(A) = 2
  <2>1. y \notin {x}  OBVIOUS
  <2>2. Cardinality({x} \cup {y}) = Cardinality({x}) + 1 /\ IsFiniteSet({x} \cup {y})
    BY <1>1, <1>2, <2>1
  <2>3. IsFiniteSet(A) /\ Cardinality(A) = Cardinality({x}) + 1  BY Zenon, <1>3, <2>2
  <2> QED BY <1>2, <2>3
<1>5. PICK C : C = A \cup {z}  OBVIOUS
<1>6. Cardinality(C) = 3
  <2>1. z \notin A  BY <1>3
  <2>2. Cardinality(A \cup {z}) = Cardinality(A) + 1  BY <1>1, <1>4, <2>1
  <2> QED BY <1>4, <1>5, <2>2
<1>7. C \in SUBSET lost  BY <1>3, <1>5
<1>8. IsFiniteSet(lost) /\ Cardinality(lost) <= MaxLost /\ MaxLost \in 0 .. 2
  BY DEF Spanned, BenchAssumption
<1>9. Cardinality(C) <= Cardinality(lost) /\ Cardinality(lost) \in Nat
  BY <1>7, <1>8, FS_Subset, FS_CardinalityType
<1> QED BY <1>6, <1>8, <1>9

\* The lines of a kind of the k-th block.
PlaceIn(k, kind) == 13 * (k - 1) + Slot[kind]

(* PlaceInIs: the line of a kind of a block, and what it says.             *)
LEMMA PlaceInIs ==
  ASSUME NEW k \in Nat \ {0}, NEW kind \in DOMAIN Slot
  PROVE  /\ PlaceIn(k, kind) \in Nat \ {0} /\ PlaceIn(k, kind) = 13 * (k - 1) + Slot[kind]
         /\ Slot[kind] \in 1 .. 13
         /\ B!From(PlaceIn(k, kind)) = k /\ B!KindAt(PlaceIn(k, kind)) = kind
         /\ Pos(B!Line(PlaceIn(k, kind))) = PlaceIn(k, kind)
         /\ B!Line(PlaceIn(k, kind)).from = k /\ B!Line(PlaceIn(k, kind)).kind = kind
         /\ B!Line(PlaceIn(k, kind)).val = B!Value(k, kind)
<1>1. PlaceIn(k, kind) = 13 * (k - 1) + Slot[kind]  BY DEF PlaceIn
<1>2. /\ B!From(PlaceIn(k, kind)) = k /\ B!KindAt(PlaceIn(k, kind)) = kind
      /\ PlaceIn(k, kind) \in Nat \ {0}
  BY <1>1, AtSlot
<1>3. Slot[kind] \in 1 .. 13  BY SlotOfKind
<1> QED BY <1>1, <1>2, <1>3, PosOf

(* LineIn: a line in a block cut off is one of the program.                *)
LEMMA LineIn ==
  ASSUME NEW block \in Seq(CaptureLines), NEW b \in Nat, NEW e \in Nat, NEW gone,
         Cut(block, b, e, gone), NEW i \in DOMAIN block
  PROVE  \E k \in Nat \ {0} :
           /\ block[i] = B!Line(PlaceIn(k, block[i].kind)) /\ block[i].from = k
           /\ block[i].kind \in DOMAIN Slot
           /\ Pos(block[i]) = PlaceIn(k, block[i].kind)
           /\ b < PlaceIn(k, block[i].kind) /\ PlaceIn(k, block[i].kind) < e
           /\ B!Prints(PlaceIn(k, block[i].kind))
<1>1. block[i] \in CaptureLines  OBVIOUS
<1>2. /\ Pos(block[i]) \in b + 1 .. e - 1 /\ block[i] = B!Line(Pos(block[i]))
      /\ B!Prints(Pos(block[i]))
  BY DEF Cut
<1>3. PICK k \in Nat \ {0} : k = block[i].from  BY <1>1 DEF CaptureLines
<1>4. PICK kind \in DOMAIN Slot : kind = block[i].kind  BY <1>1 DEF CaptureLines
<1>5. Pos(block[i]) = PlaceIn(k, kind)  BY <1>3, <1>4 DEF Pos, PlaceIn
<1>6. PlaceIn(k, kind) \in Nat  BY PlaceInIs
<1>7. b < PlaceIn(k, kind) /\ PlaceIn(k, kind) < e  BY <1>2, <1>5, <1>6
<1> QED BY <1>2, <1>3, <1>4, <1>5, <1>7

(* NeededIs: the lines parse_block() cannot do without.                    *)
LEMMA NeededIs ==
  B!Needed = {"flags", "cycles", "window", "instret", "check", "seed", "crc"}
BY DEF B!Needed

(* NeverSilent: what every block prints.                                   *)
LEMMA NeverSilent ==
  ASSUME NEW p, B!KindAt(p) \notin {"host", "error"}
  PROVE  B!Prints(p)
BY DEF B!Prints

(* SeamLost: between lines of two printed blocks the end of one and the    *)
(* begin of the other.                                                     *)
LEMMA SeamLost ==
  ASSUME BenchAssumption, NEW block, NEW b \in Nat, NEW e \in Nat,
         Cut(block, b, e, lost), NEW k \in Nat \ {0}, NEW j \in Nat \ {0}, k < j,
         b < 13 * k, 13 * (j - 1) + 1 < e
  PROVE  13 * k \in lost /\ 13 * (j - 1) + 1 \in lost
<1>1. 13 * k = 13 * (k - 1) + Slot["end"] /\ "end" \in DOMAIN Slot  BY SlotsAt
<1>2. 13 * (j - 1) + 1 = 13 * (j - 1) + Slot["begin"] /\ "begin" \in DOMAIN Slot  BY SlotsAt
<1>3. B!KindAt(13 * k) = "end"  BY <1>1, AtSlot
<1>4. B!KindAt(13 * (j - 1) + 1) = "begin"  BY <1>2, AtSlot
<1>5. 13 * k \in b + 1 .. e - 1 /\ 13 * (j - 1) + 1 \in b + 1 .. e - 1  OBVIOUS
<1> QED BY <1>3, <1>4, <1>5 DEF Cut, Marker

(* OneSource: the figures of a whole block are of one printed block: a     *)
(* seam inside takes both lines that may be lost, so the block before it   *)
(* is all there, and its figures come first.                               *)
LEMMA OneSource ==
  ASSUME Spanned, BenchAssumption, NEW block \in Seq(CaptureLines),
         NEW b \in B!Lines, NEW e \in B!Lines, Cut(block, b, e, lost), B!Whole(block)
  PROVE  \E k \in 1 .. Blocks : \A kind \in B!Needed :
           /\ B!First(block, kind) = B!Line(PlaceIn(k, kind))
           /\ b < PlaceIn(k, kind) /\ PlaceIn(k, kind) < e
<1>1. b \in Nat \ {0} /\ e \in Nat \ {0} /\ e <= Blocks * 13 /\ Blocks \in Nat
  BY LinesInside
<1>2. \A kind \in B!Needed : B!Has(block, kind)  BY DEF B!Whole
<1>3. B!Needed \subseteq DOMAIN Slot /\ "cycles" \in B!Needed  BY NeededIs, SlotsAt
<1>4. ASSUME NEW kind \in B!Needed
      PROVE  \E k \in Nat \ {0}, i \in DOMAIN block :
               /\ B!First(block, kind) = B!Line(PlaceIn(k, kind))
               /\ b < PlaceIn(k, kind) /\ PlaceIn(k, kind) < e
               /\ Pos(block[i]) = PlaceIn(k, kind)
               /\ \A j \in DOMAIN block : block[j].kind = kind => i <= j
  <2>1. PICK i \in DOMAIN block :
          /\ B!First(block, kind) = block[i] /\ block[i].kind = kind
          /\ \A j \in DOMAIN block : block[j].kind = kind => i <= j
    BY <1>2, FirstIs
  <2> QED BY <2>1, <1>1, LineIn
<1>5. PICK k0 \in Nat \ {0} : b = 13 * (k0 - 1) + 1
  <2>1. B!KindAt(b) = "begin"  BY DEF Cut
  <2>2. B!From(b) \in Nat \ {0} /\ b = 13 * (B!From(b) - 1) + Slot[B!KindAt(b)]
    BY <1>1, PosOf
  <2> QED BY <2>1, <2>2, SlotsAt
<1>6. ASSUME NEW x \in B!Needed, NEW y \in B!Needed, NEW k \in Nat \ {0}, NEW l \in Nat \ {0},
             b < PlaceIn(k, x), PlaceIn(l, y) < e, k < l,
             NEW iy \in DOMAIN block, Pos(block[iy]) = PlaceIn(l, y),
             \A j \in DOMAIN block : block[j].kind = y => iy <= j
      PROVE  FALSE
  <2>1. PICK sx \in 2 .. 12 : sx = Slot[x]  BY NeededIs, SlotsAt
  <2>2. PICK sy \in 2 .. 12 : sy = Slot[y]  BY NeededIs, SlotsAt
  <2>3. PlaceIn(k, x) = 13 * (k - 1) + sx /\ PlaceIn(l, y) = 13 * (l - 1) + sy
    BY <2>1, <2>2 DEF PlaceIn
  <2>4. b < 13 * k /\ 13 * (l - 1) + 1 < e  BY <1>1, <1>6, <2>3
  <2>5. 13 * k \in lost /\ 13 * (l - 1) + 1 \in lost
    BY <1>1, <1>6, <2>4, SeamLost
  <2>6. k0 <= k  BY <1>5, <1>6, <2>3
  <2>7. k0 = k
    <3> SUFFICES ASSUME k0 < k PROVE FALSE  BY <2>6, <1>5, <1>6
    <3>1. b < 13 * k0 /\ k0 < l  BY <1>5, <1>6
    <3>2. 13 * k0 \in lost  BY <1>1, <1>5, <2>4, <3>1, SeamLost
    <3>3. 13 * k0 # 13 * k /\ 13 * k0 # 13 * (l - 1) + 1 /\ 13 * k # 13 * (l - 1) + 1
      BY <1>5, <1>6
    <3> QED BY <2>5, <3>2, <3>3, TwoAtMost
  <2>y. y \in DOMAIN Slot  BY <1>3
  <2>z. /\ PlaceIn(k, y) \in Nat \ {0} /\ PlaceIn(k, y) = 13 * (k - 1) + Slot[y]
        /\ B!KindAt(PlaceIn(k, y)) = y
        /\ Pos(B!Line(PlaceIn(k, y))) = PlaceIn(k, y)
        /\ B!Line(PlaceIn(k, y)).kind = y
    BY <2>y, PlaceInIs
  <2>8. PICK q \in Nat \ {0} : q = PlaceIn(k, y) /\ q = 13 * (k - 1) + sy
    BY <2>z, <2>2
  <2>9. q \notin lost
    <3>1. q # 13 * k /\ q # 13 * (l - 1) + 1 /\ 13 * k # 13 * (l - 1) + 1
      BY <1>6, <2>8
    <3> QED BY <2>5, <3>1, TwoAtMost
  <2>10. B!KindAt(q) = y /\ B!Line(q).kind = y /\ Pos(B!Line(q)) = q  BY <2>z, <2>8
  <2>11. B!Prints(q)
    <3>1. y \notin {"host", "error"}  BY NeededIs
    <3> QED BY <3>1, <2>10, NeverSilent
  <2>12. q \in b + 1 .. e - 1  BY <1>1, <1>5, <1>6, <2>4, <2>7, <2>8
  <2>13. PICK j \in DOMAIN block : block[j] = B!Line(q)  BY <2>9, <2>11, <2>12 DEF Cut
  <2>14. iy <= j /\ Pos(block[j]) = q  BY <1>6, <2>10, <2>13
  <2>15. Rising(block)  BY DEF Cut
  <2>16. iy = j \/ Pos(block[iy]) < Pos(block[j])
    <3>1. iy \in Nat /\ j \in Nat  OBVIOUS
    <3>2. iy = j \/ iy < j  BY <3>1, <2>14
    <3> QED BY <3>2, <2>15 DEF Rising
  <2>17. PlaceIn(l, y) <= q
    <3>1. PlaceIn(l, y) \in Nat  BY <1>3, PlaceInIs
    <3> QED BY <3>1, <2>14, <2>16, <1>6
  <2> QED BY <1>6, <2>3, <2>8, <2>17
<1>7. PICK k \in Nat \ {0}, ic \in DOMAIN block :
        /\ B!First(block, "cycles") = B!Line(PlaceIn(k, "cycles"))
        /\ b < PlaceIn(k, "cycles") /\ PlaceIn(k, "cycles") < e
        /\ Pos(block[ic]) = PlaceIn(k, "cycles")
        /\ \A j \in DOMAIN block : block[j].kind = "cycles" => ic <= j
  BY <1>3, <1>4
<1>8. ASSUME NEW kind \in B!Needed
      PROVE  /\ B!First(block, kind) = B!Line(PlaceIn(k, kind))
             /\ b < PlaceIn(k, kind) /\ PlaceIn(k, kind) < e
  <2>1. PICK l \in Nat \ {0}, i \in DOMAIN block :
          /\ B!First(block, kind) = B!Line(PlaceIn(l, kind))
          /\ b < PlaceIn(l, kind) /\ PlaceIn(l, kind) < e
          /\ Pos(block[i]) = PlaceIn(l, kind)
          /\ \A j \in DOMAIN block : block[j].kind = kind => i <= j
    BY <1>4
  <2>2. ~(k < l)
    <3> SUFFICES ASSUME k < l PROVE FALSE  OBVIOUS
    <3> QED BY <1>3, <1>6, <1>7, <2>1
  <2>3. ~(l < k)
    <3> SUFFICES ASSUME l < k PROVE FALSE  OBVIOUS
    <3> QED BY <1>3, <1>6, <1>7, <2>1
  <2>4. l = k  BY <2>2, <2>3
  <2> QED BY <2>1, <2>4
<1>9. k \in 1 .. Blocks
  <2>1. PlaceIn(k, "cycles") = 13 * (k - 1) + 4  BY SlotsAt DEF PlaceIn
  <2> QED BY <2>1, <1>1, <1>7
<1> QED BY <1>8, <1>9

(* ParsedFrom: the figures accepted, by the block that printed them.       *)
LEMMA ParsedFrom ==
  ASSUME BenchInv, BenchAssumption, NEW n \in DOMAIN parsed
  PROVE  \E k \in 1 .. Blocks, b \in B!Lines, e \in B!Lines :
           /\ Cut(blocks[n], b, e, lost) /\ n \in DOMAIN blocks
           /\ \A kind \in B!Needed :
                /\ B!First(blocks[n], kind) = B!Line(PlaceIn(k, kind))
                /\ parsed[n][kind] = B!Line(PlaceIn(k, kind))
                /\ b < PlaceIn(k, kind) /\ PlaceIn(k, kind) < e
<1>1. /\ parsed \in Seq([B!Needed -> CaptureLines]) /\ Len(parsed) <= Len(blocks)
      /\ blocks \in Seq(Seq(CaptureLines))
  BY DEF BenchInv, BenchType, InTurn
<1>2. n \in DOMAIN blocks /\ blocks[n] \in Seq(CaptureLines)
  <2> DEFINE T == Seq(CaptureLines)
  <2>1. blocks \in Seq(T)  BY <1>1
  <2> HIDE DEF T
  <2>2. n \in DOMAIN blocks /\ blocks[n] \in T  BY <1>1, <2>1
  <2> QED BY <2>2 DEF T
<1>3. /\ B!Whole(blocks[n])
      /\ \A kind \in B!Needed : parsed[n][kind] = B!First(blocks[n], kind)
  BY DEF BenchInv, InTurn, Passes
<1>4. PICK b \in B!Lines, e \in B!Lines : Cut(blocks[n], b, e, lost)
  BY <1>2 DEF BenchInv, Separate
<1>5. Spanned  BY DEF BenchInv
<1>6. PICK k \in 1 .. Blocks : \A kind \in B!Needed :
           /\ B!First(blocks[n], kind) = B!Line(PlaceIn(k, kind))
           /\ b < PlaceIn(k, kind) /\ PlaceIn(k, kind) < e
  BY <1>2, <1>3, <1>4, <1>5, OneSource
<1> QED BY <1>2, <1>3, <1>4, <1>6

(* FirstPos: the first line of a kind is a line of the block.              *)
LEMMA FirstPos ==
  ASSUME NEW block \in Seq(CaptureLines), NEW kind, B!Has(block, kind)
  PROVE  \E i \in DOMAIN block : B!First(block, kind) = block[i]
BY FirstIs

(* ParsedRising: figures accepted later were printed later.                *)
LEMMA ParsedRising ==
  ASSUME BenchInv, BenchAssumption, NEW n \in DOMAIN parsed, NEW m \in DOMAIN parsed, n < m,
         NEW k \in 1 .. Blocks, NEW l \in 1 .. Blocks, NEW kind \in B!Needed,
         parsed[n][kind] = B!Line(PlaceIn(k, kind)),
         parsed[m][kind] = B!Line(PlaceIn(l, kind))
  PROVE  k < l
<1>1. n \in DOMAIN blocks /\ m \in DOMAIN blocks  BY ParsedFrom
<1>2. blocks[n] \in Seq(CaptureLines) /\ blocks[m] \in Seq(CaptureLines)
  <2> DEFINE T == Seq(CaptureLines)
  <2>1. blocks \in Seq(T)  BY DEF BenchInv, BenchType
  <2> HIDE DEF T
  <2>2. blocks[n] \in T /\ blocks[m] \in T  BY <1>1, <2>1
  <2> QED BY <2>2 DEF T
<1>3. /\ B!Has(blocks[n], kind) /\ B!Has(blocks[m], kind)
      /\ parsed[n][kind] = B!First(blocks[n], kind)
      /\ parsed[m][kind] = B!First(blocks[m], kind)
  BY DEF BenchInv, InTurn, Passes, B!Whole
<1>4. PICK i \in DOMAIN blocks[n] : parsed[n][kind] = blocks[n][i]  BY <1>2, <1>3, FirstPos
<1>5. PICK j \in DOMAIN blocks[m] : parsed[m][kind] = blocks[m][j]  BY <1>2, <1>3, FirstPos
<1>6. Pos(blocks[n][i]) < Pos(blocks[m][j])  BY <1>1 DEF BenchInv, Ordered
<1>7. kind \in DOMAIN Slot /\ Blocks \in Nat /\ k \in Nat \ {0} /\ l \in Nat \ {0}
  BY NeededIs, SlotsAt DEF BenchAssumption
<1>8. Pos(B!Line(PlaceIn(k, kind))) = PlaceIn(k, kind)
      /\ Pos(B!Line(PlaceIn(l, kind))) = PlaceIn(l, kind)
  BY <1>7, PlaceInIs
<1>9. PlaceIn(k, kind) < PlaceIn(l, kind)  BY <1>4, <1>5, <1>6, <1>8
<1>10. Slot[kind] \in Nat  BY <1>7, SlotOfKind
<1> QED BY <1>7, <1>9, <1>10 DEF PlaceIn

(* WarmIs: what is left without the warm-up blocks.                        *)
LEMMA WarmIs ==
  ASSUME BenchType
  PROVE  /\ opt.warmup <= Len(parsed) => Len(B!Warm) = Len(parsed) - opt.warmup
         /\ opt.warmup > Len(parsed) => Len(B!Warm) = 0
         /\ DOMAIN B!Warm = 1 .. Len(B!Warm) /\ opt.warmup \in Nat /\ Len(parsed) \in Nat
         /\ \A i \in DOMAIN B!Warm : /\ opt.warmup + i \in DOMAIN parsed
                                     /\ B!Warm[i] = parsed[opt.warmup + i]
<1>1. PICK w \in Nat : w = opt.warmup  BY DEF BenchType
<1>2. PICK S : S = [B!Needed -> CaptureLines]  OBVIOUS
<1>3. PICK s \in Seq(S) : s = parsed  BY <1>2 DEF BenchType
<1>4. PICK u : u = SubSeq(s, w + 1, Len(s))  OBVIOUS
<1>5. B!Warm = u  BY <1>1, <1>3, <1>4 DEF B!Warm
<1>6. /\ w <= Len(s) => Len(u) = Len(s) - w
      /\ w > Len(s) => Len(u) = 0
      /\ DOMAIN u = 1 .. Len(u)
      /\ \A i \in DOMAIN u : w + i \in DOMAIN s /\ u[i] = s[w + i]
  <2>1. CASE w <= Len(s)
    <3>1. Len(u) = Len(s) - w  BY <1>4, <2>1
    <3>2. DOMAIN u = 1 .. Len(s) - w  BY <1>4, <2>1
    <3>3. \A i \in 1 .. Len(s) - w : w + i \in DOMAIN s /\ u[i] = s[w + i]
      BY <1>4, <2>1
    <3> QED BY <2>1, <3>1, <3>2, <3>3
  <2>2. CASE w > Len(s)
    <3>1. u = <<>>  BY <1>4, <2>2
    <3> QED BY <3>1, <2>2
  <2> QED BY <2>1, <2>2
<1> QED BY <1>1, <1>3, <1>5, <1>6

(* What a healthy board adds to a figure, and the instructions it counts.  *)
Slack == IF fault = "brim" THEN MaxSkew ELSE 0
Steady == IF fault = "brim" THEN MinCycles + MaxSkew ELSE MinCycles \div 4

(* HealthyFigures: what a healthy board prints.                            *)
LEMMA HealthyFigures ==
  ASSUME BenchInv, BenchAssumption, fault \in B!Harmless, NEW k \in 1 .. Blocks
  PROVE  /\ \E y \in 0 .. opt.tolerance :
              /\ B!Value(k, "cycles") = B!Base(k) + y
              /\ B!Value(k, "window") = B!Base(k) + y + Slack
         /\ B!Value(k, "instret") = Steady
         /\ B!Value(k, "flags") = "right" /\ B!Value(k, "check") = "right"
         /\ B!Value(k, "crc") = "right" /\ B!Value(k, "seed") = "right"
         /\ MinCycles \in Nat /\ MinCycles >= 4 /\ opt.tolerance \in 0 .. 4
         /\ Slack \in 0 .. MaxSkew /\ MaxSkew \in Nat
         /\ Steady \in Nat /\ Steady > 0 /\ Steady <= MinCycles + Slack
         /\ k # 1 => B!Base(k) = MinCycles
         /\ B!Base(k) \in {MinCycles, MinCycles + 10}
<1>1. MinCycles \in Nat /\ MinCycles >= 4 /\ MaxSkew \in Nat  BY DEF BenchAssumption
<1>2. opt.tolerance \in 0 .. 4  BY DEF BenchInv, BenchType
<1>3. fault = "brim" => k \in hit  BY DEF BenchInv, Spanned
<1>4. /\ B!Base(k) \in {MinCycles, MinCycles + 10} /\ (k # 1 => B!Base(k) = MinCycles)
  BY <1>1 DEF B!Base
<1>5. B!Base(k) \in Nat  BY <1>1, <1>4
<1>6. Slack \in 0 .. MaxSkew /\ (fault # "brim" => Slack = 0)  BY <1>1 DEF Slack
<1>7. \E y \in 0 .. opt.tolerance : B!Cycles(k) = B!Base(k) + y
  <2>1. CASE fault = "jitter"
    <3>1. B!Cycles(k) = B!Base(k) + opt.tolerance  BY <2>1 DEF B!Cycles
    <3> QED BY <3>1, <1>2
  <2>2. CASE fault \in {"none", "brim"}
    <3>1. B!Cycles(k) = B!Base(k) + 0  BY <2>2 DEF B!Cycles
    <3> QED BY <3>1, <1>2
  <2> QED BY <2>1, <2>2 DEF B!Harmless
<1>8. B!Spans(k) = B!Cycles(k) + Slack
  <2>1. CASE fault = "brim"  BY <2>1 DEF B!Spans, Slack
  <2>2. CASE fault \in {"none", "jitter"}  BY <2>2 DEF B!Spans, Slack
  <2> QED BY <2>1, <2>2 DEF B!Harmless
<1>9. \E y \in 0 .. opt.tolerance :
        /\ B!Value(k, "cycles") = B!Base(k) + y
        /\ B!Value(k, "window") = B!Base(k) + y + Slack
  <2>1. CASE k \in hit
    <3>1. B!Value(k, "cycles") = B!Cycles(k) /\ B!Value(k, "window") = B!Spans(k)
      BY <2>1 DEF B!Value
    <3> QED BY <3>1, <1>7, <1>8
  <2>2. CASE k \notin hit
    <3>1. B!Value(k, "cycles") = B!Base(k) /\ B!Value(k, "window") = B!Base(k)
      BY <2>2 DEF B!Value
    <3>2. Slack = 0  BY <1>3, <1>6, <2>2
    <3>3. 0 \in 0 .. opt.tolerance  BY <1>2
    <3>4. B!Value(k, "cycles") = B!Base(k) + 0 /\ B!Value(k, "window") = B!Base(k) + 0 + Slack
      BY <3>1, <3>2, <1>5
    <3> QED BY <3>3, <3>4
  <2> QED BY <2>1, <2>2
<1>10. B!Value(k, "instret") = Steady
  <2>1. CASE fault = "brim"  BY <2>1, <1>3 DEF B!Value, B!Instret, Steady
  <2>2. CASE fault \in {"none", "jitter"}  BY <2>2 DEF B!Value, B!Instret, Steady
  <2> QED BY <2>1, <2>2 DEF B!Harmless
<1>11. Steady \in Nat /\ Steady > 0 /\ Steady <= MinCycles + Slack
  BY <1>1 DEF Steady, Slack
<1>12. /\ B!Value(k, "flags") = "right" /\ B!Value(k, "check") = "right"
       /\ B!Value(k, "crc") = "right" /\ B!Value(k, "seed") = "right"
  BY DEF B!Value, B!Harmless
<1> QED BY <1>1, <1>2, <1>4, <1>6, <1>9, <1>10, <1>11, <1>12

(* CyclesMove: how a fault moves the cycles of a block.                    *)
LEMMA CyclesMove ==
  ASSUME BenchType, BenchAssumption
  PROVE  /\ MinCycles \in Nat /\ MinCycles >= 4 /\ MinCycles \div 4 \in Nat
         /\ opt.tolerance \in 0 .. 4
         /\ \E x \in -1 .. 5 :
              /\ fault = "drift" => x = opt.tolerance + 1
              /\ fault = "short" => x = -1
              /\ fault # "short" => x >= 0
              /\ fault \notin {"short", "jitter", "drift"} => x = 0
              /\ \A k \in Nat : B!Cycles(k) = B!Base(k) + x
         /\ \A k \in Nat : B!Base(k) = IF k = 1 THEN MinCycles + 10 ELSE MinCycles
<1>1. MinCycles \in Nat /\ MinCycles >= 4 /\ MinCycles \div 4 \in Nat  BY DEF BenchAssumption
<1>2. opt.tolerance \in 0 .. 4  BY DEF BenchType
<1>3. PICK x : x = CASE fault = "short"  -> -1
                     [] fault = "jitter" -> opt.tolerance
                     [] fault = "drift"  -> opt.tolerance + 1
                     [] OTHER            -> 0
  OBVIOUS
<1>4. /\ x \in -1 .. 5
      /\ fault = "drift" => x = opt.tolerance + 1
      /\ fault = "short" => x = -1
      /\ fault # "short" => x >= 0
      /\ fault \notin {"short", "jitter", "drift"} => x = 0
  <2>1. CASE fault = "short"  BY <2>1, <1>3
  <2>2. CASE fault = "jitter"  BY <2>2, <1>2, <1>3
  <2>3. CASE fault = "drift"  BY <2>3, <1>2, <1>3
  <2>4. CASE fault \notin {"short", "jitter", "drift"}  BY <2>4, <1>3
  <2> QED BY <2>1, <2>2, <2>3, <2>4
<1>5. \A k \in Nat : B!Cycles(k) = B!Base(k) + x  BY <1>3 DEF B!Cycles
<1>6. \A k \in Nat : B!Base(k) = IF k = 1 THEN MinCycles + 10 ELSE MinCycles
  BY <1>1 DEF B!Base
<1> QED BY <1>1, <1>2, <1>4, <1>5, <1>6

(* HostShows: a block of the build host holds the line that says so.       *)
LEMMA HostShows ==
  ASSUME BenchAssumption, NEW block \in Seq(CaptureLines), NEW b \in B!Lines, NEW e \in B!Lines,
         Cut(block, b, e, lost), lost = {}, fault = "host", NEW k \in Nat \ {0},
         b < PlaceIn(k, "flags"), PlaceIn(k, "flags") < e
  PROVE  B!Has(block, "host")
<1>1. b \in Nat \ {0} /\ e \in Nat  BY LinesInside
<1>2. PlaceIn(k, "flags") = 13 * (k - 1) + 3  BY SlotsAt DEF PlaceIn
<1>3. PICK p : p = PlaceIn(k, "host")  OBVIOUS
<1>4. /\ p = 13 * (k - 1) + 2 /\ B!KindAt(p) = "host" /\ B!Line(p).kind = "host"
  <2>1. "host" \in DOMAIN Slot /\ Slot["host"] = 2  BY SlotsAt
  <2>2. \A kind \in DOMAIN Slot :
          /\ PlaceIn(k, kind) = 13 * (k - 1) + Slot[kind] /\ B!KindAt(PlaceIn(k, kind)) = kind
          /\ B!Line(PlaceIn(k, kind)).kind = kind /\ B!From(PlaceIn(k, kind)) = k
    BY PlaceInIs
  <2> QED BY <2>1, <2>2, <1>3
<1>5. PICK k0 \in Nat \ {0} : b = 13 * (k0 - 1) + 1
  <2>1. B!KindAt(b) = "begin"  BY DEF Cut
  <2>2. B!From(b) \in Nat \ {0} /\ b = 13 * (B!From(b) - 1) + Slot[B!KindAt(b)]
    BY <1>1, PosOf
  <2> QED BY <2>1, <2>2, SlotsAt
<1>6. k0 = k
  <2>1. k0 <= k  BY <1>2, <1>5
  <2>2. CASE k0 < k
    <3>1. b < 13 * k0 /\ 13 * (k - 1) + 1 < e  BY <1>1, <1>2, <1>5
    <3>2. 13 * k0 \in lost  BY <1>1, <2>2, <3>1, SeamLost
    <3> QED BY <3>2
  <2> QED BY <2>1, <2>2
<1>7. p \in b + 1 .. e - 1  BY <1>1, <1>2, <1>4, <1>5, <1>6
<1>8. B!Prints(p)  BY <1>4 DEF B!Prints
<1>9. PICK i \in DOMAIN block : block[i] = B!Line(p)  BY <1>7, <1>8 DEF Cut
<1> QED BY <1>4, <1>9 DEF B!Has

(* ErrorShows: and one whose checksum is wrong, the line that says so.     *)
LEMMA ErrorShows ==
  ASSUME BenchAssumption, NEW block \in Seq(CaptureLines), NEW b \in B!Lines, NEW e \in B!Lines,
         Cut(block, b, e, lost), fault = "crc", NEW k \in Nat \ {0}, k \in hit,
         b < PlaceIn(k, "flags"), PlaceIn(k, "crc") < e
  PROVE  B!Has(block, "error") \/ B!ErrorLost
<1>1. b \in Nat /\ e \in Nat  BY LinesInside
<1>2. PlaceIn(k, "flags") = 13 * (k - 1) + 3 /\ PlaceIn(k, "crc") = 13 * (k - 1) + 10
  BY SlotsAt DEF PlaceIn
<1>3. PICK p : p = PlaceIn(k, "error")  OBVIOUS
<1>4. /\ p = 13 * (k - 1) + 8 /\ B!KindAt(p) = "error" /\ B!Line(p).kind = "error"
      /\ B!From(p) = k
  <2>1. "error" \in DOMAIN Slot /\ Slot["error"] = 8  BY SlotsAt
  <2>2. \A kind \in DOMAIN Slot :
          /\ PlaceIn(k, kind) = 13 * (k - 1) + Slot[kind] /\ B!KindAt(PlaceIn(k, kind)) = kind
          /\ B!Line(PlaceIn(k, kind)).kind = kind /\ B!From(PlaceIn(k, kind)) = k
    BY PlaceInIs
  <2> QED BY <2>1, <2>2, <1>3
<1>5. p \in b + 1 .. e - 1  BY <1>1, <1>2, <1>4
<1>6. B!Prints(p)  BY <1>4 DEF B!Prints
<1>7. CASE p \in lost  BY <1>4, <1>7 DEF B!ErrorLost
<1>8. CASE p \notin lost
  <2>1. PICK i \in DOMAIN block : block[i] = B!Line(p)  BY <1>5, <1>6, <1>8 DEF Cut
  <2> QED BY <2>1, <1>4 DEF B!Has
<1> QED BY <1>7, <1>8

(* BadBlock: what is wrong in a printed block shows in the checks of       *)
(* parse_block().                                                          *)
LEMMA BadBlock ==
  ASSUME BenchInv, BenchAssumption, NEW n \in DOMAIN parsed, NEW k \in 1 .. Blocks, k \in hit,
         \A kind \in B!Needed : parsed[n][kind] = B!Line(PlaceIn(k, kind))
  PROVE  /\ fault \notin {"flags", "check", "seed"}
         /\ fault = "crc" => B!ErrorLost
         /\ opt.mode = "score" => fault \notin {"host", "stuck", "ipc", "skew"}
<1>1. PICK l \in 1 .. Blocks, b \in B!Lines, e \in B!Lines :
           /\ Cut(blocks[n], b, e, lost) /\ n \in DOMAIN blocks
           /\ \A kind \in B!Needed :
                /\ B!First(blocks[n], kind) = B!Line(PlaceIn(l, kind))
                /\ parsed[n][kind] = B!Line(PlaceIn(l, kind))
                /\ b < PlaceIn(l, kind) /\ PlaceIn(l, kind) < e
  BY ParsedFrom
<1>2. k \in Nat \ {0} /\ l \in Nat \ {0}  BY DEF BenchAssumption
<1>3. /\ B!Needed \subseteq DOMAIN Slot /\ "cycles" \in B!Needed /\ "flags" \in B!Needed
      /\ "check" \in B!Needed /\ "seed" \in B!Needed /\ "window" \in B!Needed
      /\ "instret" \in B!Needed /\ "crc" \in B!Needed
  BY NeededIs, SlotsAt
<1>4. l = k
  <2>1. B!Line(PlaceIn(l, "cycles")) = B!Line(PlaceIn(k, "cycles"))  BY <1>1, <1>3
  <2>2. "cycles" \in DOMAIN Slot  BY <1>3
  <2>3. B!Line(PlaceIn(l, "cycles")).from = l /\ B!Line(PlaceIn(k, "cycles")).from = k
    BY <1>2, <2>2, PlaceInIs
  <2> QED BY <2>1, <2>3
<1>5. ASSUME NEW kind \in B!Needed
      PROVE  B!First(blocks[n], kind).val = B!Value(k, kind)
  <2>1. B!Line(PlaceIn(k, kind)).val = B!Value(k, kind)
    BY <1>2, <1>3, PlaceInIs
  <2> QED BY <2>1, <1>1, <1>4
<1>6. B!Whole(blocks[n]) /\ B!Valid(blocks[n]) /\ B!RightSource(blocks[n])
  BY DEF BenchInv, InTurn, Passes
<1>7. blocks[n] \in Seq(CaptureLines)
  <2> DEFINE T == Seq(CaptureLines)
  <2>1. blocks \in Seq(T)  BY DEF BenchInv, BenchType
  <2> HIDE DEF T
  <2>2. blocks[n] \in T  BY <1>1, <2>1
  <2> QED BY <2>2 DEF T
<1>8. fault \notin {"flags", "check", "seed"}
  <2>1. /\ B!Value(k, "flags") = "right" /\ B!Value(k, "check") = "right"
        /\ B!Value(k, "seed") = "right"
    BY <1>3, <1>5, <1>6 DEF B!Valid
  <2>2. CASE fault = "flags"  BY <2>1, <2>2 DEF B!Value
  <2>3. CASE fault = "check"  BY <2>1, <2>3 DEF B!Value
  <2>4. CASE fault = "seed"  BY <2>1, <2>4 DEF B!Value
  <2> QED BY <2>2, <2>3, <2>4
<1>9. ASSUME fault = "crc" PROVE B!ErrorLost
  <2>1. ~B!Has(blocks[n], "error")  BY <1>6 DEF B!Valid
  <2>2. b < PlaceIn(k, "flags") /\ PlaceIn(k, "crc") < e  BY <1>1, <1>3, <1>4
  <2> QED BY <2>1, <2>2, <1>1, <1>2, <1>7, <1>9, ErrorShows
<1>10. ASSUME opt.mode = "score", fault = "host" PROVE FALSE
  <2>1. lost = {}  BY <1>10 DEF BenchInv, Spanned
  <2>2. b < PlaceIn(k, "flags") /\ PlaceIn(k, "flags") < e  BY <1>1, <1>3, <1>4
  <2>3. B!Has(blocks[n], "host")  BY <2>1, <2>2, <1>1, <1>2, <1>7, <1>10, HostShows
  <2> QED BY <2>3, <1>6, <1>10 DEF B!RightSource
<1>11. ASSUME opt.mode = "score" PROVE fault \notin {"stuck", "ipc", "skew"}
  <2>1. B!Derives(B!Value(k, "cycles"), B!Value(k, "window"), B!Value(k, "instret"))
    <3>1. B!Derives(B!First(blocks[n], "cycles").val, B!First(blocks[n], "window").val,
                    B!First(blocks[n], "instret").val)
      BY <1>11 DEF BenchInv, InTurn, Passes
    <3> QED BY <3>1, <1>3, <1>5
  <2>2. BenchType /\ MaxSkew \in Nat  BY DEF BenchInv, BenchAssumption
  <2>3. B!Base(k) \in Int /\ B!Cycles(k) \in Int  BY <1>2, <2>2, FiguresTyped
  <2>4. /\ B!Value(k, "cycles") = B!Cycles(k) /\ B!Value(k, "window") = B!Spans(k)
        /\ B!Value(k, "instret") = B!Instret(k)
    BY DEF B!Value
  <2>5. CASE fault = "stuck"
    <3>1. B!Instret(k) = 0  BY <2>5 DEF B!Instret
    <3> QED BY <3>1, <2>1, <2>4 DEF B!Derives
  <2>6. CASE fault = "ipc"
    <3>1. B!Spans(k) \in Int  BY <2>3, <2>6 DEF B!Spans
    <3>2. B!Instret(k) = B!Spans(k) + 1  BY <2>6 DEF B!Instret
    <3>3. B!Spans(k) + 1 <= B!Spans(k)  BY <3>2, <2>1, <2>4 DEF B!Derives
    <3> QED BY <3>1, <3>3
  <2>7. CASE fault = "skew"
    <3>1. B!Spans(k) = B!Cycles(k) + (MaxSkew + 1)  BY <2>7 DEF B!Spans
    <3>2. (B!Cycles(k) + (MaxSkew + 1)) - B!Cycles(k) <= MaxSkew
      BY <3>1, <2>1, <2>4 DEF B!Derives
    <3> QED BY <3>2, <2>2, <2>3
  <2> QED BY <2>5, <2>6, <2>7
<1> QED BY <1>8, <1>9, <1>10, <1>11

(* LongEnough: a block that is scored ran for the least time, unless short *)
(* ones are allowed.                                                       *)
LEMMA LongEnough ==
  ASSUME BenchInv, BenchAssumption, NEW n \in DOMAIN parsed, NEW k \in 1 .. Blocks,
         \A kind \in B!Needed : parsed[n][kind] = B!Line(PlaceIn(k, kind)),
         opt.mode = "score", ~opt.allowShort
  PROVE  B!Value(k, "cycles") >= MinCycles
<1>1. "cycles" \in B!Needed /\ "cycles" \in DOMAIN Slot /\ k \in Nat \ {0}
  BY NeededIs, SlotsAt DEF BenchAssumption
<1>2. B!First(blocks[n], "cycles") = parsed[n]["cycles"]
  BY <1>1 DEF BenchInv, InTurn
<1>3. parsed[n]["cycles"].val = B!Value(k, "cycles")  BY <1>1, PlaceInIs
<1>4. n \in DOMAIN blocks  BY ParsedFrom
<1>5. B!First(blocks[n], "cycles").val >= MinCycles
  BY <1>4 DEF BenchInv, InTurn, Passes, B!Derives
<1> QED BY <1>2, <1>3, <1>5

(* ComparedNear: blocks that are compared are near in cycles, and those    *)
(* scored agree in their instructions.                                     *)
LEMMA ComparedNear ==
  ASSUME BenchInv, BenchAssumption, verdict = "ok", opt.mode = "score",
         NEW n \in DOMAIN parsed, NEW m \in DOMAIN parsed, n # m,
         NEW k \in 1 .. Blocks, NEW l \in 1 .. Blocks,
         \A kind \in B!Needed : parsed[n][kind] = B!Line(PlaceIn(k, kind)),
         \A kind \in B!Needed : parsed[m][kind] = B!Line(PlaceIn(l, kind))
  PROVE  /\ B!Value(k, "instret") = B!Value(l, "instret")
         /\ n > opt.warmup /\ m > opt.warmup =>
              /\ B!Value(k, "cycles") - B!Value(l, "cycles") <= opt.tolerance
              /\ B!Value(l, "cycles") - B!Value(k, "cycles") <= opt.tolerance
<1>1. BenchType /\ B!Reproducible  BY DEF BenchInv, InTurn
<1>2. PICK z \in Nat : z = Len(parsed) /\ DOMAIN parsed = 1 .. z
  BY <1>1 DEF BenchType
<1>3. z >= 2  BY <1>2
<1>4. B!Same("instret") /\ B!Near("cycles")  BY <1>1, <1>2, <1>3 DEF B!Reproducible
<1>5. /\ "instret" \in B!Needed /\ "cycles" \in B!Needed
      /\ "instret" \in DOMAIN Slot /\ "cycles" \in DOMAIN Slot
      /\ k \in Nat \ {0} /\ l \in Nat \ {0}
  BY NeededIs, SlotsAt DEF BenchAssumption
<1>6. /\ parsed[n]["instret"].val = B!Value(k, "instret")
      /\ parsed[m]["instret"].val = B!Value(l, "instret")
      /\ parsed[n]["cycles"].val = B!Value(k, "cycles")
      /\ parsed[m]["cycles"].val = B!Value(l, "cycles")
  <2>1. ASSUME NEW kind \in DOMAIN Slot, NEW j \in Nat \ {0}
        PROVE  B!Line(PlaceIn(j, kind)).val = B!Value(j, kind)
    BY PlaceInIs
  <2> QED BY <2>1, <1>5
<1>7. B!Value(k, "instret") = B!Value(l, "instret")  BY <1>4, <1>6 DEF B!Same
<1>8. ASSUME n > opt.warmup, m > opt.warmup
      PROVE  /\ B!Value(k, "cycles") - B!Value(l, "cycles") <= opt.tolerance
             /\ B!Value(l, "cycles") - B!Value(k, "cycles") <= opt.tolerance
  <2>1. /\ opt.warmup <= Len(parsed) => Len(B!Warm) = Len(parsed) - opt.warmup
        /\ DOMAIN B!Warm = 1 .. Len(B!Warm) /\ opt.warmup \in Nat
        /\ \A i \in DOMAIN B!Warm : B!Warm[i] = parsed[opt.warmup + i]
    BY <1>1, WarmIs
  <2>2. PICK w \in Nat : w = opt.warmup  BY <2>1
  <2>3. DOMAIN B!Warm = 1 .. z - w /\ n \in w + 1 .. z /\ m \in w + 1 .. z
    BY <1>2, <1>8, <2>1, <2>2
  <2>4. n - w \in DOMAIN B!Warm /\ m - w \in DOMAIN B!Warm
        /\ w + (n - w) = n /\ w + (m - w) = m
    <3>1. \A i \in w + 1 .. z : i - w \in 1 .. z - w /\ w + (i - w) = i
      BY <1>2, <2>2
    <3> QED BY <2>3, <3>1
  <2>5. B!Warm[n - w] = parsed[n] /\ B!Warm[m - w] = parsed[m]  BY <2>1, <2>2, <2>4
  <2>6. /\ B!Warm[n - w]["cycles"].val - B!Warm[m - w]["cycles"].val <= opt.tolerance
        /\ B!Warm[m - w]["cycles"].val - B!Warm[n - w]["cycles"].val <= opt.tolerance
    BY <1>4, <2>4 DEF B!Near
  <2> QED BY <1>6, <2>5, <2>6
<1> QED BY <1>7, <1>8

(* SourceIs: the blocks a score rests on.                                  *)
LEMMA SourceIs ==
  ASSUME BenchInv, BenchAssumption, NEW s \in B!Sources
  PROVE  \E n \in DOMAIN parsed :
           /\ s \in 1 .. Blocks
           /\ \A kind \in B!Needed : parsed[n][kind] = B!Line(PlaceIn(s, kind))
<1>1. PICK n \in DOMAIN parsed, x \in B!Needed : s = parsed[n][x].from
  BY DEF B!Sources
<1>2. PICK k \in 1 .. Blocks :
        \A kind \in B!Needed : parsed[n][kind] = B!Line(PlaceIn(k, kind))
  BY ParsedFrom
<1>3. k \in Nat \ {0} /\ x \in DOMAIN Slot  BY NeededIs, SlotsAt DEF BenchAssumption
<1>4. parsed[n][x].from = k  BY <1>2, <1>3, PlaceInIs
<1> QED BY <1>1, <1>2, <1>4

(* ComparedIs: the figures compared for a block come from one block.       *)
LEMMA ComparedIs ==
  ASSUME BenchInv, BenchAssumption, NEW n \in DOMAIN parsed
  PROVE  \E k \in 1 .. Blocks :
           /\ parsed[n]["cycles"].from = k
           /\ \A kind \in B!Needed : parsed[n][kind] = B!Line(PlaceIn(k, kind))
<1>2. PICK k \in 1 .. Blocks :
        \A kind \in B!Needed : parsed[n][kind] = B!Line(PlaceIn(k, kind))
  BY ParsedFrom
<1>3. k \in Nat \ {0} /\ "cycles" \in DOMAIN Slot /\ "cycles" \in B!Needed
  BY NeededIs, SlotsAt DEF BenchAssumption
<1>4. parsed[n]["cycles"].from = k  BY <1>2, <1>3, PlaceInIs
<1> QED BY <1>2, <1>4

(* ScoredSound: what a score rests on.                                     *)
LEMMA ScoredSound ==
  ASSUME BenchInv, BenchAssumption
  PROVE  B!ScoredIsSound /\ B!FiguresUnmixed
<1>1. B!FiguresUnmixed
  <2> SUFFICES ASSUME NEW n \in DOMAIN parsed, NEW i \in B!Needed, NEW j \in B!Needed
               PROVE  parsed[n][i].from = parsed[n][j].from
    BY DEF B!FiguresUnmixed
  <2>1. PICK k \in 1 .. Blocks :
          \A kind \in B!Needed : parsed[n][kind] = B!Line(PlaceIn(k, kind))
    BY ParsedFrom
  <2>2. k \in Nat \ {0} /\ i \in DOMAIN Slot /\ j \in DOMAIN Slot
    BY NeededIs, SlotsAt DEF BenchAssumption
  <2> QED BY <2>1, <2>2, PlaceInIs
<1> DEFINE bad == hit \cap B!Sources
           compared == {parsed[n]["cycles"].from : n \in opt.warmup + 1 .. Len(parsed)}
<1>2. SUFFICES ASSUME verdict = "ok", ~B!ErrorLost
               PROVE  /\ fault \in {"flags", "check", "crc", "seed"} => bad = {}
                      /\ opt.mode = "score" =>
                           /\ fault \in {"host", "stuck", "ipc", "skew"} => bad = {}
                           /\ opt.allowShort \/ \A k \in B!Sources : B!Value(k, "cycles") >= MinCycles
                           /\ fault = "varies" => bad = {} \/ Len(parsed) = 1
                           /\ fault = "drift" => compared \subseteq hit \/ compared \cap hit = {}
                           /\ 1 \in compared => B!Cardinality(compared) = 1
  BY <1>1 DEF B!ScoredIsSound, B!Accepted
<1>3. BenchType /\ B!Lines \subseteq Nat  BY LinesInside DEF BenchInv
<1>4. PICK z \in Nat, w \in Nat : z = Len(parsed) /\ DOMAIN parsed = 1 .. z /\ w = opt.warmup
  BY <1>3 DEF BenchType
<1>5. ASSUME NEW s \in bad
      PROVE  /\ fault \notin {"flags", "check", "seed", "crc"}
             /\ opt.mode = "score" =>
                  /\ fault \notin {"host", "stuck", "ipc", "skew"}
                  /\ fault = "varies" => Len(parsed) = 1
  <2>1. PICK n \in DOMAIN parsed :
          /\ s \in 1 .. Blocks
          /\ \A kind \in B!Needed : parsed[n][kind] = B!Line(PlaceIn(s, kind))
    BY SourceIs
  <2>2. ASSUME opt.mode = "score", fault = "varies", Len(parsed) # 1 PROVE FALSE
    <3>1. PICK m \in DOMAIN parsed : m # n
      <4>1. n \in 1 .. z /\ z # 1  BY <1>4, <2>2
      <4>2. 1 \in 1 .. z /\ 2 \in 1 .. z  BY <4>1, <1>4
      <4> QED BY <4>2, <1>4
    <3>2. PICK l \in 1 .. Blocks :
            \A kind \in B!Needed : parsed[m][kind] = B!Line(PlaceIn(l, kind))
      BY ParsedFrom
    <3>3. B!Value(s, "instret") = B!Value(l, "instret")
      BY <1>2, <2>1, <2>2, <3>1, <3>2, ComparedNear
    <3>4. l # s
      <4>1. "cycles" \in B!Needed  BY NeededIs
      <4>2. n \in Nat /\ m \in Nat /\ s \in Nat /\ l \in Nat  BY <1>4, <2>1
      <4>3. CASE n < m
        <5>1. s < l  BY <2>1, <3>2, <4>1, <4>3, ParsedRising
        <5> QED BY <5>1, <4>2
      <4>4. CASE m < n
        <5>1. l < s  BY <2>1, <3>2, <4>1, <4>4, ParsedRising
        <5> QED BY <5>1, <4>2
      <4> QED BY <3>1, <4>2, <4>3, <4>4
    <3>5. B!Value(s, "instret") = MinCycles \div 4 + s  BY <2>2 DEF B!Value, B!Instret
    <3>6. B!Value(l, "instret") \in {MinCycles \div 4 + l, MinCycles \div 4}
      BY <2>2 DEF B!Value, B!Instret
    <3>7. MinCycles \div 4 \in Nat  BY <1>3, CyclesMove
    <3> QED BY <3>3, <3>4, <3>5, <3>6, <3>7, <2>1, <3>2
  <2>3. s \in hit  OBVIOUS
  <2>4. /\ fault \notin {"flags", "check", "seed"}
        /\ fault = "crc" => B!ErrorLost
        /\ opt.mode = "score" => fault \notin {"host", "stuck", "ipc", "skew"}
    BY <2>1, <2>3, BadBlock
  <2> QED BY <1>2, <2>2, <2>4
<1>6. ASSUME opt.mode = "score", NEW s \in compared, NEW t \in compared, s # t
      PROVE  /\ s \in 1 .. Blocks /\ t \in 1 .. Blocks
             /\ B!Value(s, "cycles") - B!Value(t, "cycles") <= opt.tolerance
             /\ B!Value(t, "cycles") - B!Value(s, "cycles") <= opt.tolerance
  <2>1. PICK n \in w + 1 .. z : s = parsed[n]["cycles"].from  BY <1>4
  <2>2. PICK m \in w + 1 .. z : t = parsed[m]["cycles"].from  BY <1>4
  <2>3. n \in DOMAIN parsed /\ m \in DOMAIN parsed /\ n > w /\ m > w  BY <1>4, <2>1, <2>2
  <2>4. n # m  BY <1>6, <2>1, <2>2
  <2>5. PICK k \in 1 .. Blocks :
           /\ parsed[n]["cycles"].from = k
           /\ \A kind \in B!Needed : parsed[n][kind] = B!Line(PlaceIn(k, kind))
    BY <2>3, ComparedIs
  <2>6. PICK l \in 1 .. Blocks :
           /\ parsed[m]["cycles"].from = l
           /\ \A kind \in B!Needed : parsed[m][kind] = B!Line(PlaceIn(l, kind))
    BY <2>3, ComparedIs
  <2>7. /\ B!Value(k, "cycles") - B!Value(l, "cycles") <= opt.tolerance
        /\ B!Value(l, "cycles") - B!Value(k, "cycles") <= opt.tolerance
    BY ZenonT(60), <1>2, <1>4, <1>6, <2>3, <2>4, <2>5, <2>6, ComparedNear
  <2> QED BY <2>1, <2>2, <2>5, <2>6, <2>7
<1>7. PICK x \in -1 .. 5 :
        /\ fault = "drift" => x = opt.tolerance + 1
        /\ fault \notin {"short", "jitter", "drift"} => x = 0
        /\ \A k \in Nat : B!Cycles(k) = B!Base(k) + x
  BY <1>3, CyclesMove
<1>8. \A k \in 1 .. Blocks :
        B!Value(k, "cycles") = (IF k = 1 THEN MinCycles + 10 ELSE MinCycles)
                               + (IF k \in hit THEN x ELSE 0)
  <2> SUFFICES ASSUME NEW k \in 1 .. Blocks
               PROVE  B!Value(k, "cycles") = (IF k = 1 THEN MinCycles + 10 ELSE MinCycles)
                               + (IF k \in hit THEN x ELSE 0)
    OBVIOUS
  <2>1. k \in Nat  OBVIOUS
  <2>2. B!Base(k) = (IF k = 1 THEN MinCycles + 10 ELSE MinCycles) /\ MinCycles \in Nat
    BY <2>1, <1>3, CyclesMove
  <2>3. k \in hit => B!Value(k, "cycles") = B!Base(k) + x  BY <1>7, <2>1 DEF B!Value
  <2>4. k \notin hit => B!Value(k, "cycles") = B!Base(k)  BY DEF B!Value
  <2> QED BY <2>2, <2>3, <2>4
<1>9. MinCycles \in Nat /\ opt.tolerance \in 0 .. 4  BY <1>3, CyclesMove
<1> HIDE DEF compared, bad
<1>10. ASSUME opt.mode = "score", fault = "drift"
       PROVE  compared \subseteq hit \/ compared \cap hit = {}
  <2> SUFFICES ASSUME NEW s \in compared, s \notin hit, NEW t \in compared, t \in hit
               PROVE  FALSE
    OBVIOUS
  <2>1. s # t  OBVIOUS
  <2>2. /\ s \in 1 .. Blocks /\ t \in 1 .. Blocks
        /\ B!Value(s, "cycles") - B!Value(t, "cycles") <= opt.tolerance
        /\ B!Value(t, "cycles") - B!Value(s, "cycles") <= opt.tolerance
    BY <2>1, <1>6, <1>10
  <2>3. /\ B!Value(s, "cycles") = (IF s = 1 THEN MinCycles + 10 ELSE MinCycles) + 0
        /\ B!Value(t, "cycles") = (IF t = 1 THEN MinCycles + 10 ELSE MinCycles) + x
    BY <2>2, <1>8
  <2> QED BY <2>1, <2>2, <2>3, <1>7, <1>9, <1>10
<1>11. ASSUME opt.mode = "score", 1 \in compared PROVE B!Cardinality(compared) = 1
  <2>1. ASSUME NEW t \in compared, t # 1 PROVE FALSE
    <3>1. /\ 1 \in 1 .. Blocks /\ t \in 1 .. Blocks
          /\ B!Value(1, "cycles") - B!Value(t, "cycles") <= opt.tolerance
          /\ B!Value(t, "cycles") - B!Value(1, "cycles") <= opt.tolerance
      BY <1>6, <1>11, <2>1
    <3>2. /\ B!Value(1, "cycles") = MinCycles + 10 + (IF 1 \in hit THEN x ELSE 0)
          /\ B!Value(t, "cycles") = MinCycles + (IF t \in hit THEN x ELSE 0)
      BY <3>1, <1>8, <2>1
    <3> QED BY <3>1, <3>2, <1>7, <1>9
  <2>2. compared = {1}  BY <1>11, <2>1
  <2> QED BY <2>2, FS_Singleton, SameCountB
<1>12. /\ fault \in {"flags", "check", "crc", "seed"} => bad = {}
       /\ opt.mode = "score" => /\ fault \in {"host", "stuck", "ipc", "skew"} => bad = {}
                                /\ fault = "varies" => bad = {} \/ Len(parsed) = 1
  <2>1. bad = {} \/ \E s \in bad : TRUE  OBVIOUS
  <2> QED BY <2>1, <1>5
<1>13. ASSUME opt.mode = "score", ~opt.allowShort, NEW k \in B!Sources
       PROVE  B!Value(k, "cycles") >= MinCycles
  BY <1>13, SourceIs, LongEnough
<1> QED BY <1>10, <1>11, <1>12, <1>13

(* WholeWhenClean: with no line lost, a block split off is a printed block *)
(* from its begin to its end.                                              *)
LEMMA WholeWhenClean ==
  ASSUME BenchInv, BenchAssumption, lost = {}, NEW n \in DOMAIN blocks
  PROVE  \E k \in 1 .. Blocks :
           /\ window[1] <= 13 * (k - 1) + 1 /\ 13 * k < at
           /\ Cut(blocks[n], 13 * (k - 1) + 1, 13 * k, lost)
           /\ 13 * (k - 1) + 1 \in B!Lines /\ 13 * k \in B!Lines
<1>1. PICK b \in B!Lines, e \in B!Lines :
        Cut(blocks[n], b, e, lost) /\ B!KindAt(e) = "end" /\ e < at
  BY DEF BenchInv, Separate
<1>2. b \in Nat \ {0} /\ e \in Nat \ {0} /\ e <= Blocks * 13 /\ Blocks \in Nat
  BY LinesInside
<1>3. b < e /\ window[1] <= b /\ B!KindAt(b) = "begin"  BY <1>1 DEF Cut
<1>4. PICK k \in Nat \ {0} : b = 13 * (k - 1) + 1
  <2>1. B!From(b) \in Nat \ {0} /\ b = 13 * (B!From(b) - 1) + Slot[B!KindAt(b)]
    BY <1>2, PosOf
  <2> QED BY <2>1, <1>3, SlotsAt
<1>5. PICK l \in Nat \ {0} : e = 13 * (l - 1) + 13
  <2>1. B!From(e) \in Nat \ {0} /\ e = 13 * (B!From(e) - 1) + Slot[B!KindAt(e)]
    BY <1>2, PosOf
  <2> QED BY <2>1, <1>1, SlotsAt
<1>6. l = k
  <2>1. k <= l  BY <1>2, <1>3, <1>4, <1>5
  <2>2. CASE k < l
    <3>1. b < 13 * k /\ 13 * (l - 1) + 1 < e  BY <1>4, <1>5
    <3>2. 13 * k \in lost  BY <1>1, <1>2, <2>2, <3>1, SeamLost
    <3> QED BY <3>2
  <2> QED BY <2>1, <2>2
<1>7. e = 13 * k /\ k \in 1 .. Blocks  BY <1>2, <1>5, <1>6
<1> QED BY <1>1, <1>3, <1>4, <1>7

(* CleanFigures: its lines are all there, and no others.                   *)
LEMMA CleanFigures ==
  ASSUME NEW block \in Seq(CaptureLines), NEW k \in Nat \ {0},
         Cut(block, 13 * (k - 1) + 1, 13 * k, lost), lost = {}
  PROVE  /\ \A i \in DOMAIN block : block[i].kind \in DOMAIN Slot /\ block[i] = B!Line(PlaceIn(k, block[i].kind))
                                    /\ B!Prints(PlaceIn(k, block[i].kind))
         /\ \A kind \in DOMAIN Slot \ {"begin", "end", "host", "error"} :
              /\ B!Has(block, kind) /\ B!First(block, kind) = B!Line(PlaceIn(k, kind))
              /\ B!First(block, kind).val = B!Value(k, kind)
<1> DEFINE b == 13 * (k - 1) + 1
           e == 13 * k
<1>1. b \in Nat /\ e \in Nat  OBVIOUS
<1>2. ASSUME NEW i \in DOMAIN block
      PROVE  block[i].kind \in DOMAIN Slot /\ block[i] = B!Line(PlaceIn(k, block[i].kind))
             /\ B!Prints(PlaceIn(k, block[i].kind))
  <2>1. Cut(block, b, e, lost)  OBVIOUS
  <2>2. PICK j \in Nat \ {0} :
           /\ block[i] = B!Line(PlaceIn(j, block[i].kind))
           /\ block[i].kind \in DOMAIN Slot
           /\ b < PlaceIn(j, block[i].kind) /\ PlaceIn(j, block[i].kind) < e
           /\ B!Prints(PlaceIn(j, block[i].kind))
    <3> HIDE DEF b, e
    <3> QED BY <1>1, <2>1, LineIn
  <2>3. PICK kind \in DOMAIN Slot : kind = block[i].kind  BY <2>2
  <2>4. PlaceIn(j, kind) = 13 * (j - 1) + Slot[kind] /\ Slot[kind] \in 1 .. 13
    BY PlaceInIs
  <2>5. PICK m \in 1 .. 13 : m = Slot[kind]  BY <2>4
  <2>6. 13 * (k - 1) + 1 < 13 * (j - 1) + m /\ 13 * (j - 1) + m < 13 * k
    BY <2>2, <2>3, <2>4, <2>5
  <2>7. j = k  BY <2>6
  <2> QED BY <2>2, <2>7
<1>3. ASSUME NEW kind \in DOMAIN Slot \ {"begin", "end", "host", "error"}
      PROVE  /\ B!Has(block, kind) /\ B!First(block, kind) = B!Line(PlaceIn(k, kind))
             /\ B!First(block, kind).val = B!Value(k, kind)
  <2>1. PICK p \in Nat \ {0} : p = PlaceIn(k, kind)  BY PlaceInIs
  <2>2. /\ p = 13 * (k - 1) + Slot[kind] /\ B!KindAt(p) = kind /\ B!Line(p).kind = kind
        /\ B!Line(p).val = B!Value(k, kind)
    <3>1. kind \in DOMAIN Slot  OBVIOUS
    <3> QED BY <2>1, <3>1, PlaceInIs
  <2>3. Slot[kind] \in 2 .. 12  BY SlotsAt
  <2>4. p \in b + 1 .. e - 1
    <3>1. PICK m \in 2 .. 12 : m = Slot[kind]  BY <2>3
    <3>2. p = 13 * (k - 1) + m  BY <2>2, <3>1
    <3> QED BY <3>2
  <2>5. B!Prints(p)  BY <2>2, NeverSilent
  <2>6. PICK i \in DOMAIN block : block[i] = B!Line(p)
    <3>1. p \notin lost  OBVIOUS
    <3> HIDE DEF b, e
    <3>2. Cut(block, b, e, lost)  BY DEF b, e
    <3> QED BY <2>4, <2>5, <3>1, <3>2 DEF Cut
  <2>7. B!Has(block, kind)  BY <2>2, <2>6 DEF B!Has
  <2>8. PICK j \in DOMAIN block : B!First(block, kind) = block[j] /\ block[j].kind = kind
    BY <2>7, FirstIs
  <2>9. block[j] = B!Line(p)  BY <1>2, <2>1, <2>8
  <2> QED BY <2>1, <2>2, <2>7, <2>8, <2>9
<1> QED BY <1>2, <1>3

(* HealthyPasses: nothing is wrong with the blocks of a healthy board.     *)
LEMMA HealthyPasses ==
  ASSUME BenchInv, BenchAssumption, Healthy, NEW n \in DOMAIN blocks
  PROVE  /\ Passes(blocks[n])
         /\ \E k \in 1 .. Blocks :
              /\ window[1] <= 13 * (k - 1) + 1 /\ 13 * k < at
              /\ \A kind \in B!Needed :
                   B!First(blocks[n], kind) = B!Line(PlaceIn(k, kind))
<1>1. fault \in B!Harmless /\ lost = {} /\ opt.mode = "score"  BY DEF Healthy
<1>2. PICK k \in 1 .. Blocks :
           /\ window[1] <= 13 * (k - 1) + 1 /\ 13 * k < at
           /\ Cut(blocks[n], 13 * (k - 1) + 1, 13 * k, lost)
  BY <1>1, WholeWhenClean
<1>3. PICK block \in Seq(CaptureLines) : block = blocks[n]
  <2> DEFINE T == Seq(CaptureLines)
  <2>1. blocks \in Seq(T)  BY DEF BenchInv, BenchType
  <2> HIDE DEF T
  <2>2. blocks[n] \in T  BY <2>1
  <2> QED BY <2>2 DEF T
<1>4. k \in Nat \ {0}  BY DEF BenchAssumption
<1>5. /\ \A i \in DOMAIN block : /\ block[i].kind \in DOMAIN Slot
                                 /\ B!Prints(PlaceIn(k, block[i].kind))
      /\ \A kind \in DOMAIN Slot \ {"begin", "end", "host", "error"} :
              /\ B!Has(block, kind) /\ B!First(block, kind) = B!Line(PlaceIn(k, kind))
              /\ B!First(block, kind).val = B!Value(k, kind)
  BY <1>1, <1>2, <1>3, <1>4, CleanFigures
<1>6. /\ B!Needed \subseteq DOMAIN Slot \ {"begin", "end", "host", "error"}
      /\ "hpm1" \in DOMAIN Slot \ {"begin", "end", "host", "error"}
      /\ "hpm2" \in DOMAIN Slot \ {"begin", "end", "host", "error"}
      /\ \A kind \in {"flags", "cycles", "window", "instret", "check", "seed", "crc"} :
           kind \in B!Needed
  BY NeededIs, SlotsAt
<1>7. B!Whole(block)
  <2>1. \A kind \in B!Needed : B!Has(block, kind)  BY <1>5, <1>6
  <2>2. B!Has(block, "hpm1") /\ B!Has(block, "hpm2")  BY <1>5, <1>6
  <2> QED BY <2>1, <2>2 DEF B!Whole
<1>8. ASSUME NEW i \in DOMAIN block PROVE block[i].kind \notin {"host", "error"}
  <2>1. block[i].kind \in DOMAIN Slot /\ B!Prints(PlaceIn(k, block[i].kind))  BY <1>5
  <2>2. B!KindAt(PlaceIn(k, block[i].kind)) = block[i].kind  BY <1>4, <2>1, PlaceInIs
  <2> QED BY <1>1, <2>1, <2>2 DEF B!Prints, B!Harmless
<1>9. ~B!Has(block, "host") /\ ~B!Has(block, "error")  BY <1>8 DEF B!Has
<1>10. PICK y \in 0 .. opt.tolerance :
       /\ B!Value(k, "cycles") = B!Base(k) + y
       /\ B!Value(k, "window") = B!Base(k) + y + Slack
       /\ B!Value(k, "instret") = Steady
       /\ B!Value(k, "flags") = "right" /\ B!Value(k, "check") = "right"
       /\ B!Value(k, "seed") = "right"
       /\ B!Base(k) \in {MinCycles, MinCycles + 10}
       /\ MinCycles \in Nat /\ MinCycles >= 4 /\ opt.tolerance \in 0 .. 4
       /\ Slack \in 0 .. MaxSkew /\ MaxSkew \in Nat
       /\ Steady \in Nat /\ Steady > 0 /\ Steady <= MinCycles + Slack
  BY <1>1, HealthyFigures
<1>11. \A kind \in B!Needed : B!First(block, kind).val = B!Value(k, kind)  BY <1>5, <1>6
<1>12. B!Valid(block)
  BY <1>6, <1>9, <1>10, <1>11 DEF B!Valid
<1>13. B!RightSource(block)  BY <1>1, <1>9 DEF B!RightSource
<1>14. B!Derives(B!First(block, "cycles").val, B!First(block, "window").val,
                 B!First(block, "instret").val)
  <2>1. PICK c \in Int, d \in 0 .. MaxSkew :
           /\ B!First(block, "cycles").val = c /\ B!First(block, "window").val = c + d
           /\ B!First(block, "instret").val = Steady
           /\ c >= MinCycles /\ d = Slack
    <3>1. /\ B!First(block, "cycles").val = B!Base(k) + y
          /\ B!First(block, "window").val = B!Base(k) + y + Slack
          /\ B!First(block, "instret").val = Steady
      BY <1>6, <1>10, <1>11
    <3>2. B!Base(k) + y \in Int /\ B!Base(k) + y >= MinCycles  BY <1>10
    <3> QED BY <3>1, <3>2, <1>10
  <2>2. /\ c > 0 /\ Steady > 0 /\ c + d >= c /\ (c + d) - c <= MaxSkew /\ Steady <= c + d
    BY <1>10, <2>1
  <2> QED BY <2>1, <2>2 DEF B!Derives
<1>15. Passes(block)  BY <1>7, <1>12, <1>13, <1>14 DEF Passes
<1> QED BY <1>2, <1>3, <1>5, <1>6, <1>15

(* HealthyCompared: and they agree.                                        *)
LEMMA HealthyCompared ==
  ASSUME BenchInv, BenchAssumption, Healthy, Len(parsed) = Len(blocks),
         at = window[2] + 1, Len(blocks) = Cardinality({k \in 1 .. Blocks : B!InWindow(k)})
  PROVE  B!Reproducible
<1>1. /\ fault \in B!Harmless /\ lost = {} /\ opt.mode = "score"
      /\ Len(parsed) >= 2 => Len(parsed) - opt.warmup >= 2 /\ (opt.warmup = 1 \/ ~B!InWindow(1))
  BY DEF Healthy
<1>2. BenchType  BY DEF BenchInv
<1>3. PICK z \in Nat, w \in Nat : z = Len(parsed) /\ w = opt.warmup /\ DOMAIN parsed = 1 .. z
  <2>1. opt.warmup \in Nat  BY <1>2 DEF BenchType
  <2>2. Len(parsed) \in Nat /\ DOMAIN parsed = 1 .. Len(parsed)  BY <1>2 DEF BenchType
  <2> QED BY <2>1, <2>2
<1>4. SUFFICES ASSUME z >= 2
               PROVE  /\ B!Same("instret") /\ B!Same("crc") /\ Len(B!Warm) >= 2
                      /\ B!Near("cycles") /\ B!Near("window")
  BY <1>3 DEF B!Reproducible
<1>5. z - w >= 2 /\ (w = 1 \/ ~B!InWindow(1))  BY <1>1, <1>3, <1>4
<1>6. /\ B!Needed \subseteq DOMAIN Slot
      /\ "instret" \in B!Needed /\ "crc" \in B!Needed /\ "cycles" \in B!Needed
      /\ "window" \in B!Needed
  BY NeededIs, SlotsAt
<1>7. ASSUME NEW n \in 1 .. z
      PROVE  \E k \in 1 .. Blocks :
               /\ \A kind \in B!Needed : parsed[n][kind] = B!Line(PlaceIn(k, kind))
               /\ \A kind \in B!Needed : parsed[n][kind].val = B!Value(k, kind)
               /\ window[1] <= 13 * (k - 1) + 1 /\ 13 * k < at
  <2>1. n \in DOMAIN parsed /\ n \in DOMAIN blocks  BY <1>3, <1>7, ParsedFrom
  <2>2. PICK k \in 1 .. Blocks :
              /\ window[1] <= 13 * (k - 1) + 1 /\ 13 * k < at
              /\ \A kind \in B!Needed :
                   B!First(blocks[n], kind) = B!Line(PlaceIn(k, kind))
    BY <2>1, HealthyPasses
  <2>3. \A kind \in B!Needed : parsed[n][kind] = B!First(blocks[n], kind)
    BY <2>1 DEF BenchInv, InTurn
  <2>4. k \in Nat \ {0}  BY DEF BenchAssumption
  <2>5. \A kind \in B!Needed : B!Line(PlaceIn(k, kind)).val = B!Value(k, kind)
    BY <1>6, <2>4, PlaceInIs
  <2> QED BY <2>2, <2>3, <2>5
<1>8. ASSUME NEW n \in 1 .. z
      PROVE  parsed[n]["instret"].val = Steady /\ parsed[n]["crc"].val = "right"
  BY <1>1, <1>6, <1>7, HealthyFigures
<1>9. ASSUME NEW n \in w + 1 .. z
      PROVE  /\ parsed[n]["cycles"].val \in MinCycles .. MinCycles + opt.tolerance
             /\ parsed[n]["window"].val \in MinCycles + Slack .. MinCycles + Slack + opt.tolerance
  <2>1. n \in 1 .. z /\ n \in DOMAIN parsed  BY <1>3
  <2>2. PICK k \in 1 .. Blocks :
               /\ \A kind \in B!Needed : parsed[n][kind] = B!Line(PlaceIn(k, kind))
               /\ \A kind \in B!Needed : parsed[n][kind].val = B!Value(k, kind)
               /\ window[1] <= 13 * (k - 1) + 1 /\ 13 * k < at
    BY <1>7, <2>1
  <2>3. k # 1
    <3> SUFFICES ASSUME k = 1 PROVE FALSE  OBVIOUS
    <3>1. CASE w = 1
      <4>1. 1 \in 1 .. z /\ 1 \in DOMAIN parsed /\ 1 < n  BY <1>3, <1>4, <3>1
      <4>2. PICK l \in 1 .. Blocks :
              \A kind \in B!Needed : parsed[1][kind] = B!Line(PlaceIn(l, kind))
        BY <1>7, <4>1
      <4>3. l < k  BY SMTT(60), <1>6, <2>1, <2>2, <4>1, <4>2, ParsedRising
      <4> QED BY <4>3
    <3>2. CASE ~B!InWindow(1)
      <4>1. window[2] \in Nat  BY <1>2, LinesInside DEF BenchType
      <4>2. window[1] <= (1 - 1) * 13 + 1 /\ 1 * 13 <= window[2]
        BY <2>2, <4>1
      <4> QED BY <3>2, <4>2, KindsAt DEF B!InWindow
    <3> QED BY <1>5, <3>1, <3>2
  <2>4. /\ B!Value(k, "cycles") \in MinCycles .. MinCycles + opt.tolerance
        /\ B!Value(k, "window") \in MinCycles + Slack .. MinCycles + Slack + opt.tolerance
    <3>1. PICK y \in 0 .. opt.tolerance :
             /\ B!Value(k, "cycles") = MinCycles + y
             /\ B!Value(k, "window") = MinCycles + y + Slack
             /\ MinCycles \in Nat /\ opt.tolerance \in 0 .. 4 /\ Slack \in 0 .. MaxSkew
             /\ MaxSkew \in Nat
      BY <1>1, <2>3, HealthyFigures
    <3> QED BY <3>1
  <2> QED BY <1>6, <2>2, <2>4
<1>10. /\ B!Same("instret") /\ B!Same("crc")
  BY <1>3, <1>8 DEF B!Same
<1>11. /\ w <= z /\ Len(B!Warm) = z - w /\ DOMAIN B!Warm = 1 .. z - w
       /\ \A i \in DOMAIN B!Warm : B!Warm[i] = parsed[w + i]
  <2>1. w <= z  BY <1>5
  <2>2. /\ opt.warmup <= Len(parsed) => Len(B!Warm) = Len(parsed) - opt.warmup
        /\ DOMAIN B!Warm = 1 .. Len(B!Warm)
        /\ \A i \in DOMAIN B!Warm : B!Warm[i] = parsed[opt.warmup + i]
    BY <1>2, WarmIs
  <2> QED BY <2>1, <2>2, <1>3
<1>12. ASSUME NEW i \in DOMAIN B!Warm
       PROVE  /\ B!Warm[i]["cycles"].val \in MinCycles .. MinCycles + opt.tolerance
              /\ B!Warm[i]["window"].val \in MinCycles + Slack .. MinCycles + Slack + opt.tolerance
  <2>1. w + i \in w + 1 .. z
    <3>1. i \in 1 .. z - w  BY <1>11
    <3> QED BY <3>1
  <2> QED BY <2>1, <1>9, <1>11
<1>13. ASSUME NEW low \in Int, NEW c \in low .. low + opt.tolerance,
              NEW d \in low .. low + opt.tolerance
       PROVE  c - d <= opt.tolerance
  <2>1. opt.tolerance \in Nat  BY <1>2 DEF BenchType
  <2> QED BY <2>1
<1>14. B!Near("cycles") /\ B!Near("window")
  <2>1. MinCycles \in Int /\ MinCycles + Slack \in Int  BY DEF BenchAssumption, Slack
  <2>2. ASSUME NEW i \in DOMAIN B!Warm, NEW j \in DOMAIN B!Warm
        PROVE  /\ B!Warm[i]["cycles"].val - B!Warm[j]["cycles"].val <= opt.tolerance
               /\ B!Warm[i]["window"].val - B!Warm[j]["window"].val <= opt.tolerance
    BY <1>12, <1>13, <2>1
  <2> QED BY <2>2 DEF B!Near
<1>15. Len(B!Warm) >= 2  BY <1>5, <1>11
<1> QED BY <1>10, <1>14, <1>15

(* CutsKept: checking leaves the blocks and where they were cut.           *)
LEMMA CutsKept ==
  ASSUME BenchInv, B!Given, B!Split
  PROVE  Within' /\ Separate' /\ Ordered' /\ Complete' /\ Spanned'
<1>1. /\ lost' = lost /\ at' = at /\ inside' = inside /\ cur' = cur /\ blocks' = blocks
      /\ fault' = fault /\ hit' = hit /\ window' = window /\ opt' = opt
  BY DEF B!Split, B!Given
<1>2. Within /\ Separate /\ Ordered /\ Complete /\ Spanned /\ BenchType  BY DEF BenchInv
<1>3. B!Lines' = B!Lines  BY DEF B!Lines, B!Kinds
<1>4. ASSUME NEW block, NEW b, NEW e, Cut(block, b, e, lost)
      PROVE  \A x, y : x = block /\ y = e => (Cut(x, b, y, lost))'
  <2>1. PICK gone : gone = lost  OBVIOUS
  <2>2. Cut(block, b, e, gone)  BY <1>4, <2>1
  <2>3. (Cut(block, b, e, gone))'  BY <2>2, CutGiven
  <2> QED BY <2>1, <2>3, <1>1 DEF Cut, Rising
<1>5. Within'
  <2>1. ASSUME inside' PROVE \E b \in B!Lines : (Cut(cur, b, at, lost))'
    <3>1. PICK b \in B!Lines : Cut(cur, b, at, lost)  BY <1>1, <1>2, <2>1 DEF Within
    <3>2. PICK block, e : block = cur /\ e = at  OBVIOUS
    <3>3. Cut(block, b, e, lost)  BY <3>1, <3>2
    <3>4. (Cut(block, b, e, lost))'  BY <3>3, <1>4
    <3>5. (Cut(cur, b, at, lost))'  BY <3>2, <3>4, <1>1 DEF Cut, Rising
    <3> QED BY <3>5
  <2>2. ASSUME ~inside' PROVE cur' = <<>>  BY <1>1, <1>2, <2>2 DEF Within
  <2> QED BY <2>1, <2>2, <1>3 DEF Within
<1>6. Separate'
  <2>1. ASSUME NEW n \in DOMAIN blocks'
        PROVE  \E b, e \in B!Lines : (Cut(blocks[n], b, e, lost))' /\ (B!KindAt(e))' = "end" /\ e < at'
    <3>1. n \in DOMAIN blocks  BY <1>1
    <3>2. PICK b \in B!Lines, e \in B!Lines :
            Cut(blocks[n], b, e, lost) /\ B!KindAt(e) = "end" /\ e < at
      BY <1>2, <3>1 DEF Separate
    <3>3. PICK block : block = blocks[n]  OBVIOUS
    <3>4. Cut(block, b, e, lost)  BY <3>2, <3>3
    <3>5. (Cut(block, b, e, lost))'  BY <3>4, <1>4
    <3>6. (Cut(blocks[n], b, e, lost))'  BY <3>3, <3>5, <1>1 DEF Cut, Rising
    <3>7. (B!KindAt(e))' = "end"  BY <3>2, LinesGiven
    <3> QED BY <3>2, <3>6, <3>7, <1>1
  <2> QED BY <2>1, <1>3 DEF Separate
<1>7. Ordered'  BY <1>1, <1>2 DEF Ordered, Pos, Slot
<1>8. Complete'  BY <1>1, <1>2 DEF Complete, Arrived, Cardinality
<1>9. Spanned'  BY <1>1, <1>2 DEF Spanned, Cardinality, IsFiniteSet
<1> QED BY <1>5, <1>6, <1>7, <1>8, <1>9

(* PassesKept: nor what is found in them.                                  *)
LEMMA PassesKept ==
  ASSUME B!Given, blocks' = blocks, NEW n
  PROVE  /\ Passes(blocks[n]) => (Passes(blocks[n]))'
         /\ \A kind : (B!First(blocks[n], kind))' = B!First(blocks[n], kind)
<1>1. PICK block : block = blocks[n]  OBVIOUS
<1>2. \A kind : /\ (B!First(blocks[n], kind))' = B!First(block, kind)
                /\ (B!Has(blocks[n], kind))' <=> B!Has(block, kind)
  BY <1>1 DEF B!First, B!Min, B!Has
<1>3. opt' = opt  BY DEF B!Given
<1>4. (B!Whole(blocks[n]))' <=> B!Whole(block)  BY <1>2 DEF B!Whole, B!Needed
<1>5. (B!Valid(blocks[n]))' <=> B!Valid(block)  BY <1>2 DEF B!Valid
<1>6. (B!RightSource(blocks[n]))' <=> B!RightSource(block)  BY <1>2, <1>3 DEF B!RightSource
<1>7. (B!Derives(B!First(blocks[n], "cycles").val, B!First(blocks[n], "window").val,
                 B!First(blocks[n], "instret").val))' <=>
      B!Derives(B!First(block, "cycles").val, B!First(block, "window").val,
                B!First(block, "instret").val)
  BY <1>2, <1>3 DEF B!Derives
<1>8. Passes(block) => (Passes(blocks[n]))'
  BY <1>3, <1>4, <1>5, <1>6, <1>7 DEF Passes
<1> QED BY <1>1, <1>2, <1>8

(* AllArrived: when the capture ends, the blocks are those of the window.  *)
LEMMA AllArrived ==
  ASSUME BenchInv, BenchAssumption, at > window[2]
  PROVE  /\ at = window[2] + 1 /\ window[2] \in Nat
         /\ lost = {} => Len(blocks) = Cardinality({k \in 1 .. Blocks : B!InWindow(k)})
<1>1. at = window[2] + 1 /\ window[2] \in Nat
  <2>1. at \in Nat /\ window[2] \in Nat /\ at <= window[2] + 1
    BY LinesInside DEF BenchInv, BenchType, Spanned
  <2> QED BY <2>1
<1>2. \A k \in 1 .. Blocks : B!InWindow(k) <=> (window[1] <= (k - 1) * 13 + 1 /\ k * 13 < at)
  <2>1. \A k \in 1 .. Blocks : k * 13 <= window[2] <=> k * 13 < at  BY <1>1
  <2> QED BY <2>1, KindsAt DEF B!InWindow
<1>3. Arrived = {k \in 1 .. Blocks : B!InWindow(k)}  BY <1>2 DEF Arrived
<1> QED BY <1>1, <1>3 DEF BenchInv, Complete

(* HealthyGiven: whether there is cause to refuse does not change.         *)
LEMMA HealthyGiven ==
  ASSUME B!Given, lost' = lost PROVE Healthy' <=> Healthy
<1>1. fault' = fault /\ window' = window /\ opt' = opt  BY DEF B!Given
<1>2. \A k : (B!InWindow(k))' <=> B!InWindow(k)  BY <1>1 DEF B!InWindow, B!Kinds
<1>3. {k \in 1 .. Blocks : (B!InWindow(k))'} = {k \in 1 .. Blocks : B!InWindow(k)}  BY <1>2
<1> QED BY <1>1, <1>2, <1>3 DEF Healthy, Cardinality

(* CheckStep: parse_block() and check_reproducible().                      *)
LEMMA CheckStep ==
  ASSUME BenchInv, BenchAssumption, B!Refuse \/ B!ParseBlock \/ B!Compare
  PROVE  BenchInv'
<1>1. B!Given /\ B!Split /\ B!Checking  BY DEF B!Refuse, B!ParseBlock, B!Compare
<1>2. /\ lost' = lost /\ at' = at /\ inside' = inside /\ cur' = cur /\ blocks' = blocks
      /\ fault' = fault /\ hit' = hit /\ window' = window /\ opt' = opt
      /\ verdict = "none" /\ at > window[2]
  BY <1>1 DEF B!Split, B!Given, B!Checking
<1>3. Within' /\ Separate' /\ Ordered' /\ Complete' /\ Spanned'  BY <1>1, CutsKept
<1>4. BenchType /\ InTurn  BY DEF BenchInv
<1>5. /\ B!Faults' = B!Faults /\ B!Lines' = B!Lines /\ CaptureLines' = CaptureLines
      /\ B!Needed' = B!Needed
  BY DEF B!Faults, B!Harmless, B!Lines, B!Kinds, CaptureLines, Slot, Figures, B!Needed
<1>6. /\ at = window[2] + 1 /\ window[2] \in Nat
      /\ lost = {} => Len(blocks) = Cardinality({k \in 1 .. Blocks : B!InWindow(k)})
  BY <1>2, AllArrived
<1>7. Healthy' <=> Healthy  BY <1>1, <1>2, HealthyGiven
<1>8. ASSUME parsed' \in Seq([B!Needed -> CaptureLines]), verdict' \in {"none", "ok", "fail"}
      PROVE  BenchType'
  BY <1>2, <1>4, <1>5, <1>8 DEF BenchType
<1>9. parsed \in Seq([B!Needed -> CaptureLines]) /\ Len(parsed) <= Len(blocks)
      /\ Len(parsed) \in Nat /\ Len(blocks) \in Nat
  BY <1>4 DEF BenchType, InTurn
<1>10. ASSUME parsed' = parsed
       PROVE  \A n \in DOMAIN parsed' :
                /\ (Passes(blocks[n]))'
                /\ \A kind \in B!Needed : parsed'[n][kind] = (B!First(blocks[n], kind))'
  BY <1>1, <1>2, <1>4, <1>10, PassesKept DEF InTurn
<1>11. ~(at' <= window'[2])
  <2>1. at \in Nat  BY <1>6
  <2> QED BY <1>2, <1>6, <2>1
<1>12. ASSUME parsed' = parsed, verdict' = "fail", ~Healthy
       PROVE  BenchInv'
  <2>1. InTurn'
    BY <1>2, <1>5, <1>9, <1>10, <1>11, <1>12 DEF InTurn
  <2>2. BenchType'  BY <1>8, <1>9, <1>12
  <2> QED BY <2>1, <2>2, <1>3, <1>7, <1>12 DEF BenchInv
<1>13. CASE B!Refuse
  <2>1. parsed' = parsed /\ verdict' = "fail" /\ B!TooFew  BY <1>13 DEF B!Refuse, B!Fail
  <2>2. ~Healthy
    <3> SUFFICES ASSUME Healthy PROVE FALSE  OBVIOUS
    <3>1. Len(blocks) >= 1 /\ Len(blocks) >= opt.minBlocks  BY <1>6 DEF Healthy
    <3>2. opt.minBlocks \in Nat  BY <1>4 DEF BenchType
    <3> QED BY <2>1, <3>1, <3>2, <1>9 DEF B!TooFew
  <2> QED BY <2>1, <2>2, <1>12
<1>14. CASE B!ParseBlock
  <2>0. Len(parsed) < Len(blocks) /\ ~B!TooFew  BY <1>14 DEF B!ParseBlock
  <2>1. PICK z \in Nat : z = Len(parsed)  BY <1>9
  <2>2. z + 1 \in DOMAIN blocks
    <3>1. DOMAIN blocks = 1 .. Len(blocks)  BY <1>4 DEF BenchType
    <3> QED BY <2>0, <2>1, <3>1, <1>9
  <2>3. CASE Passes(blocks[z + 1])
    <3>1. /\ parsed' = Append(parsed, [kind \in B!Needed |-> B!First(blocks[z + 1], kind)])
          /\ verdict' = verdict
      BY <1>14, <2>1, <2>3 DEF B!ParseBlock, Passes, B!Go
    <3>2. PICK f : f = [kind \in B!Needed |-> B!First(blocks[z + 1], kind)]  OBVIOUS
    <3>3. f \in [B!Needed -> CaptureLines]
      <4>1. blocks[z + 1] \in Seq(CaptureLines)
        <5> DEFINE T == Seq(CaptureLines)
        <5>1. blocks \in Seq(T)  BY <1>4 DEF BenchType
        <5> HIDE DEF T
        <5>2. blocks[z + 1] \in T  BY <2>2, <5>1
        <5> QED BY <5>2 DEF T
      <4>2. ASSUME NEW kind \in B!Needed PROVE B!First(blocks[z + 1], kind) \in CaptureLines
        <5>1. B!Has(blocks[z + 1], kind)  BY <2>3 DEF Passes, B!Whole
        <5>2. PICK i \in DOMAIN blocks[z + 1] : B!First(blocks[z + 1], kind) = blocks[z + 1][i]
          BY <4>1, <5>1, FirstPos
        <5> QED BY <4>1, <5>2
      <4> QED BY <3>2, <4>2
    <3>4. /\ parsed' \in Seq([B!Needed -> CaptureLines]) /\ DOMAIN parsed' = 1 .. z + 1
          /\ Len(parsed') = z + 1 /\ parsed'[z + 1] = f
          /\ \A n \in 1 .. z : parsed'[n] = parsed[n]
      <4> DEFINE S == [B!Needed -> CaptureLines]
      <4>1. f \in S /\ parsed \in Seq(S)  BY <3>3, <1>9
      <4>2. parsed' = Append(parsed, f)  BY <3>1, <3>2
      <4> HIDE DEF S
      <4>3. /\ parsed' \in Seq(S) /\ DOMAIN parsed' = 1 .. z + 1
            /\ Len(parsed') = z + 1 /\ parsed'[z + 1] = f
            /\ \A n \in 1 .. z : parsed'[n] = parsed[n]
        BY <4>1, <4>2, <2>1
      <4> QED BY <4>3 DEF S
    <3>5. ASSUME NEW n \in 1 .. z + 1
          PROVE  /\ (Passes(blocks[n]))'
                 /\ \A kind \in B!Needed : parsed'[n][kind] = (B!First(blocks[n], kind))'
      <4>1. CASE n = z + 1
        <5>1. \A kind \in B!Needed : parsed'[n][kind] = B!First(blocks[n], kind)
          BY <3>2, <3>4, <4>1
        <5>2. Passes(blocks[n])  BY <2>3, <4>1
        <5> QED BY <5>1, <5>2, <1>1, <1>2, PassesKept
      <4>2. CASE n \in 1 .. z
        <5>1. n \in DOMAIN parsed  BY <2>1, <4>2, <1>9
        <5>2. /\ Passes(blocks[n])
              /\ \A kind \in B!Needed : parsed'[n][kind] = B!First(blocks[n], kind)
          BY <5>1, <3>4, <4>2, <1>4 DEF InTurn
        <5> QED BY <5>2, <1>1, <1>2, PassesKept
      <4> QED BY <4>1, <4>2
    <3>6. Len(parsed') <= Len(blocks')  BY <3>4, <2>0, <2>1, <1>2, <1>9
    <3>7. InTurn'
      BY <3>1, <3>4, <3>5, <3>6, <1>2, <1>5, <1>11 DEF InTurn
    <3>8. BenchType'  BY <1>2, <1>8, <3>1, <3>4
    <3> QED BY <3>1, <3>7, <3>8, <1>2, <1>3 DEF BenchInv
  <2>4. CASE ~Passes(blocks[z + 1])
    <3>1. parsed' = parsed /\ verdict' = "fail"
      BY <1>14, <2>1, <2>4 DEF B!ParseBlock, Passes, B!Fail
    <3>2. ~Healthy  BY <2>2, <2>4, HealthyPasses
    <3> QED BY <3>1, <3>2, <1>12
  <2> QED BY <2>3, <2>4
<1>15. CASE B!Compare
  <2>1. /\ parsed' = parsed /\ Len(parsed) = Len(blocks) /\ ~B!TooFew
        /\ verdict' = IF opt.mode = "functional" \/ B!Reproducible THEN "ok" ELSE "fail"
    BY <1>15 DEF B!Compare
  <2>2. CASE opt.mode = "functional" \/ B!Reproducible
    <3>1. verdict' = "ok"  BY <2>1, <2>2
    <3>2. (B!TooFew)' <=> B!TooFew  BY <1>2 DEF B!TooFew
    <3>3. (B!Reproducible)' <=> B!Reproducible
      BY <1>2, <2>1 DEF B!Reproducible, B!Same, B!Near, B!Warm
    <3>4. InTurn'
      BY <3>1, <3>2, <3>3, <2>1, <2>2, <1>2, <1>5, <1>9, <1>10, <1>11 DEF InTurn
    <3>5. BenchType'  BY <1>8, <1>9, <2>1, <3>1
    <3> QED BY <3>1, <3>4, <3>5, <1>3 DEF BenchInv
  <2>3. CASE ~(opt.mode = "functional" \/ B!Reproducible)
    <3>1. verdict' = "fail"  BY <2>1, <2>3
    <3>2. ~Healthy
      <4> SUFFICES ASSUME Healthy PROVE FALSE  OBVIOUS
      <4>1. lost = {}  BY DEF Healthy
      <4>2. B!Reproducible  BY <4>1, <2>1, <1>6, HealthyCompared
      <4> QED BY <4>2, <2>3
    <3> QED BY <3>1, <3>2, <2>1, <1>12
  <2> QED BY <2>2, <2>3
<1> QED BY <1>13, <1>14, <1>15

(* CaptureStep: the capture, as a whole.                                   *)
LEMMA CaptureStep ==
  ASSUME BenchInv, BenchAssumption, B!Lose \/ B!Read
  PROVE  BenchInv'
<1>1. /\ B!Given /\ at' = at + 1 /\ parsed' = parsed /\ verdict' = verdict
      /\ verdict = "none" /\ parsed = <<>>
  BY CaptureMoves
<1>2. BenchType' /\ Spanned'  BY CaptureTyped
<1>3. Within' /\ Separate' /\ Ordered' /\ Complete'
  BY CaptureWithin, CaptureSeparate, CaptureOrdered, CaptureComplete
<1>4. Len(blocks') \in Nat  BY <1>2 DEF BenchType
<1>5. InTurn'
  BY <1>1, <1>4 DEF InTurn
<1> QED BY <1>1, <1>2, <1>3, <1>5 DEF BenchInv

(* BenchSafe: the invariant of the capture and its parser.                 *)
LEMMA BenchSafe == BoardSpec => [](part = "bench" => BenchInv)
<1>1. ASSUME BoardInit PROVE part = "bench" => BenchInv
  <2> SUFFICES ASSUME B!Init PROVE BenchInv  BY <1>1 DEF BoardInit
  <2>0. BenchAssumption  BY BenchAssumption
  <2>1. /\ fault \in B!Faults /\ hit \in Hits /\ window \in Windows /\ opt \in Options
        /\ fault \in {"none", "host", "brim"} => hit = 1 .. Blocks
        /\ lost = {} /\ at = window[1] /\ inside = FALSE /\ cur = <<>>
        /\ blocks = <<>> /\ parsed = <<>> /\ verdict = "none"
    BY DEF B!Init
  <2>2. /\ hit \in SUBSET (1 .. Blocks) /\ window \in B!Lines \X B!Lines
        /\ window[1] <= window[2] /\ MaxLost \in Nat
        /\ opt \in [mode : {"score", "functional"}, minBlocks : Nat, warmup : Nat,
                    tolerance : 0 .. 4, allowShort : BOOLEAN]
    BY <2>0, <2>1 DEF BenchAssumption
  <2>3. window[1] \in Nat \ {0} /\ window[2] \in Nat /\ window[1] \in B!Lines
    BY <2>0, <2>2, LinesInside
  <2>4. BenchType
    <3> DEFINE T == Seq(CaptureLines)
               F == [B!Needed -> CaptureLines]
    <3>1. <<>> \in T  OBVIOUS
    <3> HIDE DEF T, F
    <3>2. <<>> \in Seq(T) /\ <<>> \in Seq(F)  OBVIOUS
    <3>3. cur \in Seq(CaptureLines) /\ blocks \in Seq(Seq(CaptureLines))
          /\ parsed \in Seq([B!Needed -> CaptureLines])
      BY <2>1, <3>1, <3>2 DEF T, F
    <3>4. hit \in SUBSET (1 .. Blocks) /\ lost \in SUBSET B!Lines  BY <2>1, <2>2
    <3>5. at \in Nat  BY <2>1, <2>3
    <3>6. inside \in BOOLEAN /\ verdict \in {"none", "ok", "fail"}  BY <2>1
    <3> QED BY <2>1, <2>2, <3>3, <3>4, <3>5, <3>6 DEF BenchType
  <2>5. Spanned
    <3>1. IsFiniteSet({}) /\ Cardinality({}) = 0  BY FS_EmptySet
    <3> QED BY <3>1, <2>1, <2>2, <2>3 DEF Spanned
  <2>6. Within /\ Separate /\ Ordered  BY <2>1 DEF Within, Separate, Ordered
  <2>7. InTurn  BY <2>1 DEF InTurn
  <2>8. Complete
    <3>1. ASSUME NEW k \in Nat, NEW m \in 1 .. 13, at = 13 * k + m
          PROVE  ~(m > 1 /\ window[1] <= 13 * k + 1)
      BY <2>1, <2>3, <3>1
    <3>2. Arrived = {}
      <4> SUFFICES ASSUME NEW k \in Arrived PROVE FALSE  OBVIOUS
      <4>1. k \in 1 .. Blocks /\ window[1] <= (k - 1) * 13 + 1 /\ k * 13 < window[1]
        BY <2>1 DEF Arrived
      <4> QED BY <4>1, <2>3
    <3> QED BY <3>1, <3>2, <2>1, FS_EmptySet DEF Complete
  <2> QED BY <2>1, <2>4, <2>5, <2>6, <2>7, <2>8 DEF BenchInv
<1>2. ASSUME part = "bench" => BenchInv, [BoardNext]_boardVars
      PROVE  (part = "bench" => BenchInv)'
  <2>0. BenchAssumption  BY BenchAssumption
  <2>1. part' = part /\ (part = "bench" => [B!Next]_(B!vars))  BY <1>2, OneBench
  <2> SUFFICES ASSUME part = "bench", BenchInv, [B!Next]_(B!vars) PROVE BenchInv'
    BY <1>2, <2>1
  <2>2. CASE B!Next
    BY <2>0, <2>2, CaptureStep, CheckStep DEF B!Next, B!Tool
  <2>3. CASE UNCHANGED B!vars
    <3>1. B!Given /\ B!Split /\ parsed' = parsed /\ verdict' = verdict
      BY <2>3 DEF B!vars, B!Given, B!Split
    <3>2. Within' /\ Separate' /\ Ordered' /\ Complete' /\ Spanned'  BY <3>1, CutsKept
    <3>3. /\ lost' = lost /\ at' = at /\ inside' = inside /\ cur' = cur /\ blocks' = blocks
          /\ fault' = fault /\ hit' = hit /\ window' = window /\ opt' = opt
      BY <3>1 DEF B!Split, B!Given
    <3>4. BenchType'
      <4>1. /\ B!Faults' = B!Faults /\ B!Lines' = B!Lines /\ CaptureLines' = CaptureLines
            /\ B!Needed' = B!Needed
        BY DEF B!Faults, B!Harmless, B!Lines, B!Kinds, CaptureLines, Slot, Figures, B!Needed
      <4>2. BenchType  BY DEF BenchInv
      <4> QED BY <3>1, <3>3, <4>1, <4>2 DEF BenchType
    <3>5. InTurn'
      <4>1. InTurn  BY DEF BenchInv
      <4>2. (B!TooFew)' <=> B!TooFew  BY <3>3 DEF B!TooFew
      <4>3. (B!Reproducible)' <=> B!Reproducible
        BY <3>1, <3>3 DEF B!Reproducible, B!Same, B!Near, B!Warm
      <4>4. \A n \in DOMAIN parsed' :
              /\ (Passes(blocks[n]))'
              /\ \A kind \in B!Needed : parsed'[n][kind] = (B!First(blocks[n], kind))'
        BY <3>1, <3>3, <4>1, PassesKept DEF InTurn
      <4>5. B!Needed' = B!Needed  BY DEF B!Needed
      <4> QED BY <3>1, <3>3, <4>1, <4>2, <4>3, <4>4, <4>5 DEF InTurn
    <3>6. Healthy' <=> Healthy  BY <3>1, <3>3, HealthyGiven
    <3> QED BY <3>1, <3>2, <3>4, <3>5, <3>6 DEF BenchInv
  <2> QED BY <2>2, <2>3
<1> QED BY <1>1, <1>2, PTL DEF BoardSpec

(* BenchScoredSound: for any number of blocks, any window and up to two    *)
(* lost lines, a score of parse_bench_uart.py rests on blocks in which     *)
(* nothing is wrong, and each of its figures on one of them.               *)
THEOREM BenchScoredSound == BoardSpec => []ScoredIsSound
<1>1. (part = "bench" => BenchInv) => ScoredIsSound
  <2>1. BenchAssumption  BY BenchAssumption
  <2> QED BY <2>1, ScoredSound DEF ScoredIsSound
<1> QED BY <1>1, BenchSafe, PTL

(* BenchHealthyScored: and a healthy board in a clean capture is scored.   *)
THEOREM BenchHealthyScored == BoardSpec => []HealthyIsScored
<1>1. (part = "bench" => BenchInv) => HealthyIsScored
  <2> SUFFICES ASSUME BenchInv PROVE B!HealthyIsScored  BY DEF HealthyIsScored
  <2>1. verdict \in {"none", "ok", "fail"} /\ (verdict = "fail" => ~Healthy)
    BY DEF BenchInv, BenchType
  <2>2. B!Cardinality({k \in 1 .. Blocks : B!InWindow(k)})
        = Cardinality({k \in 1 .. Blocks : B!InWindow(k)})
    BY SameCountB
  <2> QED BY <2>1, <2>2 DEF B!HealthyIsScored, Healthy, B!Accepted
<1> QED BY <1>1, BenchSafe, PTL
=============================================================================
